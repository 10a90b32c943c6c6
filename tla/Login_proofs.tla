---------------------------- MODULE Login_proofs ----------------------------
(***************************************************************************)
(* Theorems about module Login, for any number of browsers, tabs, logins    *)
(* and failures, and any lifetimes and quotas; and, last, about the         *)
(* provider's keys of module ExternalOIDC.                                  *)
(***************************************************************************)
EXTENDS Login, ExternalOIDC, TLAPS

(* The steps of a callback that hold a state they consumed and have made no *)
(* session of it yet, and all of its steps after that.                      *)
Holding == {"exchange", "identity", "session"}
SignedIn == {"token", "cookies"}
Labels == Holding \cup SignedIn \cup
          {"idle", "redirect", "consume", "approve", "code", "deny",
           "revoke_session", "revoke_token"}

Jobs == [browser: Browsers, jar: Jars, client: Clients \cup {None},
         state: States \cup {None}, code: States \cup {None},
         user: Subjects \cup {None}, session: Sessions \cup {None},
         token: Tokens \cup {None}]

TypeOK ==
    /\ states \in [States -> StateRows \cup {None}]
    /\ sessions \in [Sessions -> SessionRows \cup {None}]
    /\ tokens \in [Tokens -> TokenRows \cup {None}]
    /\ codes \in [Codes -> CodeRows \cup {None}]
    /\ cookies \in [Browsers -> Jars]
    /\ answered \in [States -> Subjects \cup {None}]
    /\ began \in [States -> Browsers \cup {None}]
    /\ asked \in [Browsers -> SUBSET Clients]
    /\ loggedOut \in SUBSET (Sessions \cup Tokens)
    /\ pc \in [Handlers -> Labels] /\ DOMAIN job = Handlers
    /\ \A h \in Handlers : pc[h] # "idle" => job[h] \in Jobs
    /\ now \in Nat

(* A state that no callback can consume any more.                           *)
Used(s) == began[s] # None /\ (states[s] = None \/ states[s].consumed)

(* A session of browser b, and cookies that browser b may hold.             *)
Own(b, s) == sessions[s] # None /\ began[sessions[s].via] = b

JarOK(b, jar) ==
    /\ jar.pending # None => jar.pending \in asked[b]
    /\ jar.session # None => Own(b, jar.session)
    /\ jar.token # None => tokens[jar.token] # None

(* What a request knows at each of its steps.                               *)
JobOK(at, j) ==
    /\ JarOK(j.browser, j.jar)
    /\ j.client # None => j.client \in asked[j.browser]
    /\ at = "consume" => j.state # None /\ j.code # None
    /\ at \in Holding => /\ j.state # None /\ j.code # None
                         /\ began[j.state] = j.browser /\ Used(j.state)
    /\ at \in {"identity", "session"} => j.user # None /\ answered[j.state] = j.user
    /\ at \in SignedIn => j.user # None /\ j.session # None /\ Own(j.browser, j.session)
    /\ j.token # None => tokens[j.token] # None
    /\ at \in {"approve", "code"} =>
         /\ j.user # None
         /\ \E s \in States : began[s] = j.browser /\ answered[s] = j.user
    /\ at = "code" => j.client # None
    /\ at = "revoke_token" /\ j.jar.session # None => sessions[j.jar.session].revoked

StatesOK ==
    \A s \in States : states[s] # None =>
        /\ began[s] = states[s].browser
        /\ states[s].pending # None => states[s].pending \in asked[states[s].browser]

SessionsOK ==
    \A s \in Sessions : sessions[s] # None =>
        /\ answered[sessions[s].via] = sessions[s].user
        /\ Used(sessions[s].via)

CookiesOK == \A b \in Browsers : JarOK(b, cookies[b])
JobsOK == \A h \in Handlers : pc[h] # "idle" => JobOK(pc[h], job[h])

(* A state is held by one request, or has made one session.                 *)
Holders == {h \in Handlers : pc[h] \in Holding}
SingleUse ==
    /\ \A g, h \in Holders : job[g].state = job[h].state => g = h
    /\ \A h \in Holders, s \in Sessions : sessions[s] # None => sessions[s].via # job[h].state
    /\ \A s, t \in Sessions :
         sessions[s] # None /\ sessions[t] # None /\ sessions[s].via = sessions[t].via => s = t

LoggedOutOK ==
    \A x \in loggedOut : /\ x \in Sessions => sessions[x] # None /\ sessions[x].revoked
                         /\ x \in Tokens => tokens[x] # None /\ tokens[x].revoked

(* The inductive invariant.                                                 *)
IInv == /\ TypeOK /\ StatesOK /\ SessionsOK /\ CookiesOK /\ JobsOK /\ SingleUse
        /\ LoggedOutOK /\ CodeIsForWhatWasAsked

-----------------------------------------------------------------------------
LEMMA InitHasInv == Init => IInv
  <1> SUFFICES ASSUME Init PROVE IInv
    OBVIOUS
  <1>1. TypeOK
    BY LoginAssumption DEF Init, TypeOK, Labels, EmptyJar, Jars
  <1>2. CookiesOK
    BY DEF Init, CookiesOK, JarOK, EmptyJar
  <1> QED
    BY <1>1, <1>2 DEF Init, IInv, StatesOK, SessionsOK, JobsOK, SingleUse, Holders, Holding,
                      LoggedOutOK, CodeIsForWhatWasAsked

(* What no step takes back: a browser that asked, a login that began, was   *)
(* answered or used, a session, a token and a revocation.                   *)
Monotone ==
    /\ \A b \in Browsers : asked[b] \subseteq asked'[b]
    /\ \A s \in States : /\ began[s] # None => began'[s] = began[s]
                         /\ answered[s] # None => answered'[s] = answered[s]
                         /\ Used(s) => Used(s)'
    /\ \A s \in Sessions : sessions[s] # None =>
         /\ sessions'[s] # None
         /\ sessions'[s].via = sessions[s].via /\ sessions'[s].user = sessions[s].user
         /\ sessions[s].revoked => sessions'[s].revoked
    /\ \A t \in Tokens : tokens[t] # None =>
         tokens'[t] # None /\ (tokens[t].revoked => tokens'[t].revoked)

LEMMA NothingChanged ==
    ASSUME UNCHANGED <<states, sessions, tokens, answered, began, asked>>
    PROVE  Monotone
  BY DEF Monotone, Used

(* What a browser holds and what a request knows stays true.                *)
LEMMA JarKept ==
    ASSUME TypeOK, Monotone, NEW b \in Browsers, NEW jar \in Jars, JarOK(b, jar)
    PROVE  JarOK(b, jar)'
  <1>1. jar.session # None => Own(b, jar.session)'
    <2> SUFFICES ASSUME jar.session # None PROVE Own(b, jar.session)'
      OBVIOUS
    <2>1. jar.session \in Sessions /\ sessions[jar.session] # None
          /\ began[sessions[jar.session].via] = b
      BY DEF Jars, JarOK, Own
    <2>2. sessions[jar.session].via \in States
      BY <2>1 DEF TypeOK, SessionRows
    <2> QED
      BY <2>1, <2>2, LoginAssumption DEF Monotone, Own
  <1>2. jar.pending # None => jar.pending \in asked'[b]
    BY DEF JarOK, Monotone
  <1>3. jar.token # None => tokens'[jar.token] # None
    BY DEF JarOK, Monotone, Jars
  <1> QED
    BY <1>1, <1>2, <1>3 DEF JarOK

LEMMA JobKept ==
    ASSUME TypeOK, Monotone, NEW at, NEW j \in Jobs, JobOK(at, j)
    PROVE  JobOK(at, j)'
  <1>1. j.browser \in Browsers /\ j.jar \in Jars
    BY DEF Jobs
  <1>2. JarOK(j.browser, j.jar)'
    BY <1>1, JarKept DEF JobOK
  <1>3. j.client # None => j.client \in asked'[j.browser]
    BY <1>1 DEF JobOK, Monotone
  <1>4. at \in Holding => began'[j.state] = j.browser /\ Used(j.state)'
    BY <1>1, LoginAssumption DEF Jobs, JobOK, Monotone
  <1>5. at \in {"identity", "session"} => answered'[j.state] = j.user
    BY DEF Jobs, JobOK, Monotone, Holding
  <1>6. at \in SignedIn => Own(j.browser, j.session)'
    <2> SUFFICES ASSUME at \in SignedIn PROVE Own(j.browser, j.session)'
      OBVIOUS
    <2>1. j.session \in Sessions /\ sessions[j.session] # None
          /\ began[sessions[j.session].via] = j.browser
      BY DEF Jobs, JobOK, Own
    <2>2. sessions[j.session].via \in States
      BY <2>1 DEF TypeOK, SessionRows
    <2> QED
      BY <1>1, <2>1, <2>2, LoginAssumption DEF Monotone, Own
  <1>7. j.token # None => tokens'[j.token] # None
    BY DEF Jobs, JobOK, Monotone
  <1>8. at \in {"approve", "code"} =>
          \E s \in States : began'[s] = j.browser /\ answered'[s] = j.user
    BY <1>1, LoginAssumption DEF Jobs, JobOK, Monotone
  <1>9. at = "revoke_token" /\ j.jar.session # None => sessions'[j.jar.session].revoked
    BY <1>1 DEF Jars, JobOK, JarOK, Own, Monotone
  <1> QED
    BY <1>2, <1>3, <1>4, <1>5, <1>6, <1>7, <1>8, <1>9 DEF JobOK

(* The parts of the invariant that a step does not touch.                   *)
LEMMA Untouched ==
    ASSUME IInv, Monotone
    PROVE  /\ states' = states => StatesOK'
           /\ (\A s \in Sessions : sessions'[s] # None => sessions[s] # None) => SessionsOK'
           /\ cookies' = cookies => CookiesOK'
           /\ loggedOut' = loggedOut => LoggedOutOK'
           /\ codes' = codes => CodeIsForWhatWasAsked'
  <1>1. states' = states => StatesOK'
    BY LoginAssumption DEF IInv, TypeOK, StateRows, StatesOK, Monotone
  <1>2. ASSUME \A s \in Sessions : sessions'[s] # None => sessions[s] # None PROVE SessionsOK'
    <2> SUFFICES ASSUME NEW s \in Sessions, sessions'[s] # None
                 PROVE  /\ answered'[sessions'[s].via] = sessions'[s].user
                        /\ Used(sessions[s].via)'
      BY DEF SessionsOK
    <2>1. /\ sessions[s] # None /\ sessions[s] \in SessionRows
          /\ sessions'[s].via = sessions[s].via /\ sessions'[s].user = sessions[s].user
          /\ answered[sessions[s].via] = sessions[s].user /\ Used(sessions[s].via)
      BY <1>2 DEF IInv, TypeOK, SessionsOK, Monotone
    <2>2. sessions[s].via \in States /\ sessions[s].user # None
      BY <2>1, LoginAssumption DEF SessionRows
    <2> QED
      BY <2>1, <2>2 DEF Monotone, Used
  <1>3. cookies' = cookies => CookiesOK'
    <2> SUFFICES ASSUME cookies' = cookies, NEW b \in Browsers PROVE JarOK(b, cookies[b])'
      BY DEF CookiesOK
    <2>1. PICK jar : jar = cookies[b]
      OBVIOUS
    <2>2. jar \in Jars /\ JarOK(b, jar) /\ TypeOK
      BY <2>1 DEF IInv, TypeOK, CookiesOK
    <2>3. JarOK(b, jar)'
      BY <2>2, JarKept
    <2> QED
      BY <2>1, <2>3 DEF JarOK, Own
  <1>4. loggedOut' = loggedOut => LoggedOutOK'
    BY DEF IInv, LoggedOutOK, Monotone
  <1>5. codes' = codes => CodeIsForWhatWasAsked'
    <2> SUFFICES ASSUME codes' = codes, NEW c \in Codes, codes[c] # None
                 PROVE  /\ codes[c].client \in asked'[codes[c].browser]
                        /\ \E s \in States : began'[s] = codes[c].browser
                                             /\ answered'[s] = codes[c].owner
      BY DEF CodeIsForWhatWasAsked
    <2>1. codes[c].browser \in Browsers /\ codes[c].owner \in Subjects
      BY DEF IInv, TypeOK, CodeRows
    <2>2. PICK s \in States : began[s] = codes[c].browser /\ answered[s] = codes[c].owner
      BY DEF IInv, CodeIsForWhatWasAsked
    <2>3. codes[c].client \in asked[codes[c].browser]
      BY DEF IInv, CodeIsForWhatWasAsked
    <2> QED
      BY <2>1, <2>2, <2>3, LoginAssumption DEF Monotone
  <1> QED
    BY <1>1, <1>2, <1>3, <1>4, <1>5

(* A browser gets cookies that it may hold.                                 *)
LEMMA CookiesSet ==
    ASSUME IInv, Monotone, NEW b \in Browsers, NEW jar \in Jars, JarOK(b, jar)',
           cookies' = [cookies EXCEPT ![b] = jar]
    PROVE  cookies' \in [Browsers -> Jars] /\ CookiesOK'
  <1>1. cookies' \in [Browsers -> Jars]
    BY DEF IInv, TypeOK
  <1>2. ASSUME NEW c \in Browsers PROVE JarOK(c, cookies[c])'
    <2>1. PICK k : k = cookies'[c]
      OBVIOUS
    <2>2. CASE c = b
      BY <2>1, <2>2 DEF JarOK, Own, IInv, TypeOK
    <2>3. CASE c # b
      <3>1. k = cookies[c] /\ k \in Jars /\ JarOK(c, k) /\ TypeOK
        BY <2>1, <2>3 DEF IInv, TypeOK, CookiesOK
      <3>2. JarOK(c, k)'
        BY <3>1, JarKept
      <3> QED
        BY <2>1, <3>2 DEF JarOK, Own
    <2> QED
      BY <2>2, <2>3
  <1> QED
    BY <1>1, <1>2 DEF CookiesOK

(* A request goes on to a step whose requirements it meets.                 *)
LEMMA RequestMoves ==
    ASSUME IInv, Monotone, NEW h \in Handlers, NEW j, NEW next \in Labels, Goto(h, j, next),
           next # "idle" => j \in Jobs /\ JobOK(next, j)'
    PROVE  /\ pc' \in [Handlers -> Labels] /\ DOMAIN job' = Handlers
           /\ \A g \in Handlers : pc'[g] # "idle" => job'[g] \in Jobs
           /\ JobsOK'
           /\ pc'[h] = next /\ job'[h] = j
           /\ \A g \in Handlers : g # h => pc'[g] = pc[g] /\ job'[g] = job[g]
  <1>1. /\ pc' \in [Handlers -> Labels] /\ DOMAIN job' = Handlers
        /\ pc'[h] = next /\ job'[h] = j
        /\ \A g \in Handlers : g # h => pc'[g] = pc[g] /\ job'[g] = job[g]
    BY DEF Goto, IInv, TypeOK
  <1>2. \A g \in Handlers : pc'[g] # "idle" => job'[g] \in Jobs
    BY <1>1 DEF IInv, TypeOK
  <1>3. ASSUME NEW g \in Handlers, pc'[g] # "idle" PROVE JobOK(pc[g], job[g])'
    <2>1. PICK at, k : at = pc'[g] /\ k = job'[g]
      OBVIOUS
    <2>2. JobOK(at, k)'
      <3>1. CASE g = h
        BY <1>1, <1>3, <2>1, <3>1
      <3>2. CASE g # h
        <4>1. k \in Jobs /\ JobOK(at, k) /\ TypeOK
          BY <1>1, <1>3, <2>1, <3>2 DEF IInv, TypeOK, JobsOK
        <4> QED
          BY <4>1, JobKept
      <3> QED
        BY <3>1, <3>2
    <2> QED
      BY <2>1, <2>2 DEF JobOK, JarOK, Own, Used
  <1> QED
    BY <1>1, <1>2, <1>3 DEF JobsOK

LEMMA RequestsStay ==
    ASSUME IInv, Monotone, UNCHANGED <<pc, job>>
    PROVE  JobsOK'
  <1> SUFFICES ASSUME NEW g \in Handlers, pc[g] # "idle" PROVE JobOK(pc[g], job[g])'
    BY DEF JobsOK
  <1>1. PICK at, k : at = pc[g] /\ k = job[g]
    OBVIOUS
  <1>2. k \in Jobs /\ JobOK(at, k) /\ TypeOK
    BY <1>1 DEF IInv, TypeOK, JobsOK
  <1>3. JobOK(at, k)'
    BY <1>2, JobKept
  <1> QED
    BY <1>1, <1>3 DEF JobOK, JarOK, Own, Used

(* No state is consumed and no session made.                                *)
LEMMA SingleUseKept ==
    ASSUME SingleUse,
           \A s \in Sessions : sessions'[s] # None =>
                                 sessions[s] # None /\ sessions'[s].via = sessions[s].via,
           \A h \in Handlers : pc'[h] \in Holding =>
                                 pc[h] \in Holding /\ job'[h].state = job[h].state
    PROVE  SingleUse'
  BY DEF SingleUse, Holders

(* A step of a request that leaves the tables of the login and the history  *)
(* alone.                                                                   *)
Quiet == UNCHANGED <<states, sessions, tokens, codes, answered, began, asked, loggedOut, now>>

LEMMA QuietStep ==
    ASSUME IInv, Quiet, NEW h \in Handlers, NEW j, NEW next \in Labels, Goto(h, j, next),
           next # "idle" => j \in Jobs /\ JobOK(next, j),
           next \in Holding => pc[h] \in Holding /\ j.state = job[h].state,
           \/ cookies' = cookies
           \/ \E b \in Browsers : \E jar \in Jars :
                JarOK(b, jar) /\ cookies' = [cookies EXCEPT ![b] = jar]
    PROVE  IInv'
  <1>1. Monotone /\ TypeOK
    BY NothingChanged DEF Quiet, IInv
  <1>2. next # "idle" => j \in Jobs /\ JobOK(next, j)'
    BY <1>1, JobKept
  <1>3. /\ pc' \in [Handlers -> Labels] /\ DOMAIN job' = Handlers
        /\ \A g \in Handlers : pc'[g] # "idle" => job'[g] \in Jobs
        /\ JobsOK'
        /\ pc'[h] = next /\ job'[h] = j
        /\ \A g \in Handlers : g # h => pc'[g] = pc[g] /\ job'[g] = job[g]
    BY <1>1, <1>2, RequestMoves
  <1>4. StatesOK' /\ SessionsOK' /\ LoggedOutOK' /\ CodeIsForWhatWasAsked'
    BY <1>1, Untouched DEF Quiet
  <1>5. cookies' \in [Browsers -> Jars] /\ CookiesOK'
    <2>1. CASE cookies' = cookies
      BY <1>1, <2>1, Untouched DEF TypeOK
    <2>2. ASSUME NEW b \in Browsers, NEW jar \in Jars, JarOK(b, jar),
                 cookies' = [cookies EXCEPT ![b] = jar]
          PROVE  cookies' \in [Browsers -> Jars] /\ CookiesOK'
      <3>1. JarOK(b, jar)'
        BY <1>1, <2>2, JarKept
      <3> QED
        BY <1>1, <2>2, <3>1, CookiesSet
    <2> QED
      BY <2>1, <2>2
  <1>6. SingleUse'
    BY <1>3, SingleUseKept DEF Quiet, IInv
  <1>7. TypeOK'
    BY <1>1, <1>3, <1>5 DEF TypeOK, Quiet
  <1> QED
    BY <1>3, <1>4, <1>5, <1>6, <1>7 DEF IInv

-----------------------------------------------------------------------------
(* A request arrives.                                                       *)
LEMMA RequestOK ==
    ASSUME IInv, NEW b \in Browsers
    PROVE  /\ Request(b) \in Jobs /\ Request(b).browser = b /\ Request(b).jar = cookies[b]
           /\ Request(b).client = None /\ Request(b).token = None
           /\ cookies[b] \in Jars /\ JarOK(b, cookies[b])
  BY DEF IInv, TypeOK, CookiesOK, Request, Jobs

(* The requirements of the steps at which requests arrive.                  *)
LEMMA ArrivalOK ==
    ASSUME NEW j \in Jobs, JarOK(j.browser, j.jar), j.token = None,
           j.client # None => j.client \in asked[j.browser]
    PROVE  /\ JobOK("redirect", j) /\ JobOK("deny", j) /\ JobOK("revoke_session", j)
           /\ j.state # None /\ j.code # None => JobOK("consume", j)
  BY DEF JobOK, Holding, SignedIn

LEMMA BeginLoginStep ==
    ASSUME IInv, NEW h \in Handlers, NEW b \in Browsers, BeginLogin(h, b)
    PROVE  IInv'
  <1>1. PICK j : j = [Request(b) EXCEPT !.jar = browser_session_id(Request(b).jar)]
    OBVIOUS
  <1>2. browser_session_id(cookies[b]) \in Jars /\ JarOK(b, browser_session_id(cookies[b]))
    BY RequestOK DEF browser_session_id, Jars, JarOK
  <1>3. /\ j \in Jobs /\ j.browser = b /\ j.client = None /\ j.token = None
        /\ j.jar = browser_session_id(cookies[b])
    BY <1>1, <1>2, RequestOK DEF Jobs
  <1>4. JobOK("redirect", j)
    BY <1>2, <1>3, ArrivalOK
  <1>5. Quiet /\ Goto(h, j, "redirect") /\ cookies' = cookies
    BY <1>1 DEF BeginLogin, Arrive, Quiet, tables
  <1> QED
    BY <1>3, <1>4, <1>5, QuietStep DEF Labels, Holding

LEMMA CallbackStep ==
    ASSUME IInv, NEW h \in Handlers, NEW b \in Browsers, NEW s \in States, NEW g \in States,
           Callback(h, b, s, g)
    PROVE  IInv'
  <1>1. PICK j : j = [Request(b) EXCEPT !.state = s, !.code = g]
    OBVIOUS
  <1>2. /\ j \in Jobs /\ j.browser = b /\ j.client = None /\ j.token = None
        /\ j.jar = cookies[b] /\ j.state = s /\ j.code = g
    <2>1. j = [browser |-> b, jar |-> cookies[b], client |-> None, state |-> s, code |-> g,
               user |-> None, session |-> None, token |-> None]
      BY <1>1 DEF Request
    <2> QED
      BY <2>1, RequestOK DEF Jobs
  <1>3. JobOK("consume", j)
    BY <1>2, RequestOK, ArrivalOK, LoginAssumption
  <1>4. Quiet /\ Goto(h, j, "consume") /\ cookies' = cookies
    BY <1>1 DEF Callback, Arrive, Quiet, tables
  <1> QED
    BY <1>2, <1>3, <1>4, QuietStep DEF Labels, Holding

LEMMA DecideStep ==
    ASSUME IInv, NEW h \in Handlers, NEW b \in Browsers, NEW decision \in {"approve", "deny"},
           Decide(h, b, decision)
    PROVE  IInv'
  <1> DEFINE r == Request(b)
             s == cookies[b].session
  <1>1. PICK j : j = [r EXCEPT !.client = r.jar.pending, !.jar.pending = None,
                               !.user = sessions[r.jar.session].user]
    OBVIOUS
  <1>2. /\ s \in Sessions /\ sessions[s] # None /\ sessions[s] \in SessionRows
        /\ began[sessions[s].via] = b /\ answered[sessions[s].via] = sessions[s].user
    BY RequestOK, LoginAssumption
    DEF Decide, web_session_for_hash, Jars, JarOK, Own, IInv, TypeOK, SessionsOK
  <1>3. sessions[s].via \in States /\ sessions[s].user \in Subjects
    BY <1>2 DEF SessionRows
  <1>4. [cookies[b] EXCEPT !.pending = None] \in Jars
        /\ JarOK(b, [cookies[b] EXCEPT !.pending = None])
    BY RequestOK DEF Jars, JarOK
  <1>5. /\ j \in Jobs /\ j.browser = b /\ j.client = cookies[b].pending /\ j.token = None
        /\ j.jar = [cookies[b] EXCEPT !.pending = None] /\ j.user = sessions[s].user
    <2>1. PICK jar : jar = [cookies[b] EXCEPT !.pending = None]
      OBVIOUS
    <2>2. j = [browser |-> b, jar |-> jar, client |-> cookies[b].pending, state |-> None,
               code |-> None, user |-> sessions[s].user, session |-> None, token |-> None]
      BY <1>1, <2>1 DEF Request
    <2>3. cookies[b].pending \in Clients \cup {None}
      BY RequestOK DEF Jars
    <2> QED
      BY <1>3, <1>4, <2>1, <2>2, <2>3 DEF Jobs
  <1>6. j.client # None => j.client \in asked[b]
    BY <1>5, RequestOK DEF JarOK
  <1>7. JobOK("deny", j)
    BY <1>4, <1>5, <1>6, ArrivalOK
  <1>8. JobOK("approve", j)
    BY <1>2, <1>3, <1>5, <1>7, LoginAssumption DEF JobOK, Holding, SignedIn
  <1>9. Quiet /\ Goto(h, j, decision) /\ cookies' = cookies
    BY <1>1 DEF Decide, Arrive, Quiet, tables
  <1> QED
    BY <1>5, <1>7, <1>8, <1>9, QuietStep DEF Labels, Holding

LEMMA LogoutStep ==
    ASSUME IInv, NEW h \in Handlers, NEW b \in Browsers, Logout(h, b)
    PROVE  IInv'
  <1>1. PICK j : j = Request(b)
    OBVIOUS
  <1>2. j \in Jobs /\ j.browser = b /\ j.client = None /\ j.token = None /\ j.jar = cookies[b]
    BY <1>1, RequestOK
  <1>3. JobOK("revoke_session", j)
    BY <1>2, RequestOK, ArrivalOK
  <1>4. Quiet /\ Goto(h, j, "revoke_session") /\ cookies' = cookies
    BY <1>1 DEF Logout, Arrive, Quiet, tables
  <1> QED
    BY <1>2, <1>3, <1>4, QuietStep DEF Labels, Holding

(* A client that a browser asks to authorize.                               *)
LEMMA AuthorizeStep ==
    ASSUME IInv, NEW h \in Handlers, NEW b \in Browsers, NEW c \in Clients, Authorize(h, b, c)
    PROVE  IInv'
  <1> DEFINE r == Request(b)
  <1>1. PICK j : j = [r EXCEPT !.client = c,
                               !.jar = browser_session_id([r.jar EXCEPT !.pending = c])]
    OBVIOUS
  <1>2. PICK jar : jar = browser_session_id([cookies[b] EXCEPT !.pending = c])
    OBVIOUS
  <1>3. /\ UNCHANGED <<states, sessions, tokens, codes, answered, began, loggedOut, now, cookies>>
        /\ asked' = [asked EXCEPT ![b] = @ \cup {c}]
        /\ Goto(h, j, "redirect")
    BY <1>1 DEF Authorize, Arrive, tables
  <1>4. /\ jar \in Jars /\ jar.pending = c /\ jar.session = cookies[b].session
        /\ jar.token = cookies[b].token
    <2>1. cookies[b] \in Jars
      BY RequestOK
    <2>2. jar = [id |-> TRUE, pending |-> c, session |-> cookies[b].session,
                 token |-> cookies[b].token]
      BY <1>2, <2>1 DEF browser_session_id, Jars
    <2> QED
      BY <2>1, <2>2 DEF Jars
  <1>5. /\ j \in Jobs /\ j.browser = b /\ j.client = c /\ j.token = None /\ j.jar = jar
    <2>1. j = [browser |-> b, jar |-> jar, client |-> c, state |-> None, code |-> None,
               user |-> None, session |-> None, token |-> None]
      BY <1>1, <1>2 DEF Request
    <2> QED
      BY <1>4, <2>1 DEF Jobs
  <1>6. Monotone /\ asked' \in [Browsers -> SUBSET Clients] /\ c \in asked'[b]
    BY <1>3 DEF Monotone, Used, IInv, TypeOK
  <1>7. JobOK("redirect", j)'
    <2>1. JarOK(b, jar)'
      BY <1>3, <1>4, <1>6, RequestOK DEF JarOK, Own
    <2> QED
      BY <1>5, <1>6, <2>1 DEF JobOK, Holding, SignedIn
  <1>8. /\ pc' \in [Handlers -> Labels] /\ DOMAIN job' = Handlers
        /\ \A g \in Handlers : pc'[g] # "idle" => job'[g] \in Jobs
        /\ JobsOK'
        /\ pc'[h] = "redirect" /\ job'[h] = j
        /\ \A g \in Handlers : g # h => pc'[g] = pc[g] /\ job'[g] = job[g]
    BY <1>3, <1>5, <1>6, <1>7, RequestMoves DEF Labels
  <1>9. StatesOK' /\ SessionsOK' /\ LoggedOutOK' /\ CodeIsForWhatWasAsked' /\ CookiesOK'
    BY <1>3, <1>6, Untouched
  <1>10. SingleUse'
    BY <1>3, <1>8, SingleUseKept DEF IInv, Holding
  <1>11. TypeOK'
    BY <1>3, <1>6, <1>8 DEF IInv, TypeOK
  <1> QED
    BY <1>8, <1>9, <1>10, <1>11 DEF IInv

-----------------------------------------------------------------------------
(* What a request in flight has.                                            *)
LEMMA InFlight ==
    ASSUME IInv, NEW h \in Handlers, pc[h] # "idle"
    PROVE  /\ job[h] \in Jobs /\ JobOK(pc[h], job[h])
           /\ job[h].browser \in Browsers /\ job[h].jar \in Jars
           /\ JarOK(job[h].browser, job[h].jar)
  BY DEF IInv, TypeOK, JobsOK, JobOK, Jobs

(* An answer gives the browser cookies that it may hold.                    *)
LEMMA AnswerSets ==
    ASSUME IInv, NEW h \in Handlers, pc[h] # "idle", Answer(h, job[h].jar)
    PROVE  /\ Goto(h, None, "idle")
           /\ \E b \in Browsers : \E jar \in Jars :
                JarOK(b, jar) /\ cookies' = [cookies EXCEPT ![b] = jar]
  <1> DEFINE b == job[h].browser
             jar == [cookies[b] EXCEPT !.id = job[h].jar.id, !.pending = job[h].jar.pending]
  <1>1. b \in Browsers /\ job[h].jar \in Jars /\ JarOK(b, job[h].jar)
        /\ cookies[b] \in Jars /\ JarOK(b, cookies[b])
    BY InFlight, RequestOK
  <1>2. jar \in Jars /\ JarOK(b, jar)
    BY <1>1 DEF Jars, JarOK
  <1>3. Goto(h, None, "idle") /\ cookies' = [cookies EXCEPT ![b] = jar]
    BY DEF Answer
  <1> HIDE DEF jar, b
  <1> QED
    BY <1>1, <1>2, <1>3

LEMMA AnswerStep ==
    ASSUME IInv, NEW h \in Handlers, pc[h] # "idle", Answer(h, job[h].jar), Quiet
    PROVE  IInv'
  <1>1. PICK j : j = None
    OBVIOUS
  <1> QED
    BY <1>1, AnswerSets, QuietStep DEF Labels, Holding

(* The steps of a request that only read.                                   *)
LEMMA CallbackClaimsStep ==
    ASSUME IInv, NEW h \in Handlers, CallbackClaims(h)
    PROVE  IInv'
  <1>1. pc[h] = "exchange" /\ Quiet
    BY DEF CallbackClaims, SameStore, SameRest, Quiet, tables, history
  <1>2. CASE Answer(h, job[h].jar)
    BY <1>1, <1>2, AnswerStep
  <1>3. CASE ~Answer(h, job[h].jar)
    <2>1. PICK j : j = [job[h] EXCEPT !.user = answered[job[h].code]]
      OBVIOUS
    <2>2. /\ Goto(h, j, "identity") /\ cookies' = cookies
          /\ job[h].code = job[h].state /\ answered[job[h].code] \in AllowedSubjects
      BY <1>3, <2>1 DEF CallbackClaims, exchange_code_for_token, validate_provider_claims
    <2>3. job[h] \in Jobs /\ JobOK("exchange", job[h])
      BY <1>1, InFlight
    <2>4. /\ j \in Jobs /\ j.user = answered[j.state] /\ j.user # None
          /\ j.state = job[h].state /\ j.browser = job[h].browser /\ j.jar = job[h].jar
          /\ j.client = job[h].client /\ j.code = job[h].code /\ j.token = job[h].token
      BY <2>1, <2>2, <2>3, LoginAssumption DEF Jobs
    <2>5. JobOK("identity", j)
      BY <2>3, <2>4 DEF JobOK, Holding, SignedIn
    <2> QED
      BY <1>1, <2>2, <2>4, <2>5, QuietStep DEF Labels, Holding
  <1> QED
    BY <1>2, <1>3

LEMMA FindOrCreateIdentityStep ==
    ASSUME IInv, NEW h \in Handlers, FindOrCreateIdentity(h)
    PROVE  IInv'
  <1>1. pc[h] = "identity" /\ Quiet /\ cookies' = cookies /\ Goto(h, job[h], "session")
    BY DEF FindOrCreateIdentity, SameRest, Quiet, history
  <1>2. PICK j : j = job[h]
    OBVIOUS
  <1>3. j \in Jobs /\ JobOK("session", j)
    BY <1>1, <1>2, InFlight DEF JobOK, Holding, SignedIn
  <1> QED
    BY <1>1, <1>2, <1>3, QuietStep DEF Labels, Holding

LEMMA SetCookiesStep ==
    ASSUME IInv, NEW h \in Handlers, SetCookies(h)
    PROVE  IInv'
  <1> DEFINE j == job[h]
             b == job[h].browser
             jar == [id |-> j.jar.id, pending |-> pending_authorization_redirect(j),
                     session |-> j.session,
                     token |-> IF j.token # None THEN j.token ELSE cookies[b].token]
  <1>1. pc[h] = "cookies" /\ Quiet /\ Goto(h, None, "idle")
        /\ cookies' = [cookies EXCEPT ![b] = jar]
    BY DEF SetCookies, SameStore, SameRest, Quiet, tables, history
  <1>2. /\ j \in Jobs /\ JobOK("cookies", j) /\ b \in Browsers
        /\ cookies[b] \in Jars /\ JarOK(b, cookies[b])
    BY <1>1, InFlight, RequestOK
  <1>3. jar \in Jars
    BY <1>2 DEF Jobs, Jars, pending_authorization_redirect
  <1>4. JarOK(b, jar)
    BY <1>2 DEF JobOK, JarOK, SignedIn, pending_authorization_redirect
  <1> HIDE DEF jar, b
  <1> QED
    BY <1>1, <1>2, <1>3, <1>4, QuietStep DEF Labels, Holding

LEMMA ApproveStep ==
    ASSUME IInv, NEW h \in Handlers, Approve(h) \/ Deny(h)
    PROVE  IInv'
  <1>1. pc[h] # "idle" /\ Quiet
    BY DEF Approve, Deny, SameStore, SameRest, Quiet, tables, history
  <1>2. CASE Answer(h, job[h].jar)
    BY <1>1, <1>2, AnswerStep
  <1>3. CASE ~Answer(h, job[h].jar)
    <2>1. PICK j : j = job[h]
      OBVIOUS
    <2>2. pc[h] = "approve" /\ Goto(h, j, "code") /\ cookies' = cookies /\ j.client # None
      BY <1>3, <2>1 DEF Approve, Deny, validated_pending_authorization_request
    <2>3. j \in Jobs /\ JobOK("code", j)
      BY <2>1, <2>2, InFlight DEF JobOK, Holding, SignedIn
    <2> QED
      BY <1>1, <2>2, <2>3, QuietStep DEF Labels, Holding
  <1> QED
    BY <1>2, <1>3

LEMMA FailsStep ==
    ASSUME IInv, NEW h \in Handlers, Fails(h)
    PROVE  IInv'
  <1>1. Quiet /\ Goto(h, None, "idle") /\ cookies' = cookies
    BY DEF Fails, SameStore, Quiet, tables, history
  <1> QED
    BY <1>1, QuietStep DEF Labels, Holding

-----------------------------------------------------------------------------
(* The steps that change the tables of the login.                           *)

(* A new state, for the browser that is sent away with it.                  *)
LEMMA AuthorizeRedirectStep ==
    ASSUME IInv, NEW h \in Handlers, AuthorizeRedirect(h)
    PROVE  IInv'
  <1> DEFINE b == job[h].browser
  <1>1. /\ pc[h] = "redirect" /\ Answer(h, job[h].jar)
        /\ UNCHANGED <<sessions, tokens, codes, answered, asked, loggedOut, now>>
    BY DEF AuthorizeRedirect, SameStore, tables
  <1>2. job[h] \in Jobs /\ JobOK("redirect", job[h]) /\ b \in Browsers
    BY <1>1, InFlight
  <1>3. CASE UNCHANGED <<states, began>>
    BY <1>1, <1>3, AnswerStep DEF Quiet
  <1>4. CASE ~UNCHANGED <<states, began>>
    <2>1. PICK s \in States : /\ began[s] = None
                              /\ create_oauth_provider_state(s, b, job[h].client)
                              /\ began' = [began EXCEPT ![s] = b]
      BY <1>4 DEF AuthorizeRedirect, SameStore, tables
    <2> DEFINE row == [browser |-> b, pending |-> job[h].client, expires |-> now + StateTTL,
                       consumed |-> FALSE]
    <2>2. row \in StateRows /\ row # None /\ row.browser = b /\ row.pending = job[h].client
      <3>1. now + StateTTL \in Nat
        BY LoginAssumption DEF IInv, TypeOK
      <3>2. row \in StateRows /\ row.browser = b /\ row.pending = job[h].client
        BY <1>2, <3>1 DEF StateRows, Jobs
      <3> QED
        BY <3>2, NoneIsNoRecord
    <2>3. /\ states'[s] = row
          /\ \A t \in States : t # s => states'[t] = states[t] \/ states'[t] = None
      BY <2>1 DEF create_oauth_provider_state
    <2>4. states' \in [States -> StateRows \cup {None}] /\ began' \in [States -> Browsers \cup {None}]
      BY <1>2, <2>1, <2>2 DEF create_oauth_provider_state, IInv, TypeOK
    <2>5. began'[s] = b /\ \A t \in States : t # s => began'[t] = began[t]
      BY <2>1 DEF IInv, TypeOK
    <2> HIDE DEF row, b
    <2>6. Monotone
      BY <1>1, <2>1, <2>3, <2>5 DEF Monotone, Used
    <2>7. StatesOK'
      <3> SUFFICES ASSUME NEW t \in States, states'[t] # None
                   PROVE  /\ began'[t] = states'[t].browser
                          /\ states'[t].pending # None =>
                               states'[t].pending \in asked[states'[t].browser]
        BY <1>1 DEF StatesOK
      <3>1. CASE t = s
        BY <1>2, <2>2, <2>3, <2>5, <3>1 DEF JobOK, b
      <3>2. CASE t # s
        BY <2>3, <2>5, <3>2 DEF IInv, StatesOK
      <3> QED
        BY <3>1, <3>2
    <2>8. SessionsOK' /\ LoggedOutOK' /\ CodeIsForWhatWasAsked'
      BY <1>1, <2>6, Untouched
    <2>9. PICK c \in Browsers, jar \in Jars : JarOK(c, jar) /\ cookies' = [cookies EXCEPT ![c] = jar]
      BY <1>1, AnswerSets
    <2>10. JarOK(c, jar)'
      BY <2>6, <2>9, JarKept DEF IInv
    <2>11. cookies' \in [Browsers -> Jars] /\ CookiesOK'
      BY <2>6, <2>9, <2>10, CookiesSet
    <2>12. /\ pc' \in [Handlers -> Labels] /\ DOMAIN job' = Handlers
           /\ \A g \in Handlers : pc'[g] # "idle" => job'[g] \in Jobs
           /\ JobsOK' /\ pc'[h] = "idle"
           /\ \A g \in Handlers : g # h => pc'[g] = pc[g] /\ job'[g] = job[g]
      <3>1. PICK j : j = None
        OBVIOUS
      <3> QED
        BY <1>1, <2>6, <3>1, AnswerSets, RequestMoves DEF Labels
    <2>13. SingleUse'
      BY <1>1, <2>12, SingleUseKept DEF IInv, Holding
    <2>14. TypeOK'
      BY <1>1, <2>4, <2>11, <2>12 DEF IInv, TypeOK
    <2> QED
      BY <2>7, <2>8, <2>11, <2>12, <2>13, <2>14 DEF IInv
  <1> QED
    BY <1>3, <1>4

(* A callback takes a state that nothing else holds.                        *)
LEMMA StateDataStep ==
    ASSUME IInv, NEW h \in Handlers, StateData(h)
    PROVE  IInv'
  <1>1. pc[h] = "consume" /\ UNCHANGED <<answered, began, asked, loggedOut, now>>
    BY DEF StateData, SameRest, history
  <1>2. job[h] \in Jobs /\ JobOK("consume", job[h])
    BY <1>1, InFlight
  <1>3. CASE ~(job[h].jar.id /\ consumable_state(job[h].state, job[h].browser))
    <2>1. Answer(h, job[h].jar) /\ Quiet
      BY <1>1, <1>3 DEF StateData, SameStore, tables, Quiet
    <2> QED
      BY <1>1, <2>1, AnswerStep
  <1>4. CASE job[h].jar.id /\ consumable_state(job[h].state, job[h].browser)
    <2> DEFINE s == job[h].state
    <2>1. PICK j : j = [job[h] EXCEPT !.client = states[s].pending]
      OBVIOUS
    <2>2. /\ states' = [states EXCEPT ![s] = [@ EXCEPT !.consumed = TRUE]]
          /\ Goto(h, j, "exchange")
          /\ UNCHANGED <<sessions, tokens, codes, cookies>>
      BY <1>4, <2>1 DEF StateData, consume_oauth_provider_state
    <2>3. /\ s \in States /\ states[s] # None /\ states[s] \in StateRows
          /\ states[s].browser = job[h].browser /\ ~states[s].consumed
          /\ began[s] = job[h].browser /\ job[h].browser \in Browsers
      BY <1>2, <1>4 DEF consumable_state, JobOK, Jobs, IInv, TypeOK, StatesOK
    <2>4. PICK row : row = [states[s] EXCEPT !.consumed = TRUE]
      OBVIOUS
    <2>5. /\ row \in StateRows /\ row # None /\ row.consumed
          /\ row.browser = states[s].browser /\ row.pending = states[s].pending
      BY <2>3, <2>4, NoneIsNoRecord DEF StateRows
    <2>6. /\ states'[s] = row /\ \A t \in States : t # s => states'[t] = states[t]
          /\ states' \in [States -> StateRows \cup {None}]
      BY <2>2, <2>3, <2>4, <2>5 DEF IInv, TypeOK
    <2>7. Monotone
      BY <1>1, <2>2, <2>5, <2>6 DEF Monotone, Used
    <2>8. StatesOK'
      <3> SUFFICES ASSUME NEW t \in States, states'[t] # None
                   PROVE  /\ began'[t] = states'[t].browser
                          /\ states'[t].pending # None =>
                               states'[t].pending \in asked[states'[t].browser]
        BY <1>1 DEF StatesOK
      <3>1. PICK o : o = states[t]
        OBVIOUS
      <3>2. o # None /\ states'[t].browser = o.browser /\ states'[t].pending = o.pending
        BY <2>3, <2>5, <2>6, <3>1
      <3> QED
        BY <1>1, <3>1, <3>2 DEF IInv, StatesOK
    <2>9. SessionsOK' /\ LoggedOutOK' /\ CodeIsForWhatWasAsked' /\ CookiesOK'
      BY <1>1, <2>2, <2>7, Untouched
    <2>10. /\ j \in Jobs /\ j.client = states[s].pending /\ j.state = s /\ j.code = job[h].code
           /\ j.browser = job[h].browser /\ j.jar = job[h].jar /\ j.token = job[h].token
      BY <1>2, <2>1, <2>3 DEF Jobs, StateRows
    <2>11. JobOK("exchange", j)'
      <3>1. JobOK("consume", job[h]) /\ states[s].pending # None =>
              states[s].pending \in asked[states[s].browser]
        BY <1>2, <2>3 DEF IInv, StatesOK
      <3>2. Used(j.state)'
        BY <1>1, <2>3, <2>5, <2>6, <2>10, LoginAssumption DEF Used
      <3>3. JarOK(j.browser, j.jar)'
        BY <1>1, <1>2, <2>2, <2>10 DEF JobOK, JarOK, Own
      <3> QED
        BY <1>1, <1>2, <2>2, <2>3, <2>10, <3>1, <3>2, <3>3 DEF JobOK, Holding, SignedIn
    <2>12. /\ pc' \in [Handlers -> Labels] /\ DOMAIN job' = Handlers
           /\ \A g \in Handlers : pc'[g] # "idle" => job'[g] \in Jobs
           /\ JobsOK' /\ pc'[h] = "exchange" /\ job'[h] = j
           /\ \A g \in Handlers : g # h => pc'[g] = pc[g] /\ job'[g] = job[g]
      BY <2>2, <2>7, <2>10, <2>11, RequestMoves DEF Labels, Holding
    <2>13. SingleUse'
      <3>1. ~Used(s)
        BY <2>3 DEF Used
      <3>2. \A g \in Holders : job[g].state # s
        BY <3>1, InFlight DEF Holders, Holding, JobOK
      <3>3. \A w \in Sessions : sessions[w] # None => sessions[w].via # s
        BY <3>1 DEF IInv, SessionsOK
      <3>4. \A g \in Holders' : g = h \/ (g \in Holders /\ job'[g] = job[g])
        BY <2>12 DEF Holders
      <3> QED
        BY <2>2, <2>10, <2>12, <3>2, <3>3, <3>4 DEF SingleUse, IInv
    <2>14. TypeOK'
      BY <1>1, <2>2, <2>6, <2>12 DEF IInv, TypeOK
    <2> QED
      BY <2>8, <2>9, <2>12, <2>13, <2>14 DEF IInv
  <1> QED
    BY <1>3, <1>4

(* The session that a held state makes.                                     *)
LEMMA CreateWebSessionStep ==
    ASSUME IInv, NEW h \in Handlers, CreateWebSession(h)
    PROVE  IInv'
  <1> DEFINE i == job[h]
  <1>1. /\ pc[h] = "session"
        /\ UNCHANGED <<states, tokens, codes, cookies, answered, began, asked, loggedOut, now>>
    BY DEF CreateWebSession, SameRest, history
  <1>2. i \in Jobs /\ JobOK("session", i) /\ h \in Holders
    BY <1>1, InFlight DEF Holders, Holding
  <1>3. PICK row : row = [user |-> i.user, expires |-> now + SessionTTL, revoked |-> FALSE,
                          via |-> i.state]
    OBVIOUS
  <1>4. PICK s \in Sessions : /\ sessions[s] = None
                              /\ sessions' = [sessions EXCEPT ![s] = row]
                              /\ Goto(h, [i EXCEPT !.session = s],
                                      IF has_pending_mcp_authorization(i) THEN "cookies"
                                                                          ELSE "token")
    BY <1>3 DEF CreateWebSession
  <1>5. PICK j, next : /\ j = [i EXCEPT !.session = s] /\ next \in SignedIn
                       /\ Goto(h, j, next)
    BY <1>4 DEF SignedIn
  <1>6. /\ i.state \in States /\ i.user \in Subjects /\ i.browser \in Browsers
        /\ began[i.state] = i.browser /\ answered[i.state] = i.user /\ Used(i.state)
    BY <1>2 DEF Jobs, JobOK, Holding
  <1>7. row \in SessionRows /\ row # None /\ row.user = i.user /\ row.via = i.state
    <2>1. now + SessionTTL \in Nat
      BY LoginAssumption DEF IInv, TypeOK
    <2>2. row \in SessionRows /\ row.user = i.user /\ row.via = i.state
      BY <1>3, <1>6, <2>1 DEF SessionRows
    <2> QED
      BY <2>2, NoneIsNoRecord
  <1>8. /\ sessions'[s] = row /\ \A w \in Sessions : w # s => sessions'[w] = sessions[w]
        /\ sessions' \in [Sessions -> SessionRows \cup {None}]
    BY <1>4, <1>7 DEF IInv, TypeOK
  <1>9. Monotone
    BY <1>1, <1>4, <1>8 DEF Monotone, Used
  <1>10. SessionsOK'
    <2> SUFFICES ASSUME NEW w \in Sessions, sessions'[w] # None
                 PROVE  answered[sessions'[w].via] = sessions'[w].user /\ Used(sessions'[w].via)
      BY <1>1 DEF SessionsOK, Used
    <2> QED
      BY <1>6, <1>7, <1>8 DEF IInv, SessionsOK
  <1>11. StatesOK' /\ LoggedOutOK' /\ CodeIsForWhatWasAsked' /\ CookiesOK'
    BY <1>1, <1>9, Untouched
  <1>12. /\ j \in Jobs /\ j.client = i.client /\ j.session = s /\ j.user = i.user
         /\ j.browser = i.browser /\ j.jar = i.jar /\ j.token = i.token
    BY <1>2, <1>5 DEF Jobs
  <1>13. JobOK(next, j)'
    <2>1. JobOK("session", j)
      BY <1>2, <1>5 DEF JobOK, Jobs, Holding, SignedIn
    <2>2. JobOK("session", j)'
      BY <1>9, <1>12, <2>1, JobKept DEF IInv
    <2>3. Own(j.browser, j.session)'
      BY <1>1, <1>6, <1>7, <1>8, <1>12 DEF Own
    <2> QED
      BY <1>5, <1>6, <1>12, <2>2, <2>3, LoginAssumption DEF JobOK, Holding, SignedIn
  <1>14. /\ pc' \in [Handlers -> Labels] /\ DOMAIN job' = Handlers
         /\ \A g \in Handlers : pc'[g] # "idle" => job'[g] \in Jobs
         /\ JobsOK' /\ pc'[h] = next /\ job'[h] = j
         /\ \A g \in Handlers : g # h => pc'[g] = pc[g] /\ job'[g] = job[g]
    BY <1>5, <1>9, <1>12, <1>13, RequestMoves DEF Labels
  <1>15. SingleUse'
    <2>1. \A g \in Holders' : g # h /\ g \in Holders /\ job'[g] = job[g]
      BY <1>5, <1>14 DEF Holders, Holding, SignedIn
    <2>2. \A w \in Sessions : sessions[w] # None => sessions[w].via # i.state
      BY <1>2 DEF IInv, SingleUse
    <2>3. \A g \in Holders : g # h => job[g].state # i.state
      BY <1>2 DEF IInv, SingleUse
    <2> QED
      BY <1>7, <1>8, <2>1, <2>2, <2>3 DEF IInv, SingleUse
  <1>16. TypeOK'
    BY <1>1, <1>8, <1>14 DEF IInv, TypeOK
  <1> QED
    BY <1>10, <1>11, <1>14, <1>15, <1>16 DEF IInv

LEMMA CreateAuthTokenStep ==
    ASSUME IInv, NEW h \in Handlers, CreateAuthToken(h)
    PROVE  IInv'
  <1> DEFINE i == job[h]
  <1>1. /\ pc[h] = "token"
        /\ UNCHANGED <<states, sessions, codes, cookies, answered, began, asked, loggedOut, now>>
    BY DEF CreateAuthToken, SameRest, history
  <1>2. i \in Jobs /\ JobOK("token", i)
    BY <1>1, InFlight
  <1>3. PICK row : row = issue_hub_token(i.user)
    OBVIOUS
  <1>4. PICK t \in Tokens : /\ tokens[t] = None /\ tokens' = [tokens EXCEPT ![t] = row]
                            /\ Goto(h, [i EXCEPT !.token = t], "cookies")
    BY <1>3 DEF CreateAuthToken, create_auth_token
  <1>5. PICK j : j = [i EXCEPT !.token = t]
    OBVIOUS
  <1>6. row \in TokenRows /\ row # None
    <2>1. now + TokenTTL \in Nat
      BY LoginAssumption DEF IInv, TypeOK
    <2>2. i.user \in Subjects
      BY <1>2 DEF JobOK, Jobs, SignedIn
    <2>3. row \in TokenRows
      BY <1>3, <2>1, <2>2 DEF issue_hub_token, TokenRows
    <2> QED
      BY <2>3, NoneIsNoRecord
  <1>7. /\ tokens'[t] = row /\ \A u \in Tokens : u # t => tokens'[u] = tokens[u]
        /\ tokens' \in [Tokens -> TokenRows \cup {None}]
    BY <1>4, <1>6 DEF IInv, TypeOK
  <1>8. Monotone
    BY <1>1, <1>4, <1>7 DEF Monotone, Used
  <1>9. StatesOK' /\ SessionsOK' /\ LoggedOutOK' /\ CodeIsForWhatWasAsked' /\ CookiesOK'
    BY <1>1, <1>8, Untouched
  <1>10. /\ j \in Jobs /\ j.client = i.client /\ j.session = i.session /\ j.user = i.user
         /\ j.browser = i.browser /\ j.jar = i.jar /\ j.token = t
    BY <1>2, <1>5 DEF Jobs
  <1>11. JobOK("cookies", j)'
    <2>1. PICK k : k = i
      OBVIOUS
    <2>2. JobOK("token", k)'
      BY <1>2, <1>8, <2>1, JobKept DEF IInv
    <2> QED
      BY <1>6, <1>7, <1>10, <2>1, <2>2 DEF JobOK, Holding, SignedIn
  <1>12. /\ pc' \in [Handlers -> Labels] /\ DOMAIN job' = Handlers
         /\ \A g \in Handlers : pc'[g] # "idle" => job'[g] \in Jobs
         /\ JobsOK' /\ pc'[h] = "cookies" /\ job'[h] = j
         /\ \A g \in Handlers : g # h => pc'[g] = pc[g] /\ job'[g] = job[g]
    BY <1>4, <1>5, <1>8, <1>10, <1>11, RequestMoves DEF Labels, SignedIn
  <1>13. SingleUse'
    BY <1>1, <1>12, SingleUseKept DEF IInv, Holding
  <1>14. TypeOK'
    BY <1>1, <1>7, <1>12 DEF IInv, TypeOK
  <1> QED
    BY <1>9, <1>12, <1>13, <1>14 DEF IInv

(* The code of an approved request.                                         *)
LEMMA AuthorizationCodeRedirectStep ==
    ASSUME IInv, NEW h \in Handlers, AuthorizationCodeRedirect(h)
    PROVE  IInv'
  <1> DEFINE i == job[h]
  <1>1. /\ pc[h] = "code" /\ Answer(h, job[h].jar)
        /\ UNCHANGED <<states, sessions, tokens, answered, began, asked, loggedOut, now>>
    BY DEF AuthorizationCodeRedirect, SameRest, history
  <1>2. i \in Jobs /\ JobOK("code", i)
    BY <1>1, InFlight
  <1>3. PICK row : row = [client |-> i.client, owner |-> i.user, browser |-> i.browser]
    OBVIOUS
  <1>4. PICK c \in Codes : codes' = [codes EXCEPT ![c] = row]
    BY <1>3 DEF AuthorizationCodeRedirect
  <1>5. /\ row \in CodeRows /\ row.client = i.client /\ row.owner = i.user
        /\ row.browser = i.browser
    BY <1>2, <1>3 DEF CodeRows, Jobs, JobOK
  <1>6. /\ codes'[c] = row /\ \A d \in Codes : d # c => codes'[d] = codes[d]
        /\ codes' \in [Codes -> CodeRows \cup {None}]
    BY <1>4, <1>5 DEF IInv, TypeOK
  <1>7. Monotone
    BY <1>1, NothingChanged
  <1>8. CodeIsForWhatWasAsked'
    BY <1>1, <1>2, <1>5, <1>6 DEF IInv, CodeIsForWhatWasAsked, JobOK
  <1>9. StatesOK' /\ SessionsOK' /\ LoggedOutOK'
    BY <1>1, <1>7, Untouched
  <1>10. PICK b \in Browsers, jar \in Jars : JarOK(b, jar) /\ cookies' = [cookies EXCEPT ![b] = jar]
    BY <1>1, AnswerSets
  <1>11. JarOK(b, jar)'
    BY <1>7, <1>10, JarKept DEF IInv
  <1>12. cookies' \in [Browsers -> Jars] /\ CookiesOK'
    BY <1>7, <1>10, <1>11, CookiesSet
  <1>13. /\ pc' \in [Handlers -> Labels] /\ DOMAIN job' = Handlers
         /\ \A g \in Handlers : pc'[g] # "idle" => job'[g] \in Jobs
         /\ JobsOK' /\ pc'[h] = "idle"
         /\ \A g \in Handlers : g # h => pc'[g] = pc[g] /\ job'[g] = job[g]
    <2>1. PICK j : j = None
      OBVIOUS
    <2> QED
      BY <1>1, <1>7, <2>1, AnswerSets, RequestMoves DEF Labels
  <1>14. SingleUse'
    BY <1>1, <1>13, SingleUseKept DEF IInv, Holding
  <1>15. TypeOK'
    BY <1>1, <1>6, <1>12, <1>13 DEF IInv, TypeOK
  <1> QED
    BY <1>8, <1>9, <1>12, <1>13, <1>14, <1>15 DEF IInv

(* The two halves of a logout.                                              *)
LEMMA RevokeWebSessionStep ==
    ASSUME IInv, NEW h \in Handlers, RevokeWebSession(h)
    PROVE  IInv'
  <1> DEFINE s == job[h].jar.session
  <1>1. /\ pc[h] = "revoke_session" /\ Goto(h, job[h], "revoke_token")
        /\ UNCHANGED <<states, tokens, codes, cookies, answered, began, asked, loggedOut, now>>
        /\ s = None => sessions' = sessions
        /\ s # None => sessions' = [sessions EXCEPT ![s] = [@ EXCEPT !.revoked = TRUE]]
    BY DEF RevokeWebSession, SameRest, history
  <1>2. job[h] \in Jobs /\ JobOK("revoke_session", job[h])
    BY <1>1, InFlight
  <1>3. s # None => s \in Sessions /\ sessions[s] # None /\ sessions[s] \in SessionRows
    BY <1>2 DEF JobOK, JarOK, Own, Jobs, Jars, IInv, TypeOK
  <1>4. PICK row : row = [sessions[s] EXCEPT !.revoked = TRUE]
    OBVIOUS
  <1>5. s # None => /\ row \in SessionRows /\ row # None /\ row.revoked
                    /\ row.via = sessions[s].via /\ row.user = sessions[s].user
    BY <1>3, <1>4, NoneIsNoRecord DEF SessionRows
  <1>6. /\ sessions' \in [Sessions -> SessionRows \cup {None}]
        /\ s # None => sessions'[s] = row
        /\ \A w \in Sessions : w # s => sessions'[w] = sessions[w]
    BY <1>1, <1>3, <1>4, <1>5 DEF IInv, TypeOK
  <1>7. Monotone
    BY <1>1, <1>3, <1>5, <1>6, LoginAssumption DEF Monotone, Used
  <1>8. \A w \in Sessions : sessions'[w] # None =>
                              sessions[w] # None /\ sessions'[w].via = sessions[w].via
    BY <1>3, <1>5, <1>6, LoginAssumption
  <1>9. StatesOK' /\ SessionsOK' /\ LoggedOutOK' /\ CodeIsForWhatWasAsked' /\ CookiesOK'
    BY <1>1, <1>7, <1>8, Untouched
  <1>10. PICK j : j = job[h]
    OBVIOUS
  <1>11. JobOK("revoke_token", j)'
    <2>1. JobOK("revoke_session", j)'
      BY <1>2, <1>7, <1>10, JobKept DEF IInv
    <2>2. j.jar.session # None => sessions'[j.jar.session].revoked
      BY <1>5, <1>6, <1>10
    <2> QED
      BY <2>1, <2>2 DEF JobOK, Holding, SignedIn
  <1>12. /\ pc' \in [Handlers -> Labels] /\ DOMAIN job' = Handlers
         /\ \A g \in Handlers : pc'[g] # "idle" => job'[g] \in Jobs
         /\ JobsOK' /\ pc'[h] = "revoke_token" /\ job'[h] = j
         /\ \A g \in Handlers : g # h => pc'[g] = pc[g] /\ job'[g] = job[g]
    BY <1>1, <1>2, <1>7, <1>10, <1>11, RequestMoves DEF Labels
  <1>13. SingleUse'
    BY <1>8, <1>12, SingleUseKept DEF IInv, Holding
  <1>14. TypeOK'
    BY <1>1, <1>6, <1>12 DEF IInv, TypeOK
  <1> QED
    BY <1>9, <1>12, <1>13, <1>14 DEF IInv

(* Revoking a token that exists changes nothing else about it.              *)
LEMMA TokenRevoked ==
    ASSUME IInv, NEW t \in Tokens, tokens[t] # None,
           tokens' = [tokens EXCEPT ![t] = [@ EXCEPT !.revoked = TRUE]]
    PROVE  /\ tokens' \in [Tokens -> TokenRows \cup {None}]
           /\ tokens'[t] # None /\ tokens'[t].revoked
           /\ \A u \in Tokens : u # t => tokens'[u] = tokens[u]
  <1>1. tokens[t] \in TokenRows
    BY DEF IInv, TypeOK
  <1>2. PICK row : row = [tokens[t] EXCEPT !.revoked = TRUE]
    OBVIOUS
  <1>3. row \in TokenRows /\ row # None /\ row.revoked
    BY <1>1, <1>2, NoneIsNoRecord DEF TokenRows
  <1> QED
    BY <1>2, <1>3 DEF IInv, TypeOK

LEMMA RevokeAuthTokenStep ==
    ASSUME IInv, NEW h \in Handlers, RevokeAuthToken(h)
    PROVE  IInv'
  <1> DEFINE i == job[h]
  <1>1. PICK jar : jar = [i.jar EXCEPT !.session = None, !.token = None]
    OBVIOUS
  <1>2. /\ pc[h] = "revoke_token" /\ Goto(h, None, "idle")
        /\ UNCHANGED <<states, sessions, codes, answered, began, asked, now>>
        /\ cookies' = [cookies EXCEPT ![i.browser] = jar]
        /\ loggedOut' = loggedOut \cup ({i.jar.session, i.jar.token} \ {None})
        /\ i.jar.token = None => tokens' = tokens
        /\ i.jar.token # None =>
             tokens' = [tokens EXCEPT ![i.jar.token] = [@ EXCEPT !.revoked = TRUE]]
    BY <1>1 DEF RevokeAuthToken, revokes_auth_token
  <1>3. i \in Jobs /\ JobOK("revoke_token", i) /\ i.browser \in Browsers /\ i.jar \in Jars
        /\ JarOK(i.browser, i.jar)
    BY <1>2, InFlight
  <1>4. /\ i.jar.session # None =>
             /\ i.jar.session \in Sessions /\ sessions[i.jar.session] # None
             /\ sessions[i.jar.session].revoked
        /\ i.jar.token # None => i.jar.token \in Tokens /\ tokens[i.jar.token] # None
    BY <1>3 DEF Jars, JarOK, JobOK, Own
  <1>5. /\ tokens' \in [Tokens -> TokenRows \cup {None}]
        /\ i.jar.token # None => tokens'[i.jar.token] # None /\ tokens'[i.jar.token].revoked
        /\ \A u \in Tokens : u # i.jar.token => tokens'[u] = tokens[u]
    BY <1>2, <1>4, TokenRevoked DEF IInv, TypeOK
  <1>6. Monotone
    BY <1>2, <1>5, LoginAssumption DEF Monotone, Used
  <1>7. LoggedOutOK' /\ loggedOut' \in SUBSET (Sessions \cup Tokens)
    <2>1. loggedOut' \in SUBSET (Sessions \cup Tokens)
      BY <1>2, <1>4 DEF IInv, TypeOK
    <2>2. ASSUME NEW x \in loggedOut'
          PROVE  /\ x \in Sessions => sessions'[x] # None /\ sessions'[x].revoked
                 /\ x \in Tokens => tokens'[x] # None /\ tokens'[x].revoked
      <3>1. CASE x \in loggedOut
        BY <3>1, <1>6 DEF IInv, LoggedOutOK, Monotone
      <3>2. CASE x = i.jar.session /\ x # None
        BY <1>2, <1>4, <3>2, LoginAssumption
      <3>3. CASE x = i.jar.token /\ x # None
        BY <1>4, <1>5, <3>3, LoginAssumption
      <3> QED
        BY <1>2, <2>2, <3>1, <3>2, <3>3
    <2> QED
      BY <2>1, <2>2 DEF LoggedOutOK
  <1>8. StatesOK' /\ SessionsOK' /\ CodeIsForWhatWasAsked'
    BY <1>2, <1>6, Untouched
  <1>9. jar \in Jars /\ JarOK(i.browser, jar)
    <2>1. jar = [id |-> i.jar.id, pending |-> i.jar.pending, session |-> None, token |-> None]
      BY <1>1, <1>3 DEF Jars
    <2> QED
      BY <1>3, <2>1 DEF Jars, JarOK
  <1>10. cookies' \in [Browsers -> Jars] /\ CookiesOK'
    <2>1. PICK b \in Browsers : b = i.browser
      BY <1>3
    <2>2. JarOK(b, jar)'
      BY <1>6, <1>9, <2>1, JarKept DEF IInv
    <2> QED
      BY <1>2, <1>6, <1>9, <2>1, <2>2, CookiesSet
  <1>11. /\ pc' \in [Handlers -> Labels] /\ DOMAIN job' = Handlers
         /\ \A g \in Handlers : pc'[g] # "idle" => job'[g] \in Jobs
         /\ JobsOK' /\ pc'[h] = "idle"
         /\ \A g \in Handlers : g # h => pc'[g] = pc[g] /\ job'[g] = job[g]
    <2>1. PICK j : j = None
      OBVIOUS
    <2> QED
      BY <1>2, <1>6, <2>1, RequestMoves DEF Labels
  <1>12. SingleUse'
    BY <1>2, <1>11, SingleUseKept DEF IInv, Holding
  <1>13. TypeOK'
    BY <1>2, <1>5, <1>7, <1>10, <1>11 DEF IInv, TypeOK
  <1> QED
    BY <1>7, <1>8, <1>10, <1>11, <1>12, <1>13 DEF IInv

(* What happens outside the requests: registration, the provider's answer,  *)
(* the command line, a cookie that expires, and time.                       *)
LEMMA OutsideSteps ==
    ASSUME IInv, \/ \E c \in Clients : Register(c)
                 \/ \E s \in States, u \in Subjects : ProviderAnswers(s, u)
                 \/ \E t \in Tokens : RevokeListedToken(t)
                 \/ \E b \in Browsers : CookieExpires(b)
                 \/ Tick \/ UNCHANGED vars
    PROVE  IInv'
  <1>1. UNCHANGED <<states, sessions, codes, began, asked, loggedOut, pc, job>>
    BY DEF Register, ProviderAnswers, RevokeListedToken, CookieExpires, Tick, vars, SameStore,
           SameRest, tables, history
  <1>2. /\ tokens' \in [Tokens -> TokenRows \cup {None}]
        /\ \A t \in Tokens : tokens[t] # None =>
             tokens'[t] # None /\ (tokens[t].revoked => tokens'[t].revoked)
    <2>1. CASE tokens' = tokens
      BY <2>1 DEF IInv, TypeOK
    <2>2. CASE \E t \in Tokens : RevokeListedToken(t)
      BY <2>2, TokenRevoked DEF RevokeListedToken
    <2> QED
      BY <2>1, <2>2 DEF Register, ProviderAnswers, CookieExpires, Tick, vars, SameStore, tables
  <1>3. /\ answered' \in [States -> Subjects \cup {None}]
        /\ \A s \in States : answered[s] # None => answered'[s] = answered[s]
    <2>1. CASE answered' = answered
      BY <2>1 DEF IInv, TypeOK
    <2>2. CASE \E s \in States, u \in Subjects : ProviderAnswers(s, u)
      BY <2>2 DEF ProviderAnswers, IInv, TypeOK
    <2> QED
      BY <2>1, <2>2 DEF Register, RevokeListedToken, CookieExpires, Tick, vars, SameRest
  <1>4. now' \in Nat
    BY DEF Register, ProviderAnswers, RevokeListedToken, CookieExpires, Tick, vars, SameRest,
           IInv, TypeOK
  <1>5. Monotone
    BY <1>1, <1>2, <1>3 DEF Monotone, Used
  <1>6. StatesOK' /\ SessionsOK' /\ LoggedOutOK' /\ CodeIsForWhatWasAsked'
    BY <1>1, <1>5, Untouched
  <1>7. cookies' \in [Browsers -> Jars] /\ CookiesOK'
    <2>1. CASE cookies' = cookies
      BY <1>5, <2>1, Untouched DEF IInv, TypeOK
    <2>2. ASSUME NEW b \in Browsers, CookieExpires(b)
          PROVE  cookies' \in [Browsers -> Jars] /\ CookiesOK'
      <3>1. PICK jar : jar = [cookies[b] EXCEPT !.session = None]
        OBVIOUS
      <3>2. jar \in Jars /\ JarOK(b, jar) /\ cookies' = [cookies EXCEPT ![b] = jar]
        BY <2>2, <3>1, RequestOK DEF Jars, JarOK, CookieExpires
      <3>3. JarOK(b, jar)'
        BY <1>5, <3>2, JarKept DEF IInv
      <3> QED
        BY <1>5, <3>2, <3>3, CookiesSet
    <2> QED
      BY <2>1, <2>2 DEF Register, ProviderAnswers, RevokeListedToken, Tick, vars
  <1>8. JobsOK' /\ SingleUse'
    BY <1>1, <1>5, RequestsStay, SingleUseKept DEF IInv
  <1>9. TypeOK'
    BY <1>1, <1>2, <1>3, <1>4, <1>7 DEF IInv, TypeOK
  <1> QED
    BY <1>6, <1>7, <1>8, <1>9 DEF IInv

LEMMA NextStep == IInv /\ [Next]_vars => IInv'
  <1> SUFFICES ASSUME IInv, [Next]_vars PROVE IInv'
    OBVIOUS
  <1>1. ASSUME NEW h \in Handlers, NEW b \in Browsers,
               \/ BeginLogin(h, b)
               \/ \E c \in Clients : Authorize(h, b, c)
               \/ \E s, g \in States : Callback(h, b, s, g)
               \/ \E decision \in {"approve", "deny"} : Decide(h, b, decision)
               \/ Logout(h, b)
        PROVE  IInv'
    BY <1>1, BeginLoginStep, AuthorizeStep, CallbackStep, DecideStep, LogoutStep
  <1>2. ASSUME NEW h \in Handlers, Handle(h) PROVE IInv'
    BY <1>2, AuthorizeRedirectStep, StateDataStep, CallbackClaimsStep, FindOrCreateIdentityStep,
       CreateWebSessionStep, CreateAuthTokenStep, SetCookiesStep, ApproveStep,
       AuthorizationCodeRedirectStep, RevokeWebSessionStep, RevokeAuthTokenStep DEF Handle
  <1>3. ASSUME NEW h \in Handlers, Fails(h) PROVE IInv'
    BY <1>3, FailsStep
  <1> QED
    BY <1>1, <1>2, <1>3, OutsideSteps DEF Next

LEMMA InvariantHolds == Spec => []IInv
  BY InitHasInv, NextStep, PTL DEF Spec

-----------------------------------------------------------------------------
(* A browser's session was made by a login that this browser began and for  *)
(* the identity the provider signed in for it, and a state makes at most    *)
(* one session, whatever callbacks are repeated, mixed up or opened         *)
(* elsewhere (connect_oauth.py, the callback of a provider).                *)
THEOREM LoginsAreOwn == Spec => []SignsInThroughItsOwnLogin
  <1>1. IInv => SignsInThroughItsOwnLogin
    BY LoginAssumption
    DEF IInv, TypeOK, Jars, CookiesOK, JarOK, Own, SessionsOK, SingleUse, SignsInThroughItsOwnLogin
  <1> QED
    BY <1>1, InvariantHolds, PTL

(* An authorization code is stored only for a client that the approving     *)
(* browser asked to authorize, and for a user who signed in there.          *)
THEOREM CodesAreAskedFor == Spec => []CodeIsForWhatWasAsked
  <1>1. IInv => CodeIsForWhatWasAsked
    BY DEF IInv
  <1> QED
    BY <1>1, InvariantHolds, PTL

(* Nothing that an answered logout carried authenticates again.             *)
THEOREM LogoutsAreComplete == Spec => []LogoutIsComplete
  <1>1. IInv => LogoutIsComplete
    BY LoginAssumption
    DEF IInv, TypeOK, LoggedOutOK, LogoutIsComplete, authenticate_connect_session,
        web_session_for_hash, authenticate, auth_context_for_token
  <1> QED
    BY <1>1, InvariantHolds, PTL

-----------------------------------------------------------------------------
(* The keys of the provider, with which a login's identity token is checked:*)
(* theorems about module ExternalOIDC, whose state is none of Login's, for  *)
(* any number of checks, keys and owners, and any lifetimes.                *)

KeyLabels == {"idle", "jwks", "discover", "read", "arrive", "identity"}
KeyJobs == [kind: Kinds, key: Keys \cup {Absent}, owner: Owners \cup {Absent},
         retried: BOOLEAN, keys: SUBSET Keys, start: Nat, since: Nat \cup {Absent}]
CachedKeys == [keys: SUBSET Keys, expires: Nat]
Times == Nat \cup {Absent}

KeyTypes ==
    /\ jwks \in [Kinds -> CachedKeys \cup {Absent}]
    /\ published \in [Keys -> Times] /\ retired \in [Keys -> Times]
    /\ stage \in [Checkers -> KeyLabels]
    /\ \A h \in Checkers : stage[h] # "idle" => check[h] \in KeyJobs
    /\ DOMAIN check = Checkers
    /\ clock \in Nat

(* What the keys tell that were read at or after time t: a key that is      *)
(* withdrawn now and was among them was withdrawn since, and a key that is  *)
(* published now and was not among them was published since.                *)
ReadSince(keys, t) ==
    \A k \in Keys :
        /\ k \in keys => published[k] # Absent /\ (retired[k] # Absent => t <= retired[k])
        /\ k \notin keys /\ k \in Published => t <= published[k]

(* Cached keys were read within the lifetime that their expiry leaves.      *)
CacheOK(cached) ==
    cached # Absent => /\ ReadSince(cached.keys, cached.expires - TTL)
                     /\ cached.expires <= clock + TTL

CachesOK == \A d \in Kinds : CacheOK(jwks[d])

(* A withdrawn key may be accepted at time t, with keys that are cached or  *)
(* that the request itself has asked for at time since.                     *)
StillGood(k, t, since) ==
    t < retired[k] + TTL \/ (since # Absent /\ since <= retired[k])

(* What a request in flight knows at each of its steps.                     *)
CheckOK(at, j) ==
    /\ j.start <= clock
    /\ j.key # Absent => published[j.key] # Absent
    /\ at = "jwks" /\ j.kind = "bearer" /\ j.key # Absent => ~j.retried
    /\ at \in {"jwks", "discover", "read", "arrive"} => j.since = Absent
    /\ at = "arrive" =>
         /\ ReadSince(j.keys, j.start)
         /\ j.key # Absent /\ retired[j.key] = Absent => j.key \in j.keys
    /\ at = "identity" =>
         /\ j.key # Absent
         /\ j.since # Absent \/ TTL > 0
         /\ j.since # Absent => j.since <= j.start
         /\ retired[j.key] # Absent => StillGood(j.key, j.start, j.since)

ChecksOK == \A h \in Checkers : stage[h] # "idle" => CheckOK(stage[h], check[h])

(* The inductive invariant.                                                 *)
KeyInv == KeyTypes /\ CachesOK /\ ChecksOK /\ RetiredKeyDies /\ PublishedKeyIsAccepted

-----------------------------------------------------------------------------
LEMMA KeyInitHasInv == OIDCInit => KeyInv
  BY OIDCAssumption
  DEF OIDCInit, KeyInv, KeyTypes, CachesOK, CacheOK, ChecksOK, RetiredKeyDies, PublishedKeyIsAccepted,
      KeyLabels, Times, Kinds

(* A step that leaves the provider and the clock alone preserves the        *)
(* invariant when what it stores, where it goes and what it answers is      *)
(* right.                                                                   *)
LEMMA CheckerStep ==
    ASSUME KeyInv, NEW h \in Checkers, NEW next \in KeyLabels, NEW j,
           UNCHANGED <<provider, clock>>,
           Proceed(h, j, next), next # "idle" => j \in KeyJobs /\ CheckOK(next, j),
           jwks' \in [Kinds -> CachedKeys \cup {Absent}],
           \A d \in Kinds : CacheOK(jwks'[d]),
           RetiredKeyDies', PublishedKeyIsAccepted'
    PROVE  KeyInv'
  <1>1. KeyTypes'
    BY DEF KeyInv, KeyTypes, Proceed, provider
  <1>2. CachesOK'
    BY DEF KeyInv, CachesOK, CacheOK, ReadSince, Published, provider
  <1>3. ChecksOK'
    <2> SUFFICES ASSUME NEW g \in Checkers, stage'[g] # "idle"
                 PROVE  CheckOK(stage[g], check[g])'
      BY DEF ChecksOK
    <2>1. CheckOK(stage'[g], check'[g])
      BY DEF KeyInv, KeyTypes, ChecksOK, Proceed
    <2> QED
      BY <2>1 DEF CheckOK, ReadSince, StillGood, Published, provider
  <1> QED
    BY <1>1, <1>2, <1>3 DEF KeyInv

(* No answer, no claim.                                                     *)
LEMMA NoJudgement == verdict' = Absent => RetiredKeyDies' /\ PublishedKeyIsAccepted'
  BY DEF RetiredKeyDies, PublishedKeyIsAccepted

LEMMA TokenArrivesStep ==
    ASSUME KeyInv, NEW h \in Checkers, NEW d \in Kinds, NEW k \in Keys, NEW o \in Owners,
           TokenArrives(h, d, k, o)
    PROVE  KeyInv'
  <1> DEFINE j == [kind |-> d, key |-> k, owner |-> o, retried |-> FALSE, keys |-> {},
                   start |-> 0, since |-> Absent]
  <1>1. j \in KeyJobs /\ CheckOK("jwks", j)
    BY DEF TokenArrives, KeyJobs, CheckOK, KeyInv, KeyTypes, Published
  <1>2. Proceed(h, j, "jwks") /\ UNCHANGED <<provider, clock, jwks>> /\ verdict' = Absent
    BY DEF TokenArrives, caches
  <1> QED
    BY <1>1, <1>2, NoJudgement, CheckerStep DEF KeyLabels, KeyInv, KeyTypes, CachesOK

LEMMA AskReadinessStep ==
    ASSUME KeyInv, NEW h \in Checkers, AskReadiness(h)
    PROVE  KeyInv'
  <1> DEFINE j == [kind |-> "bearer", key |-> Absent, owner |-> Absent, retried |-> TRUE,
                   keys |-> {}, start |-> 0, since |-> Absent]
  <1>1. j \in KeyJobs /\ CheckOK("jwks", j)
    BY DEF KeyJobs, Kinds, CheckOK, KeyInv, KeyTypes
  <1>2. Proceed(h, j, "jwks") /\ UNCHANGED <<provider, clock, jwks>> /\ verdict' = Absent
    BY DEF AskReadiness, caches
  <1> QED
    BY <1>1, <1>2, NoJudgement, CheckerStep DEF KeyLabels, KeyInv, KeyTypes, CachesOK

(* A request that goes for the keys of the provider.                        *)
LEMMA RequestKeysGoes ==
    ASSUME KeyInv, NEW h \in Checkers, NEW j \in KeyJobs, CheckOK("discover", j),
           RequestKeys(h, j)
    PROVE  \E next \in {"read", "discover"} : \E i \in KeyJobs :
              Proceed(h, i, next) /\ CheckOK(next, i)
  <1> DEFINE i == [j EXCEPT !.start = clock]
  <1>1. i \in KeyJobs /\ CheckOK("read", i) /\ CheckOK("discover", i)
    BY DEF KeyJobs, CheckOK, KeyInv, KeyTypes
  <1> QED
    BY <1>1 DEF RequestKeys

(* What keys in hand, cached or just fetched, must tell for a judgement.    *)
GoodKeys(j) ==
    /\ j.key \in j.keys =>
         /\ j.since # Absent \/ TTL > 0
         /\ j.since # Absent => j.since <= clock
         /\ retired[j.key] # Absent => StillGood(j.key, clock, j.since)
    /\ (j.key \in Published /\ j.key \notin j.keys /\ ~refetch_keys(j)) =>
         /\ clock < published[j.key] + TTL
         /\ HasOwnKid(j.key) => j.kind = "login"

LEMMA DecodeStep ==
    ASSUME KeyInv, NEW h \in Checkers, stage[h] # "idle", NEW j \in KeyJobs,
           NEW cache \in [Kinds -> CachedKeys \cup {Absent}],
           \A d \in Kinds : CacheOK(cache[d]),
           UNCHANGED <<provider, clock>>,
           CheckOK("decode", j), j.kind = check[h].kind, j.key = check[h].key,
           GoodKeys(j), decode_token(h, j, cache)
    PROVE  KeyInv'
  <1>1. CASE j.key = Absent
    <2>1. jwks' = cache /\ Proceed(h, Absent, "idle") /\ verdict'.key = Absent /\ verdict'.ok
      BY <1>1 DEF decode_token, Judge
    <2>2. RetiredKeyDies' /\ PublishedKeyIsAccepted'
      BY <2>1 DEF RetiredKeyDies, PublishedKeyIsAccepted
    <2> QED
      BY <2>1, <2>2, CheckerStep DEF KeyLabels
  <1>2. CASE j.key # Absent /\ may_verify(j) /\ jwks' = cache /\ verdict' = Absent
             /\ Proceed(h, [j EXCEPT !.start = clock, !.keys = {}, !.retried = FALSE], "identity")
    <2> DEFINE i == [j EXCEPT !.start = clock, !.keys = {}, !.retried = FALSE]
    <2>1. j.key \in j.keys
      BY <1>2 DEF may_verify, candidates
    <2>2. i \in KeyJobs
      BY DEF KeyJobs, KeyInv, KeyTypes
    <2>3. i.key = j.key /\ i.start = clock /\ i.since = j.since
      BY DEF KeyJobs
    <2>4. CheckOK("identity", i)
      BY <1>2, <2>1, <2>3 DEF CheckOK, GoodKeys, KeyInv, KeyTypes
    <2> QED
      BY <1>2, <2>2, <2>4, NoJudgement, CheckerStep DEF KeyLabels
  <1>3. CASE j.key # Absent /\ verdict' = Absent /\ jwks' = [cache EXCEPT ![j.kind] = Absent]
             /\ RequestKeys(h, [j EXCEPT !.retried = TRUE, !.keys = {}, !.since = Absent])
    <2> DEFINE again == [j EXCEPT !.retried = TRUE, !.keys = {}, !.since = Absent]
    <2>1. again \in KeyJobs /\ CheckOK("discover", again)
      BY DEF KeyJobs, CheckOK
    <2>2. PICK next \in {"read", "discover"} : \E i \in KeyJobs : Proceed(h, i, next) /\ CheckOK(next, i)
      BY <1>3, <2>1, RequestKeysGoes
    <2>3. jwks' \in [Kinds -> CachedKeys \cup {Absent}] /\ \A d \in Kinds : CacheOK(jwks'[d])
      BY <1>3 DEF CacheOK
    <2> QED
      BY <1>3, <2>2, <2>3, NoJudgement, CheckerStep DEF KeyLabels
  <1>4. CASE j.key # Absent /\ may_fail(j) /\ ~refetch_keys(j) /\ jwks' = cache
             /\ Judge(h, FALSE, [failed |-> FALSE, at |-> clock, known |-> j.key \in j.keys,
                                 since |-> j.since])
    <2>1. Proceed(h, Absent, "idle") /\ ~verdict'.ok /\ verdict'.key = j.key
          /\ verdict'.kind = j.kind /\ verdict'.how.at = clock
          /\ verdict'.how.known = (j.key \in j.keys)
      BY <1>4 DEF Judge
    <2>2. HasOwnKid(j.key) => j.key \notin j.keys
      <3> SUFFICES ASSUME HasOwnKid(j.key), j.key \in j.keys PROVE FALSE
        OBVIOUS
      <3>1. j.keys \in SUBSET Keys
        BY DEF KeyJobs
      <3> QED
        BY <1>4, <3>1 DEF may_fail, candidates, HasOwnKid
    <2>3. RetiredKeyDies'
      BY <2>1 DEF RetiredKeyDies
    <2>4. PublishedKeyIsAccepted'
      BY <1>4, <2>1, <2>2 DEF GoodKeys, PublishedKeyIsAccepted, Published, provider, HasOwnKid
    <2> QED
      BY <1>4, <2>1, <2>3, <2>4, CheckerStep DEF KeyLabels
  <1> QED
    BY <1>1, <1>2, <1>3, <1>4 DEF decode_token

(* Cached keys that are fresh are good: for a login at any step, for a      *)
(* bearer token at its first look, where it may still fetch once more.      *)
LEMMA FreshKeysAreGood ==
    ASSUME KeyInv, NEW h \in Checkers, NEW d, d = check[h].kind, fresh(jwks[d]),
           NEW j, j = [check[h] EXCEPT !.keys = jwks[d].keys],
           stage[h] = "jwks" \/ (stage[h] = "discover" /\ d = "login")
    PROVE  j \in KeyJobs /\ CheckOK("decode", j) /\ GoodKeys(j) /\ j.kind = d /\ j.key = check[h].key
  <1>1. check[h] \in KeyJobs /\ CheckOK(stage[h], check[h]) /\ d \in Kinds
    BY DEF KeyInv, KeyTypes, ChecksOK, KeyJobs
  <1>2. jwks[d] \in CachedKeys /\ CacheOK(jwks[d]) /\ jwks[d] # Absent /\ jwks[d].expires > clock
    BY <1>1 DEF fresh, KeyInv, KeyTypes, CachesOK
  <1>3. j \in KeyJobs /\ j.keys = jwks[d].keys /\ j.kind = d /\ j.key = check[h].key
        /\ j.since = Absent /\ j.retried = check[h].retried /\ j.start = check[h].start
    BY <1>1, <1>2 DEF KeyJobs, CachedKeys, CheckOK
  <1>4. CheckOK("decode", j)
    BY <1>1, <1>3 DEF CheckOK
  <1>5. clock \in Nat /\ TTL \in Nat /\ jwks[d].expires \in Nat /\ jwks[d].keys \in SUBSET Keys
    BY <1>2, OIDCAssumption DEF KeyInv, KeyTypes, CachedKeys
  <1>6. j.key \in j.keys => TTL > 0 /\ (retired[j.key] # Absent => clock < retired[j.key] + TTL)
    BY <1>2, <1>3, <1>5 DEF CacheOK, ReadSince, KeyInv, KeyTypes, Times
  <1>7. ASSUME j.key \in Published, j.key \notin j.keys, ~refetch_keys(j)
        PROVE  clock < published[j.key] + TTL /\ (HasOwnKid(j.key) => d = "login")
    <2>1. j.key \in Keys /\ published[j.key] \in Nat /\ j.key # Absent
      BY <1>7, OIDCAssumption DEF Published, KeyInv, KeyTypes, Times
    <2>2. jwks[d].expires - TTL <= published[j.key]
      BY <1>2, <1>3, <1>7, <2>1 DEF CacheOK, ReadSince
    <2>3. clock < published[j.key] + TTL
      BY <1>2, <1>5, <2>1, <2>2
    <2>4. d = "bearer" => ~HasOwnKid(j.key)
      <3> SUFFICES ASSUME d = "bearer", HasOwnKid(j.key) PROVE FALSE
        OBVIOUS
      <3>1. ~j.retried
        BY <1>1, <1>3, <2>1 DEF CheckOK
      <3>2. jwks_contains_token_key(j)
        BY <1>3, <1>7, <3>1 DEF refetch_keys
      <3> QED
        BY <1>3, <1>5, <1>7, <3>2 DEF jwks_contains_token_key, HasOwnKid
    <2> QED
      BY <1>1, <2>3, <2>4 DEF Kinds
  <1>8. GoodKeys(j)
    BY <1>3, <1>6, <1>7 DEF GoodKeys, StillGood
  <1> QED
    BY <1>3, <1>4, <1>8

LEMMA CachedStep ==
    ASSUME KeyInv, NEW h \in Checkers, jwks_cached(h)
    PROVE  KeyInv'
  <1> DEFINE d == check[h].kind
  <1>1. PICK j : j = [check[h] EXCEPT !.keys = jwks[d].keys]
    OBVIOUS
  <1>2. decode_token(h, j, jwks) /\ UNCHANGED <<provider, clock>> /\ stage[h] = "jwks" /\ fresh(jwks[d])
    BY <1>1 DEF jwks_cached, Same, KeysAreCached
  <1>3. j \in KeyJobs /\ CheckOK("decode", j) /\ GoodKeys(j) /\ j.kind = d /\ j.key = check[h].key
    BY <1>1, <1>2, FreshKeysAreGood
  <1>4. jwks \in [Kinds -> CachedKeys \cup {Absent}] /\ \A e \in Kinds : CacheOK(jwks[e])
    BY DEF KeyInv, KeyTypes, CachesOK
  <1> QED
    BY <1>2, <1>3, <1>4, DecodeStep

LEMMA MetadataStep ==
    ASSUME KeyInv, NEW h \in Checkers, metadata_fetch(h)
    PROVE  KeyInv'
  <1> DEFINE d == check[h].kind
  <1>1. stage[h] = "discover" /\ UNCHANGED <<provider, clock>>
        /\ check[h] \in KeyJobs /\ CheckOK("discover", check[h])
    BY DEF metadata_fetch, Same, KeyInv, KeyTypes, ChecksOK
  <1>2. jwks \in [Kinds -> CachedKeys \cup {Absent}] /\ \A e \in Kinds : CacheOK(jwks[e])
    BY DEF KeyInv, KeyTypes, CachesOK
  <1>3. CASE d = "login" /\ fresh(jwks[d])
    <2>1. PICK j : j = [check[h] EXCEPT !.keys = jwks[d].keys]
      OBVIOUS
    <2>2. decode_token(h, j, jwks)
      BY <1>3, <2>1 DEF metadata_fetch
    <2>3. j \in KeyJobs /\ CheckOK("decode", j) /\ GoodKeys(j) /\ j.kind = d /\ j.key = check[h].key
      BY <1>1, <1>3, <2>1, FreshKeysAreGood
    <2> QED
      BY <1>1, <1>2, <2>2, <2>3, DecodeStep
  <1>4. CASE ~(d = "login" /\ fresh(jwks[d]))
    <2>1. PICK j : j = [check[h] EXCEPT !.start = IF d = "login" THEN clock ELSE @]
      OBVIOUS
    <2>2. Proceed(h, j, "read") /\ jwks' = jwks /\ verdict' = Absent
      BY <1>4, <2>1 DEF metadata_fetch
    <2>3. j \in KeyJobs /\ CheckOK("read", j)
      BY <1>1, <2>1 DEF KeyJobs, CheckOK, KeyInv, KeyTypes
    <2> QED
      BY <1>1, <1>2, <2>2, <2>3, NoJudgement, CheckerStep DEF KeyLabels
  <1> QED
    BY <1>3, <1>4

LEMMA ArrivalStep ==
    ASSUME KeyInv, NEW h \in Checkers, jwks_arrive(h)
    PROVE  KeyInv'
  <1>1. PICK j : j = check[h]
    OBVIOUS
  <1>2. PICK i : i = [j EXCEPT !.since = j.start]
    OBVIOUS
  <1>3. PICK cache : cache = [jwks EXCEPT ![j.kind] = [keys |-> j.keys, expires |-> jwks_expiry(j)]]
    OBVIOUS
  <1>4. j \in KeyJobs /\ CheckOK("arrive", j) /\ stage[h] = "arrive"
    BY <1>1 DEF jwks_arrive, KeyInv, KeyTypes, ChecksOK
  <1>5. decode_token(h, i, cache) /\ UNCHANGED <<provider, clock>>
    BY <1>1, <1>2, <1>3 DEF jwks_arrive, Same
  <1>6. clock \in Nat /\ TTL \in Nat /\ j.start \in Nat /\ j.start <= clock /\ Absent \notin Nat
    BY <1>4, OIDCAssumption DEF KeyInv, KeyTypes, KeyJobs, CheckOK
  <1>7. jwks_expiry(j) \in Nat /\ jwks_expiry(j) - TTL = j.start /\ jwks_expiry(j) <= clock + TTL
    BY <1>6 DEF jwks_expiry
  <1>8. cache \in [Kinds -> CachedKeys \cup {Absent}]
    BY <1>3, <1>4, <1>7 DEF KeyInv, KeyTypes, KeyJobs, CachedKeys
  <1>9. CacheOK([keys |-> j.keys, expires |-> jwks_expiry(j)])
    BY <1>4, <1>7 DEF CacheOK, CheckOK
  <1>10. \A d \in Kinds : CacheOK(cache[d])
    BY <1>3, <1>9 DEF KeyInv, KeyTypes, CachesOK
  <1>11. i \in KeyJobs /\ i.since = j.start /\ i.key = j.key /\ i.keys = j.keys /\ i.kind = j.kind
         /\ i.start = j.start
    BY <1>2, <1>4 DEF KeyJobs
  <1>12. CheckOK("decode", i)
    BY <1>4, <1>11 DEF CheckOK
  <1>13. GoodKeys(i)
    <2>1. i.key \in i.keys /\ retired[i.key] # Absent => i.since <= retired[i.key]
      BY <1>4, <1>11 DEF CheckOK, ReadSince, KeyJobs
    <2>2. ~(i.key \in Published /\ i.key \notin i.keys)
      BY <1>4, <1>11, OIDCAssumption DEF CheckOK, Published
    <2> QED
      BY <1>6, <1>11, <2>1, <2>2 DEF GoodKeys, StillGood
  <1> QED
    BY <1>1, <1>4, <1>5, <1>8, <1>10, <1>11, <1>12, <1>13, DecodeStep

(* The other steps of a request.                                            *)
LEMMA FetchSteps ==
    ASSUME KeyInv, NEW h \in Checkers,
           jwks_request(h) \/ ProviderReads(h) \/ fetch_fails(h)
    PROVE  KeyInv'
  <1>1. stage[h] # "idle" /\ check[h] \in KeyJobs /\ CheckOK(stage[h], check[h]) /\ UNCHANGED <<provider, clock, jwks>>
    BY DEF jwks_request, ProviderReads, fetch_fails, KeyInv, KeyTypes, ChecksOK, Same, caches
  <1>2. jwks' \in [Kinds -> CachedKeys \cup {Absent}] /\ \A d \in Kinds : CacheOK(jwks'[d])
    BY <1>1 DEF KeyInv, KeyTypes, CachesOK
  <1>3. stage[h] \in {"jwks", "read"} => CheckOK("discover", check[h])
    BY <1>1 DEF CheckOK
  <1>4. CASE jwks_request(h)
    BY <1>1, <1>2, <1>3, <1>4, RequestKeysGoes, NoJudgement, CheckerStep DEF jwks_request, KeyLabels
  <1>6. CASE ProviderReads(h)
    <2> DEFINE j == [check[h] EXCEPT !.keys = Published]
    <2>1. j \in KeyJobs
      BY <1>1 DEF KeyJobs, Published
    <2>2. CheckOK("arrive", j)
      <3>1. CheckOK("read", check[h])
        BY <1>1, <1>6 DEF ProviderReads
      <3>2. j.keys = Published /\ j.start = check[h].start /\ j.key = check[h].key /\ j.since = check[h].since
        BY <1>1 DEF KeyJobs
      <3> QED
        BY <3>1, <3>2, OIDCAssumption, <2>1
        DEF CheckOK, ReadSince, Published, KeyJobs, KeyInv, KeyTypes, Times
    <2>3. Proceed(h, j, "arrive") /\ verdict' = Absent
      BY <1>6 DEF ProviderReads
    <2> QED
      BY <1>1, <1>2, <2>1, <2>2, <2>3, NoJudgement, CheckerStep DEF KeyLabels
  <1>7. CASE fetch_fails(h)
    <2>1. RetiredKeyDies' /\ PublishedKeyIsAccepted' /\ Proceed(h, Absent, "idle")
      BY <1>7 DEF fetch_fails, Judge, RetiredKeyDies, PublishedKeyIsAccepted
    <2> QED
      BY <1>1, <1>2, <2>1, CheckerStep DEF KeyLabels
  <1> QED
    BY <1>4, <1>6, <1>7

LEMMA IdentitySteps ==
    ASSUME KeyInv, NEW h \in Checkers, sync_external_oidc_identity(h) \/ identity_fails(h)
    PROVE  KeyInv'
  <1>1. stage[h] = "identity" /\ check[h] \in KeyJobs /\ CheckOK("identity", check[h])
        /\ UNCHANGED <<provider, clock, jwks>> /\ Proceed(h, Absent, "idle")
    BY DEF sync_external_oidc_identity, identity_fails, KeyInv, KeyTypes, ChecksOK, Same, caches, Judge
  <1>2. jwks' \in [Kinds -> CachedKeys \cup {Absent}] /\ \A d \in Kinds : CacheOK(jwks'[d])
    BY <1>1 DEF KeyInv, KeyTypes, CachesOK
  <1>3. RetiredKeyDies' /\ PublishedKeyIsAccepted'
    BY <1>1, NoJudgement
    DEF sync_external_oidc_identity, identity_fails, Judge, CheckOK,
        RetiredKeyDies, PublishedKeyIsAccepted, provider, StillGood
  <1> QED
    BY <1>1, <1>2, <1>3, CheckerStep DEF KeyLabels

(* The provider publishes or withdraws a key, or time passes.               *)
LEMMA WorldSteps ==
    ASSUME KeyInv, (\E k \in Keys : PublishKey(k) \/ RetireKey(k)) \/ TimePasses
    PROVE  KeyInv'
  <1>1. UNCHANGED <<jwks, stage, check>> /\ verdict' = Absent
    BY DEF PublishKey, RetireKey, TimePasses, caches
  <1>2. KeyTypes'
    BY <1>1 DEF KeyInv, KeyTypes, PublishKey, RetireKey, TimePasses, provider, Times
  <1>3. clock \in Nat /\ clock' \in Nat /\ clock <= clock' /\ TTL \in Nat
    BY OIDCAssumption DEF KeyInv, KeyTypes, PublishKey, RetireKey, TimePasses
  <1>4. ASSUME NEW keys \in SUBSET Keys, NEW t \in Int, t <= clock, ReadSince(keys, t)
        PROVE  ReadSince(keys, t)'
    <2>1. CASE \E k \in Keys : PublishKey(k)
      BY <1>3, <1>4, <2>1, OIDCAssumption DEF ReadSince, PublishKey, Published, KeyInv, KeyTypes, Times
    <2>2. CASE \E k \in Keys : RetireKey(k)
      BY <1>3, <1>4, <2>2, OIDCAssumption DEF ReadSince, RetireKey, Published, KeyInv, KeyTypes, Times
    <2>3. CASE TimePasses
      BY <1>4, <2>3 DEF ReadSince, TimePasses, Published, provider
    <2> QED
      BY <2>1, <2>2, <2>3
  <1>5. CachesOK'
    <2> SUFFICES ASSUME NEW d \in Kinds, jwks[d] # Absent
                 PROVE  ReadSince(jwks[d].keys, jwks[d].expires - TTL)'
                        /\ jwks[d].expires <= clock' + TTL
      BY <1>1 DEF CachesOK, CacheOK
    <2>1. jwks[d] \in CachedKeys /\ ReadSince(jwks[d].keys, jwks[d].expires - TTL)
          /\ jwks[d].expires <= clock + TTL
      BY DEF KeyInv, KeyTypes, CachesOK, CacheOK
    <2>2. jwks[d].keys \in SUBSET Keys /\ jwks[d].expires \in Nat
      BY <2>1 DEF CachedKeys
    <2>3. jwks[d].expires - TTL \in Int /\ jwks[d].expires - TTL <= clock
          /\ jwks[d].expires <= clock' + TTL
      BY <1>3, <2>1, <2>2
    <2>4. ReadSince(jwks[d].keys, jwks[d].expires - TTL)'
      BY <1>1, <1>4, <2>1, <2>2, <2>3 DEF ReadSince
    <2> QED
      BY <2>3, <2>4
  <1>6. ChecksOK'
    <2> SUFFICES ASSUME NEW h \in Checkers, stage[h] # "idle"
                 PROVE  CheckOK(stage[h], check[h])'
      BY <1>1 DEF ChecksOK
    <2> DEFINE j == check[h]
    <2>1. j \in KeyJobs /\ CheckOK(stage[h], j)
      BY DEF KeyInv, KeyTypes, ChecksOK
    <2>2. j.start \in Nat /\ j.start <= clock /\ j.start <= clock' /\ j.keys \in SUBSET Keys
          /\ j.key \in Keys \cup {Absent}
      BY <1>3, <2>1 DEF KeyJobs, CheckOK
    <2>3. stage[h] = "arrive" => ReadSince(j.keys, j.start)'
      BY <1>1, <1>4, <2>1, <2>2 DEF CheckOK, ReadSince
    <2>4. j.key # Absent =>
             /\ j.key \in Keys /\ published'[j.key] # Absent
             /\ retired[j.key] \in Times /\ (retired[j.key] # Absent => retired'[j.key] = retired[j.key])
             /\ retired'[j.key] = retired[j.key] \/ retired'[j.key] = clock
      <3> SUFFICES ASSUME j.key # Absent, j.key \in Keys, published[j.key] # Absent
                   PROVE  /\ published'[j.key] # Absent
                          /\ retired[j.key] \in Times
                          /\ retired[j.key] # Absent => retired'[j.key] = retired[j.key]
                          /\ retired'[j.key] = retired[j.key] \/ retired'[j.key] = clock
        BY <2>1, <2>2 DEF CheckOK
      <3> HIDE DEF j
      <3>1. published \in [Keys -> Times] /\ retired \in [Keys -> Times] /\ clock # Absent
        BY <1>3, OIDCAssumption DEF KeyInv, KeyTypes
      <3>2. CASE \E k \in Keys : PublishKey(k)
        BY <3>1, <3>2 DEF PublishKey
      <3>3. CASE \E k \in Keys : RetireKey(k)
        BY <3>1, <3>3 DEF RetireKey, Published
      <3>4. CASE TimePasses
        BY <3>1, <3>4 DEF TimePasses, provider
      <3> QED
        BY <3>2, <3>3, <3>4
    <2>5. stage[h] = "identity" =>
                (retired'[j.key] # Absent => StillGood(j.key, j.start, j.since)')
      <3> SUFFICES ASSUME stage[h] = "identity", retired'[j.key] # Absent
                   PROVE  \/ j.start < retired'[j.key] + TTL
                          \/ j.since # Absent /\ j.since <= retired'[j.key]
        BY <1>1 DEF StillGood
      <3>1. j.key # Absent /\ j.key \in Keys /\ retired'[j.key] \in Nat
        BY <1>3, <2>1, <2>2, <2>4 DEF CheckOK, Times
      <3>2. CASE retired'[j.key] = retired[j.key]
        BY <2>1, <3>1, <3>2 DEF CheckOK, StillGood
      <3>3. CASE retired'[j.key] = clock
        BY <1>3, <2>1, <2>2, <3>3 DEF CheckOK, KeyJobs
      <3> QED
        BY <2>4, <3>1, <3>2, <3>3
    <2> QED
      BY <1>1, <2>1, <2>2, <2>3, <2>4, <2>5 DEF CheckOK
  <1> QED
    BY <1>1, <1>2, <1>5, <1>6, NoJudgement DEF KeyInv

LEMMA KeyNextStep == KeyInv /\ [OIDCNext]_oidcVars => KeyInv'
  <1> SUFFICES ASSUME KeyInv, [OIDCNext]_oidcVars PROVE KeyInv'
    OBVIOUS
  <1>1. CASE UNCHANGED oidcVars
    BY <1>1 DEF oidcVars, caches, provider, KeyInv, KeyTypes, CachesOK, CacheOK, ChecksOK, CheckOK, ReadSince,
                StillGood, Published, RetiredKeyDies, PublishedKeyIsAccepted
  <1>2. CASE \E h \in Checkers : \/ \E d \in Kinds, k \in Keys, o \in Owners : TokenArrives(h, d, k, o)
                                 \/ AskReadiness(h)
    BY <1>2, TokenArrivesStep, AskReadinessStep
  <1>3. CASE \E h \in Checkers : CheckStep(h)
    BY <1>3, CachedStep, MetadataStep, ArrivalStep, FetchSteps, IdentitySteps DEF CheckStep
  <1>4. CASE (\E k \in Keys : PublishKey(k) \/ RetireKey(k)) \/ TimePasses
    BY <1>4, WorldSteps
  <1> QED
    BY <1>1, <1>2, <1>3, <1>4 DEF OIDCNext

LEMMA KeyInvariantHolds == OIDCSpec => []KeyInv
  BY KeyInitHasInv, KeyNextStep, PTL DEF OIDCSpec

-----------------------------------------------------------------------------
(* Once a cache lifetime has passed since the withdrawal of a key, its      *)
(* tokens are accepted only by requests whose own fetch began before the    *)
(* withdrawal, for any number of concurrent fetches of any duration: an     *)
(* entry that is stored late expires as if it had been stored when its      *)
(* fetch began (external_oidc.py, _jwks).                                   *)
THEOREM WithdrawnKeysDie == OIDCSpec => []RetiredKeyDies
  BY KeyInvariantHolds, PTL DEF KeyInv

(* A bearer token that names a kid of its own is not refused while its key  *)
(* is published unless a fetch failed, because an unknown kid makes the hub *)
(* fetch once more; every other token of a published key is refused at most *)
(* for a cache lifetime, or because another key fits it too.                *)
THEOREM RotationIsNoOutage == OIDCSpec => []PublishedKeyIsAccepted
  BY KeyInvariantHolds, PTL DEF KeyInv
=============================================================================
