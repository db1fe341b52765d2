------------------------------- MODULE Gateway -------------------------------
(***************************************************************************)
(* The gateway in front of the services, with what is behind it that tells *)
(* one request from another: auth-service, which logs users in, a service  *)
(* that checks the token once more, and risk-service's dashboard, whose    *)
(* summary is cached in the Redis that also counts requests.               *)
(*                                                                         *)
(* A request is handled in steps, and time goes by between them: what a    *)
(* step found valid may have expired at the next.  All processes read one  *)
(* clock.  Services calling each other do not pass here and are left out,  *)
(* as are audit rows (see IncidentService).                                *)
(***************************************************************************)
EXTENDS RedisStore, JwtSessions, Sequences, FiniteSets

CONSTANTS
    Slots,             \* requests being handled at the same time
    Hosts,             \* where they come from
    RoleOf,            \* DEMO_USERS: the role of each e-mail address
    Paths,             \* the paths that are asked for
    Development,       \* auth-service's env
    Window,            \* RATE_LIMIT_WINDOW_SECONDS
    LoginLimit, GeneralLimit,
    SummaryTtl,        \* TTL_DASHBOARD_SUMMARY
    MaxTime, MaxRequests, MaxFaults      \* bounds

Emails == DOMAIN RoleOf
ASSUME RoleAssumption == \A e \in Emails : RoleOf[e] \in Roles
ASSUME LimitAssumption ==
    /\ {Window, LoginLimit, GeneralLimit, SummaryTtl} \subseteq Nat \ {0}
    /\ {MaxTime, MaxRequests, MaxFaults} \subseteq Nat /\ Development \in BOOLEAN

VARIABLES
    now,           \* the time
    store,         \* what Redis holds
    users,         \* when each user was deactivated, if ever
    tokens,        \* the tokens that were issued
    request,       \* what each slot is doing
    event,         \* what the last step did for a caller
    counted,       \* how many requests of an identifier were counted and not refused, and when
    logins, verifications,     \* passwords and codes that were accepted: [sub, at]
    requests, faults   \* counted for the bounds

logVars == <<counted, logins, verifications>>
boundVars == <<requests, faults>>
vars == <<now, store, users, tokens, request, event, logVars, boundVars>>

------------------------------------------------------------------------------
(* Routing.                                                                *)

RouteTable == {"auth", "vendors", "risk", "sbom", "compliance", "monitoring", "incidents"}
Login == <<"auth", "login">>
MfaVerify == <<"auth", "mfa", "verify">>
SeedUsers == <<"auth", "dev", "seed-users">>
DashboardSummary == <<"risk", "dashboard", "summary">>
CreateVendor == <<"vendors">>
CreateAssessment == <<"compliance", "assessments">>

Resolves(path) == path[1] \in RouteTable
IsPublic(path) ==
    path \in {Login, MfaVerify} \/ (Len(path) > 2 /\ SubSeq(path, 1, 2) = <<"auth", "dev">>)

\* The roles the service behind the path accepts.
Allowed(path) ==
    CASE path = CreateVendor -> {"risk_officer", "admin"}
      [] path = CreateAssessment -> {"compliance_manager", "ciso", "admin"}
      [] OTHER -> Roles

\* The counter a request is metered by, and its limit.
Bucket(path) == IF path = Login THEN "login" ELSE "general"
Identifier(r) ==
    <<Bucket(r.path), IF IsPublic(r.path) THEN r.host ELSE r.token.sub>>
LimitOf(id) == IF id[1] = "login" THEN LoginLimit ELSE GeneralLimit

------------------------------------------------------------------------------
Idle == [step |-> "idle"]
NoEvent == [kind |-> "none"]
SummaryKey == <<"dashboard", "summary">>
IsActive(email) == email \in DOMAIN users /\ users[email] = Never

\* Either the users are yet to be seeded or all are there.
Init ==
    /\ now = 0 /\ store = Empty
    /\ users \in {<<>>, [e \in Emails |-> Never]}
    /\ tokens = {} /\ event = NoEvent
    /\ request = [s \in Slots |-> Idle]
    /\ counted = <<>> /\ logins = {} /\ verifications = {}
    /\ requests = 0 /\ faults = 0

At(s, step) == request[s].step = step
Goto(s, step) == request' = [request EXCEPT ![s].step = step] /\ event' = NoEvent
Respond(s, what) == request' = [request EXCEPT ![s] = Idle] /\ event' = what
Error(s) == Respond(s, NoEvent)
Fault == faults < MaxFaults /\ faults' = faults + 1

\* What is asked for; a token plays a part only where one is looked at.
Inputs ==
    {r \in [step : {"meter"}, host : Hosts, path : Paths, method : {"OPTIONS", "other"},
            token : tokens \cup {NoToken}] :
        IsPublic(r.path) /\ r.path # MfaVerify => r.token = NoToken}

\* catch_all up to the metering.
Passes(r) ==
    /\ Resolves(r.path) /\ r.method # "OPTIONS"
    /\ IsPublic(r.path) \/ Decodes(r.token, "access", now)
Receive(s) ==
    /\ At(s, "idle") /\ requests < MaxRequests
    /\ requests' = requests + 1
    /\ \E r \in Inputs : Passes(r) /\ request' = [request EXCEPT ![s] = r]
    /\ event' = NoEvent
    /\ UNCHANGED <<now, store, users, tokens, logVars, faults>>
\* 404, 204 or 401.
Dismiss(s) ==
    /\ At(s, "idle")
    /\ \E r \in Inputs : ~Passes(r) /\ Error(s)
    /\ UNCHANGED <<now, store, users, tokens, logVars, boundVars>>

\* enforce_rate_limit; when Redis cannot be reached the request fails, and may
\* have been counted all the same.
Log(id) ==
    counted' = [k \in DOMAIN counted \cup {<<id, now>>} |->
        IF k \notin DOMAIN counted THEN 1
        ELSE IF k = <<id, now>> THEN counted[k] + 1 ELSE counted[k]]
Increment(id) ==
    /\ store' = IncrWithTtl(store, id, Window, now)
    /\ IF GetJson(store', id) > LimitOf(id) THEN UNCHANGED counted ELSE Log(id)
EnforceRateLimit(s) ==
    /\ At(s, "meter")
    /\ LET id == Identifier(request[s]) IN
       \/ /\ Increment(id)
          /\ IF GetJson(store', id) > LimitOf(id)
             THEN Respond(s, [kind |-> "refused", id |-> id]) ELSE Goto(s, "forward")
          /\ UNCHANGED faults
       \/ /\ Fault /\ Error(s)
          /\ Increment(id) \/ UNCHANGED <<store, counted>>
    /\ UNCHANGED <<now, users, tokens, logins, verifications, requests>>

------------------------------------------------------------------------------
(* auth-service.                                                           *)

Forwarded(s, path) == At(s, "forward") /\ request[s].path = path

\* POST /auth/login: an active user's password is right, or the answer is 401.
LogIn(s) ==
    /\ Forwarded(s, Login)
    /\ \/ /\ \E e \in Emails :
                /\ IsActive(e)
                /\ tokens' = tokens \cup {CreateMfaBridgeToken(e, now)}
                /\ logins' = logins \cup {[sub |-> e, at |-> now]}
          /\ Error(s)
       \/ Error(s) /\ UNCHANGED <<tokens, logins>>
    /\ UNCHANGED <<now, store, users, counted, verifications, boundVars>>

\* POST /auth/mfa/verify, with the code that was shown at the time read.
VerifyMfa(s) ==
    /\ Forwarded(s, MfaVerify)
    /\ LET token == request[s].token IN
       \E read \in 0..now :
          IF Decodes(token, "mfa_bridge", now) /\ IsActive(token.sub) /\ VerifyTotpCode(read, now)
          THEN /\ tokens' = tokens \cup {CreateAccessToken(token.sub, RoleOf[token.sub], now)}
               /\ verifications' = verifications \cup {[sub |-> token.sub, at |-> now]}
          ELSE UNCHANGED <<tokens, verifications>>
    /\ Error(s)
    /\ UNCHANGED <<now, store, users, counted, logins, boundVars>>

\* POST /auth/dev/seed-users, in development: the demo users there are ...
SelectUsers(s) ==
    /\ Forwarded(s, SeedUsers)
    /\ IF Development
       THEN /\ request' = [request EXCEPT ![s] = [step |-> "seed", created |-> Emails \ DOMAIN users]]
            /\ event' = NoEvent
       ELSE Error(s)
    /\ UNCHANGED <<now, store, users, tokens, logVars, boundVars>>
\* ... and a commit of the others, which fails if an e-mail address is taken by now.
CommitUsers(s) ==
    /\ At(s, "seed")
    /\ LET created == request[s].created IN
       users' = IF created \cap DOMAIN users # {} THEN users
                ELSE [e \in DOMAIN users \cup created |-> IF e \in created THEN Never ELSE users[e]]
    /\ Error(s)
    /\ UNCHANGED <<now, store, tokens, logVars, boundVars>>

\* Nothing in the code resets is_active; an operator does.
Deactivate ==
    /\ Fault
    /\ \E e \in DOMAIN users : IsActive(e) /\ users' = [users EXCEPT ![e] = now]
    /\ event' = NoEvent
    /\ UNCHANGED <<now, store, tokens, request, logVars, requests>>

------------------------------------------------------------------------------
(* The other services.                                                     *)

\* get_current_user and require_role: the service decodes the token itself.
Serve(s) ==
    /\ At(s, "forward") /\ ~IsPublic(request[s].path)
    /\ LET r == request[s]
           served == [kind |-> "served", sub |-> r.token.sub, role |-> r.token.role, path |-> r.path]
       IN  IF ~Decodes(r.token, "access", now) \/ r.token.role \notin Allowed(r.path) THEN Error(s)
           ELSE IF r.path = DashboardSummary
           THEN request' = [request EXCEPT ![s] = [step |-> "lookup"]] /\ event' = served
           ELSE Respond(s, served)
    /\ UNCHANGED <<now, store, users, tokens, logVars, boundVars>>

\* cached: what Redis has, unless it cannot be asked.
Answered(summary) == [kind |-> "answered", asOf |-> summary.asOf, took |-> summary.took]
LookUp(s) ==
    /\ At(s, "lookup")
    /\ \/ /\ Holds(store, SummaryKey)
          /\ Respond(s, Answered(GetJson(store, SummaryKey)))
          /\ UNCHANGED faults
       \/ ~Holds(store, SummaryKey) /\ Goto(s, "compute") /\ UNCHANGED faults
       \/ Fault /\ Goto(s, "compute")
    /\ UNCHANGED <<now, store, users, tokens, logVars, requests>>

\* get_summary reads the rows ...
ReadSummary(s) ==
    /\ At(s, "compute")
    /\ request' = [request EXCEPT ![s] = [step |-> "store", asOf |-> now]]
    /\ event' = NoEvent
    /\ UNCHANGED <<now, store, users, tokens, logVars, boundVars>>
\* ... and the result is cached if that can be done.
StoreSummary(s) ==
    /\ At(s, "store")
    /\ LET summary == [asOf |-> request[s].asOf, took |-> now - request[s].asOf] IN
       /\ \/ store' = SetJson(store, SummaryKey, summary, SummaryTtl, now) /\ UNCHANGED faults
          \/ Fault /\ UNCHANGED store
       /\ Respond(s, Answered(summary))
    /\ UNCHANGED <<now, users, tokens, logVars, requests>>

\* The client goes away, or an upstream cannot be reached or dies.
CutOff(s) ==
    /\ ~At(s, "idle")
    /\ Fault
    /\ Error(s)
    /\ UNCHANGED <<now, store, users, tokens, logVars, requests>>

Tick ==
    /\ now < MaxTime
    /\ now' = now + 1
    /\ store' = Unexpired(store, now')
    /\ event' = NoEvent
    /\ UNCHANGED <<users, tokens, request, logVars, boundVars>>

------------------------------------------------------------------------------
Step(s) ==
    \/ EnforceRateLimit(s) \/ LogIn(s) \/ VerifyMfa(s) \/ SelectUsers(s) \/ CommitUsers(s)
    \/ Serve(s) \/ LookUp(s) \/ ReadSummary(s) \/ StoreSummary(s)

Quiescent == (\A s \in Slots : At(s, "idle")) /\ UNCHANGED vars
Next ==
    \/ \E s \in Slots : Receive(s) \/ Dismiss(s) \/ Step(s) \/ CutOff(s)
    \/ Deactivate \/ Tick
    \/ Quiescent

Spec == Init /\ [][Next]_vars
=============================================================================
