---------------------------- MODULE GatewayProofs ----------------------------
(***************************************************************************)
(* For every number of slots, users and requests, all times to live, all   *)
(* limits and every fault: a service serves only sessions that a password  *)
(* and a code have opened, the cached summary is never older than it may   *)
(* be, and requests are metered as the limits say.                         *)
(***************************************************************************)
EXTENDS GatewayProperties, SumTheorems, TLAPS

\* A request as it is between its reception and the service it is for.
Asked == [step : {"meter", "forward"}, host : Hosts, path : Paths,
          method : {"OPTIONS", "other"}, token : tokens \cup {NoToken}]
RequestsHoldTokens ==
    /\ DOMAIN request = Slots
    /\ \A s \in Slots : request[s].step \in {"meter", "forward"} => request[s] \in Asked

\* Every token stems from a password or a code that was accepted.
TokensAreEarned ==
    \A t \in tokens :
        \/ /\ t.type = "mfa_bridge"
           /\ \E l \in logins : l.sub = t.sub /\ t.exp = l.at + BridgeTtl
        \/ /\ t.type = "access" /\ t.role = RoleOf[t.sub]
           /\ \E v \in verifications : v.sub = t.sub /\ t.exp = v.at + AccessTtl

\* A code is accepted from an active user, in the time the password has opened.
VerificationsAreEarned ==
    \A v \in verifications :
        /\ v.at \in Nat /\ v.at <= now
        /\ v.sub \in DOMAIN users /\ (users[v.sub] = Never \/ v.at <= users[v.sub])
        /\ \E l \in logins : l.sub = v.sub /\ l.at <= v.at /\ v.at - BridgeTtl < l.at

Past ==
    /\ now \in Nat
    /\ \A l \in logins : l.at \in Nat /\ l.at <= now
    /\ \A e \in DOMAIN users : users[e] = Never \/ users[e] \in Nat

SessionInv ==
    Past /\ RequestsHoldTokens /\ TokensAreEarned /\ VerificationsAreEarned

\* What is in the cache has not expired, and what will be put there was read before.
CacheIsFresh ==
    Holds(store, SummaryKey) =>
        LET entry == store[SummaryKey] IN
        /\ entry.value.asOf \in Nat /\ entry.value.took \in Nat
        /\ entry.expires = entry.value.asOf + entry.value.took + SummaryTtl
        /\ now < entry.expires
SummariesAreRead ==
    /\ DOMAIN request = Slots
    /\ \A s \in Slots : request[s].step = "store" => request[s].asOf \in Nat /\ request[s].asOf <= now
SummaryInv == now \in Nat /\ CacheIsFresh /\ SummariesAreRead

------------------------------------------------------------------------------
(* Sessions.                                                               *)

\* A slot that is done, or past the tokens, leaves the other requests as they are.
LEMMA HeldBeyond ==
    ASSUME RequestsHoldTokens, tokens \subseteq tokens', NEW s \in Slots, NEW r,
           r.step \notin {"meter", "forward"}, request' = [request EXCEPT ![s] = r]
    PROVE  RequestsHoldTokens'
BY DEF RequestsHoldTokens, Asked

LEMMA HeldIdle ==
    ASSUME RequestsHoldTokens, tokens \subseteq tokens', NEW s \in Slots, NEW e, Respond(s, e)
    PROVE  RequestsHoldTokens' /\ event' = e
<1>1. Idle.step \notin {"meter", "forward"}
  BY DEF Idle
<1>2. request' = [request EXCEPT ![s] = Idle] /\ event' = e
  BY DEF Respond
<1> QED
  BY <1>1, <1>2, HeldBeyond

LEMMA HeldSame ==
    ASSUME RequestsHoldTokens, UNCHANGED <<tokens, request>>
    PROVE  RequestsHoldTokens'
BY DEF RequestsHoldTokens, Asked

\* What was earned stays earned while time goes by and the logs are kept.
LEMMA EarnedSame ==
    ASSUME SessionInv, UNCHANGED <<users, tokens, logins, verifications>>,
           now' \in Nat, now <= now'
    PROVE  Past' /\ TokensAreEarned' /\ VerificationsAreEarned'
<1>1. Past'
  BY DEF SessionInv, Past
<1>2. TokensAreEarned'
  BY DEF SessionInv, TokensAreEarned
<1>3. VerificationsAreEarned'
  BY DEF SessionInv, Past, VerificationsAreEarned
<1> QED
  BY <1>1, <1>2, <1>3

LEMMA SessionInit == Init => SessionInv /\ OnlyVerifiedSessions
<1> SUFFICES ASSUME Init PROVE SessionInv /\ OnlyVerifiedSessions
  OBVIOUS
<1>1. Past
  BY DEF Init, Past, Emails
<1>2. RequestsHoldTokens
  BY DEF Init, RequestsHoldTokens, Idle
<1>3. TokensAreEarned /\ VerificationsAreEarned
  BY DEF Init, TokensAreEarned, VerificationsAreEarned
<1>4. OnlyVerifiedSessions
  BY DEF Init, OnlyVerifiedSessions, NoEvent
<1> QED
  BY <1>1, <1>2, <1>3, <1>4 DEF SessionInv

LEMMA SessionReceive ==
    ASSUME SessionInv, NEW s \in Slots, Receive(s)
    PROVE  SessionInv' /\ event' = NoEvent
<1>1. PICK r \in Inputs : request' = [request EXCEPT ![s] = r]
  BY DEF Receive
<1>2. r \in Asked /\ UNCHANGED tokens
  BY <1>1 DEF Receive, Inputs, Asked
<1>3. RequestsHoldTokens'
  BY <1>1, <1>2 DEF SessionInv, RequestsHoldTokens, Asked
<1>4. Past' /\ TokensAreEarned' /\ VerificationsAreEarned' /\ event' = NoEvent
  BY EarnedSame DEF Receive, logVars, SessionInv, Past
<1> QED
  BY <1>3, <1>4 DEF SessionInv

LEMMA SessionMeter ==
    ASSUME SessionInv, NEW s \in Slots, EnforceRateLimit(s)
    PROVE  SessionInv' /\ event'.kind # "served"
<1>1. Past' /\ TokensAreEarned' /\ VerificationsAreEarned' /\ UNCHANGED tokens
  BY EarnedSame DEF EnforceRateLimit, SessionInv, Past
<1>2. \/ \E e \in {NoEvent, [kind |-> "refused", id |-> Identifier(request[s])]} : Respond(s, e)
      \/ Goto(s, "forward")
  BY DEF EnforceRateLimit, Error
<1>3. CASE \E e \in {NoEvent, [kind |-> "refused", id |-> Identifier(request[s])]} : Respond(s, e)
  BY <1>1, <1>3, HeldIdle DEF SessionInv, NoEvent
<1>4. CASE Goto(s, "forward")
  <2>1. request[s] \in Asked
    BY DEF EnforceRateLimit, At, SessionInv, RequestsHoldTokens
  <2>2. [request[s] EXCEPT !.step = "forward"] \in Asked
    BY <2>1 DEF Asked
  <2>3. RequestsHoldTokens'
    BY <1>1, <1>4, <2>2 DEF Goto, SessionInv, RequestsHoldTokens, Asked
  <2> QED
    BY <1>1, <1>4, <2>3 DEF Goto, NoEvent, SessionInv
<1> QED
  BY <1>2, <1>3, <1>4

LEMMA SessionLogIn ==
    ASSUME SessionInv, NEW s \in Slots, LogIn(s)
    PROVE  SessionInv' /\ event' = NoEvent
<1>1. CASE UNCHANGED <<tokens, logins>>
  <2>1. Past' /\ TokensAreEarned' /\ VerificationsAreEarned'
    BY <1>1, EarnedSame DEF LogIn, SessionInv, Past
  <2>2. RequestsHoldTokens' /\ event' = NoEvent
    BY <1>1, HeldIdle DEF LogIn, Error, SessionInv
  <2> QED
    BY <2>1, <2>2 DEF SessionInv
<1>2. ASSUME NEW e \in Emails, tokens' = tokens \cup {CreateMfaBridgeToken(e, now)},
             logins' = logins \cup {[sub |-> e, at |-> now]}, Error(s)
      PROVE  SessionInv' /\ event' = NoEvent
  <2>1. RequestsHoldTokens' /\ event' = NoEvent
    BY <1>2, HeldIdle DEF Error, SessionInv
  <2>2. UNCHANGED <<now, users, verifications>>
    BY DEF LogIn
  <2>3. Past'
    BY <1>2, <2>2 DEF SessionInv, Past
  <2>4. TokensAreEarned'
    <3> SUFFICES ASSUME NEW t \in tokens'
                 PROVE  \/ /\ t.type = "mfa_bridge"
                           /\ \E l \in logins' : l.sub = t.sub /\ t.exp = l.at + BridgeTtl
                        \/ /\ t.type = "access" /\ t.role = RoleOf[t.sub]
                           /\ \E v \in verifications' : v.sub = t.sub /\ t.exp = v.at + AccessTtl
      BY DEF TokensAreEarned
    <3>1. CASE t \in tokens
      BY <1>2, <2>2, <3>1 DEF SessionInv, TokensAreEarned
    <3>2. CASE t = CreateMfaBridgeToken(e, now)
      <4> DEFINE l == [sub |-> e, at |-> now]
      <4>1. l \in logins' /\ l.sub = t.sub /\ t.exp = l.at + BridgeTtl /\ t.type = "mfa_bridge"
        BY <1>2, <3>2 DEF CreateMfaBridgeToken
      <4> QED
        BY <4>1
    <3> QED
      BY <1>2, <3>1, <3>2
  <2>5. VerificationsAreEarned'
    BY <1>2, <2>2 DEF SessionInv, VerificationsAreEarned
  <2> QED
    BY <2>1, <2>3, <2>4, <2>5 DEF SessionInv
<1> QED
  BY <1>1, <1>2 DEF LogIn

LEMMA SessionVerifyMfa ==
    ASSUME SessionInv, NEW s \in Slots, VerifyMfa(s)
    PROVE  SessionInv' /\ event' = NoEvent
<1> DEFINE token == request[s].token
<1>1. CASE UNCHANGED <<tokens, verifications>>
  <2>1. Past' /\ TokensAreEarned' /\ VerificationsAreEarned'
    BY <1>1, EarnedSame DEF VerifyMfa, SessionInv, Past
  <2>2. RequestsHoldTokens' /\ event' = NoEvent
    BY <1>1, HeldIdle DEF VerifyMfa, Error, SessionInv
  <2> QED
    BY <2>1, <2>2 DEF SessionInv
<1>2. CASE /\ Decodes(token, "mfa_bridge", now) /\ IsActive(token.sub)
           /\ tokens' = tokens \cup {CreateAccessToken(token.sub, RoleOf[token.sub], now)}
           /\ verifications' = verifications \cup {[sub |-> token.sub, at |-> now]}
  <2>1. RequestsHoldTokens' /\ event' = NoEvent
    BY <1>2, HeldIdle DEF VerifyMfa, Error, SessionInv
  <2>2. UNCHANGED <<now, users, logins>>
    BY DEF VerifyMfa
  <2>3. token \in tokens /\ token.type = "mfa_bridge" /\ now < token.exp
    BY <1>2 DEF VerifyMfa, Forwarded, At, SessionInv, RequestsHoldTokens, Asked, Decodes, NoToken
  <2>4. PICK l \in logins : l.sub = token.sub /\ token.exp = l.at + BridgeTtl
    BY <2>3 DEF SessionInv, TokensAreEarned
  <2>5. Past'
    BY <2>2 DEF SessionInv, Past
  <2>6. TokensAreEarned'
    <3> SUFFICES ASSUME NEW t \in tokens'
                 PROVE  \/ /\ t.type = "mfa_bridge"
                           /\ \E k \in logins' : k.sub = t.sub /\ t.exp = k.at + BridgeTtl
                        \/ /\ t.type = "access" /\ t.role = RoleOf[t.sub]
                           /\ \E v \in verifications' : v.sub = t.sub /\ t.exp = v.at + AccessTtl
      BY DEF TokensAreEarned
    <3>1. CASE t \in tokens
      BY <1>2, <2>2, <3>1 DEF SessionInv, TokensAreEarned
    <3>2. CASE t = CreateAccessToken(token.sub, RoleOf[token.sub], now)
      <4> DEFINE v == [sub |-> token.sub, at |-> now]
      <4>1. /\ v \in verifications' /\ v.sub = t.sub /\ t.exp = v.at + AccessTtl
            /\ t.type = "access" /\ t.role = RoleOf[t.sub]
        BY <1>2, <3>2 DEF CreateAccessToken
      <4> QED
        BY <4>1
    <3> QED
      BY <1>2, <3>1, <3>2
  <2>7. l.at \in Nat /\ l.at <= now /\ now - BridgeTtl < l.at
    BY <2>3, <2>4, TtlAssumption DEF SessionInv, Past
  <2>8. VerificationsAreEarned'
    BY <1>2, <2>2, <2>4, <2>7 DEF SessionInv, Past, VerificationsAreEarned, IsActive
  <2> QED
    BY <2>1, <2>5, <2>6, <2>8 DEF SessionInv
<1> QED
  BY <1>1, <1>2 DEF VerifyMfa

LEMMA SessionCommitUsers ==
    ASSUME SessionInv, NEW s \in Slots, CommitUsers(s)
    PROVE  SessionInv' /\ event' = NoEvent
<1>1. RequestsHoldTokens' /\ event' = NoEvent
  BY HeldIdle DEF CommitUsers, Error, SessionInv
<1>2. UNCHANGED <<now, tokens, logins, verifications>>
  BY DEF CommitUsers, logVars
<1>3. /\ DOMAIN users \subseteq DOMAIN users'
      /\ \A e \in DOMAIN users : users'[e] = users[e]
      /\ \A e \in DOMAIN users' : e \in DOMAIN users \/ users'[e] = Never
  <2> DEFINE created == request[s].created
  <2>1. CASE created \cap DOMAIN users # {}
    BY <2>1 DEF CommitUsers
  <2>2. CASE created \cap DOMAIN users = {}
    <3>1. users' = [e \in DOMAIN users \cup created |-> IF e \in created THEN Never ELSE users[e]]
      BY <2>2 DEF CommitUsers
    <3> QED
      BY <2>2, <3>1
  <2> QED
    BY <2>1, <2>2
<1>4. Past'
  BY <1>2, <1>3 DEF SessionInv, Past
<1>5. TokensAreEarned'
  BY <1>2 DEF SessionInv, TokensAreEarned
<1>6. VerificationsAreEarned'
  BY <1>2, <1>3 DEF SessionInv, VerificationsAreEarned
<1> QED
  BY <1>1, <1>4, <1>5, <1>6 DEF SessionInv

LEMMA SessionDeactivate ==
    ASSUME SessionInv, Deactivate
    PROVE  SessionInv' /\ event' = NoEvent
<1>1. PICK e \in DOMAIN users : IsActive(e) /\ users' = [users EXCEPT ![e] = now]
  BY DEF Deactivate
<1>2. UNCHANGED <<now, tokens, request, logins, verifications>> /\ event' = NoEvent
  BY DEF Deactivate, logVars
<1>3. DOMAIN users' = DOMAIN users
      /\ users'[e] = now /\ \A o \in DOMAIN users : o # e => users'[o] = users[o]
  BY <1>1
<1>4. RequestsHoldTokens'
  BY <1>2, HeldSame DEF SessionInv
<1>5. Past'
  BY <1>2, <1>3 DEF SessionInv, Past
<1>6. TokensAreEarned'
  BY <1>2 DEF SessionInv, TokensAreEarned
<1>7. VerificationsAreEarned'
  BY <1>2, <1>3 DEF SessionInv, VerificationsAreEarned
<1> QED
  BY <1>2, <1>4, <1>5, <1>6, <1>7 DEF SessionInv

\* The step the property is about: what makes a token good when it is looked at again.
LEMMA SessionServe ==
    ASSUME SessionInv, NEW s \in Slots, Serve(s)
    PROVE  SessionInv' /\ OnlyVerifiedSessions'
<1> DEFINE r == request[s]
           served == [kind |-> "served", sub |-> r.token.sub, role |-> r.token.role,
                      path |-> r.path]
<1>1. UNCHANGED <<now, users, tokens, logins, verifications>>
  BY DEF Serve, logVars
<1>2. Past' /\ TokensAreEarned' /\ VerificationsAreEarned'
  BY <1>1, EarnedSame DEF SessionInv, Past
<1>3. CASE Error(s)
  BY <1>1, <1>2, <1>3, HeldIdle DEF Error, SessionInv, OnlyVerifiedSessions, NoEvent
<1>4. CASE /\ Decodes(r.token, "access", now) /\ r.token.role \in Allowed(r.path)
           /\ \/ request' = [request EXCEPT ![s] = [step |-> "lookup"]] /\ event' = served
              \/ Respond(s, served)
  <2>1. RequestsHoldTokens' /\ event' = served
    BY <1>1, <1>4, HeldIdle, HeldBeyond DEF SessionInv
  <2>2. r.token \in tokens /\ r.token.type = "access" /\ now < r.token.exp
    BY <1>4 DEF Serve, At, SessionInv, RequestsHoldTokens, Asked, Decodes, NoToken
  <2>3. /\ r.token.role = RoleOf[r.token.sub]
        /\ \E v \in verifications : v.sub = r.token.sub /\ r.token.exp = v.at + AccessTtl
    BY <2>2 DEF SessionInv, TokensAreEarned
  <2>4. PICK v \in verifications : v.sub = r.token.sub /\ r.token.exp = v.at + AccessTtl
    BY <2>3
  <2>5. now \in Nat /\ v.at \in Nat /\ now - AccessTtl < v.at
    BY <2>2, <2>4, TtlAssumption DEF SessionInv, Past, VerificationsAreEarned
  <2>6. PICK l \in logins : l.sub = v.sub /\ l.at <= v.at /\ v.at - BridgeTtl < l.at
    BY DEF SessionInv, VerificationsAreEarned
  <2>7. users[v.sub] = Never \/ now < users[v.sub] + AccessTtl
    <3>1. users[v.sub] = Never \/ (users[v.sub] \in Nat /\ v.at <= users[v.sub])
      BY DEF SessionInv, Past, VerificationsAreEarned
    <3> QED
      BY <2>5, <3>1, TtlAssumption
  <2>8. OnlyVerifiedSessions'
    <3>1. (event').sub = r.token.sub /\ (event').role = r.token.role /\ (event').path = r.path
      BY <2>1
    <3>2. \E w \in verifications', m \in logins' :
              /\ w.sub = (event').sub /\ now' - AccessTtl < w.at
              /\ m.sub = (event').sub /\ m.at <= w.at /\ w.at - BridgeTtl < m.at
      BY <1>1, <2>4, <2>5, <2>6, <3>1
    <3> QED
      BY <1>1, <1>4, <2>3, <2>4, <2>7, <3>1, <3>2 DEF OnlyVerifiedSessions
  <2> QED
    BY <1>2, <2>1, <2>8 DEF SessionInv
<1> QED
  BY <1>3, <1>4 DEF Serve

\* The other steps touch neither tokens nor users.
LEMMA SessionRest ==
    ASSUME SessionInv, NEW s \in Slots,
           \/ Dismiss(s) \/ SelectUsers(s) \/ LookUp(s) \/ ReadSummary(s)
           \/ StoreSummary(s) \/ CutOff(s)
    PROVE  SessionInv' /\ event'.kind # "served"
<1>1. UNCHANGED <<now, users, tokens, logins, verifications>>
  BY DEF Dismiss, SelectUsers, LookUp, ReadSummary, StoreSummary, CutOff, logVars
<1>2. Past' /\ TokensAreEarned' /\ VerificationsAreEarned'
  BY <1>1, EarnedSame DEF SessionInv, Past
<1>3. CASE \E e : e.kind # "served" /\ Respond(s, e)
  BY <1>1, <1>2, <1>3, HeldIdle DEF SessionInv
<1>4. CASE /\ event' = NoEvent
           /\ \E r : r.step \notin {"meter", "forward"} /\ request' = [request EXCEPT ![s] = r]
  BY <1>1, <1>2, <1>4, HeldBeyond DEF SessionInv, NoEvent
<1>5. CASE Dismiss(s) \/ CutOff(s)
  BY <1>3, <1>5 DEF Dismiss, CutOff, Error, NoEvent
<1>6. CASE SelectUsers(s)
  <2>1. CASE Error(s)
    BY <1>3, <2>1 DEF Error, NoEvent
  <2>2. CASE /\ event' = NoEvent
             /\ request' = [request EXCEPT ![s] =
                    [step |-> "seed", created |-> Emails \ DOMAIN users]]
    BY <1>4, <2>2
  <2> QED
    BY <1>6, <2>1, <2>2 DEF SelectUsers
<1>7. CASE LookUp(s)
  <2>1. CASE Respond(s, Answered(GetJson(store, SummaryKey)))
    BY <1>3, <2>1 DEF Answered
  <2>2. CASE Goto(s, "compute")
    <3>1. request' = [request EXCEPT ![s] = [request[s] EXCEPT !.step = "compute"]]
      BY <2>2 DEF Goto
    <3>2. [request[s] EXCEPT !.step = "compute"].step \notin {"meter", "forward"}
      OBVIOUS
    <3> QED
      BY <1>4, <2>2, <3>1, <3>2 DEF Goto
  <2> QED
    BY <1>7, <2>1, <2>2 DEF LookUp
<1>8. CASE ReadSummary(s)
  BY <1>4, <1>8 DEF ReadSummary
<1>9. CASE StoreSummary(s)
  BY <1>3, <1>9 DEF StoreSummary, Answered
<1> QED
  BY <1>5, <1>6, <1>7, <1>8, <1>9

LEMMA SessionTick ==
    ASSUME SessionInv, Tick
    PROVE  SessionInv' /\ event' = NoEvent
<1>1. now' \in Nat /\ now <= now'
  BY DEF Tick, SessionInv, Past
<1>2. UNCHANGED <<users, tokens, request, logins, verifications>> /\ event' = NoEvent
  BY DEF Tick, logVars
<1>3. RequestsHoldTokens'
  BY <1>2, HeldSame DEF SessionInv
<1> QED
  BY <1>1, <1>2, <1>3, EarnedSame DEF SessionInv

LEMMA SessionStutters ==
    ASSUME SessionInv, OnlyVerifiedSessions, UNCHANGED vars
    PROVE  SessionInv' /\ OnlyVerifiedSessions'
<1>1. UNCHANGED <<now, users, tokens, request, event, logins, verifications>>
  BY DEF vars, logVars
<1>2. Past' /\ TokensAreEarned' /\ VerificationsAreEarned' /\ RequestsHoldTokens'
  BY <1>1, EarnedSame, HeldSame DEF SessionInv, Past
<1>3. OnlyVerifiedSessions'
  BY <1>1 DEF OnlyVerifiedSessions
<1> QED
  BY <1>2, <1>3 DEF SessionInv

LEMMA SessionStep ==
    ASSUME SessionInv, OnlyVerifiedSessions, [Next]_vars
    PROVE  SessionInv' /\ OnlyVerifiedSessions'
<1>1. ASSUME event'.kind # "served" PROVE OnlyVerifiedSessions'
  BY <1>1 DEF OnlyVerifiedSessions
<1>2. NoEvent.kind # "served"
  BY DEF NoEvent
<1>3. ASSUME NEW s \in Slots, Receive(s) \/ Dismiss(s) \/ Step(s) \/ CutOff(s)
      PROVE  SessionInv' /\ OnlyVerifiedSessions'
  <2>1. CASE Receive(s)
    BY <1>1, <1>2, <2>1, SessionReceive
  <2>2. CASE EnforceRateLimit(s)
    BY <1>1, <2>2, SessionMeter
  <2>3. CASE LogIn(s)
    BY <1>1, <1>2, <2>3, SessionLogIn
  <2>4. CASE VerifyMfa(s)
    BY <1>1, <1>2, <2>4, SessionVerifyMfa
  <2>5. CASE CommitUsers(s)
    BY <1>1, <1>2, <2>5, SessionCommitUsers
  <2>6. CASE Serve(s)
    BY <2>6, SessionServe
  <2>7. CASE \/ Dismiss(s) \/ SelectUsers(s) \/ LookUp(s) \/ ReadSummary(s)
             \/ StoreSummary(s) \/ CutOff(s)
    BY <1>1, <2>7, SessionRest
  <2> QED
    BY <1>3, <2>1, <2>2, <2>3, <2>4, <2>5, <2>6, <2>7 DEF Step
<1>4. CASE Deactivate
  BY <1>1, <1>2, <1>4, SessionDeactivate
<1>5. CASE Tick
  BY <1>1, <1>2, <1>5, SessionTick
<1>6. CASE UNCHANGED vars
  BY <1>6, SessionStutters
<1> QED
  BY <1>3, <1>4, <1>5, <1>6 DEF Next, Quiescent

(* auth.py, jwt_shared.py: whatever expires, fails or is deactivated between
   two steps of a request, only sessions opened by a password and a code, in
   their lifetimes, are served. *)
THEOREM SessionsAreVerified == Spec => []OnlyVerifiedSessions
<1>1. Init => SessionInv /\ OnlyVerifiedSessions
  BY SessionInit
<1>2. SessionInv /\ OnlyVerifiedSessions /\ [Next]_vars
      => (SessionInv /\ OnlyVerifiedSessions)'
  BY SessionStep
<1> QED
  BY <1>1, <1>2, PTL DEF Spec

------------------------------------------------------------------------------
(* The cached summary.                                                     *)

\* Slots that do not have a summary to store do not bring one in.
LEMMA ReadBeyond ==
    ASSUME SummariesAreRead, UNCHANGED now, NEW s \in Slots, NEW r,
           r.step # "store", request' = [request EXCEPT ![s] = r]
    PROVE  SummariesAreRead'
BY DEF SummariesAreRead

LEMMA ReadIdle ==
    ASSUME SummariesAreRead, UNCHANGED now, NEW s \in Slots, NEW e, Respond(s, e)
    PROVE  SummariesAreRead' /\ event' = e
<1>1. Idle.step # "store"
  BY DEF Idle
<1> QED
  BY <1>1, ReadBeyond DEF Respond

LEMMA ReadGoto ==
    ASSUME SummariesAreRead, UNCHANGED now, NEW s \in Slots, NEW step,
           step # "store", Goto(s, step)
    PROVE  SummariesAreRead' /\ event' = NoEvent
BY DEF SummariesAreRead, Goto

LEMMA FreshSame ==
    ASSUME CacheIsFresh, UNCHANGED <<now, store>>
    PROVE  CacheIsFresh'
BY DEF CacheIsFresh

LEMMA SummaryInit == Init => SummaryInv /\ SummaryAge
BY DEF Init, SummaryInv, SummaryAge, NoEvent, CacheIsFresh, Holds, Empty, SummariesAreRead, Idle

\* A counter has a key of its own.
LEMMA CountersAreNotSummaries ==
    ASSUME CacheIsFresh, UNCHANGED now, NEW r, Increment(Identifier(r))
    PROVE  CacheIsFresh'
<1> DEFINE id == Identifier(r)
<1>1. id # SummaryKey
  BY DEF Identifier, Bucket, SummaryKey
<1>2. /\ SummaryKey \in DOMAIN store' => SummaryKey \in DOMAIN store
      /\ SummaryKey \in DOMAIN store => store'[SummaryKey] = store[SummaryKey]
  BY <1>1 DEF Increment, IncrWithTtl, Put
<1> QED
  BY <1>2 DEF CacheIsFresh, Holds

LEMMA SummaryMeter ==
    ASSUME SummaryInv, NEW s \in Slots, EnforceRateLimit(s)
    PROVE  SummaryInv' /\ event'.kind # "answered"
<1>1. UNCHANGED now
  BY DEF EnforceRateLimit
<1>2. CacheIsFresh'
  <2>1. Increment(Identifier(request[s])) \/ UNCHANGED store
    BY DEF EnforceRateLimit
  <2> QED
    BY <1>1, <2>1, CountersAreNotSummaries, FreshSame DEF SummaryInv
<1>3. \/ \E e \in {NoEvent, [kind |-> "refused", id |-> Identifier(request[s])]} : Respond(s, e)
      \/ Goto(s, "forward")
  BY DEF EnforceRateLimit, Error
<1>4. SummariesAreRead' /\ event'.kind # "answered"
  BY <1>1, <1>3, ReadIdle, ReadGoto DEF SummaryInv, NoEvent
<1> QED
  BY <1>1, <1>2, <1>4 DEF SummaryInv

LEMMA SummaryLookUp ==
    ASSUME SummaryInv, NEW s \in Slots, LookUp(s)
    PROVE  SummaryInv' /\ SummaryAge'
<1>1. UNCHANGED <<now, store>> /\ CacheIsFresh'
  BY FreshSame DEF LookUp, SummaryInv
<1>2. CASE Holds(store, SummaryKey) /\ Respond(s, Answered(GetJson(store, SummaryKey)))
  <2>1. SummariesAreRead' /\ event' = Answered(store[SummaryKey].value)
    BY <1>1, <1>2, ReadIdle DEF SummaryInv, GetJson
  <2> DEFINE summary == store[SummaryKey].value
  <2>2. summary.asOf \in Nat /\ summary.took \in Nat
        /\ now < summary.asOf + summary.took + SummaryTtl
    BY <1>2 DEF SummaryInv, CacheIsFresh
  <2>3. (event').asOf = summary.asOf /\ (event').took = summary.took
    BY <2>1 DEF Answered
  <2>4. SummaryAge'
    BY <1>1, <2>2, <2>3, LimitAssumption DEF SummaryAge, SummaryInv
  <2> QED
    BY <1>1, <2>1, <2>4 DEF SummaryInv
<1>3. CASE Goto(s, "compute")
  <2>1. SummariesAreRead' /\ event' = NoEvent
    BY <1>1, <1>3, ReadGoto DEF SummaryInv
  <2> QED
    BY <1>1, <2>1 DEF SummaryInv, SummaryAge, NoEvent
<1> QED
  BY <1>2, <1>3 DEF LookUp

LEMMA SummaryRead ==
    ASSUME SummaryInv, NEW s \in Slots, ReadSummary(s)
    PROVE  SummaryInv' /\ event' = NoEvent
<1>1. UNCHANGED <<now, store>> /\ CacheIsFresh' /\ event' = NoEvent
  BY FreshSame DEF ReadSummary, SummaryInv
<1>2. SummariesAreRead'
  BY <1>1 DEF ReadSummary, SummaryInv, SummariesAreRead
<1> QED
  BY <1>1, <1>2 DEF SummaryInv

LEMMA SummaryStore ==
    ASSUME SummaryInv, NEW s \in Slots, StoreSummary(s)
    PROVE  SummaryInv' /\ SummaryAge'
<1> DEFINE summary == [asOf |-> request[s].asOf, took |-> now - request[s].asOf]
<1>1. UNCHANGED now
  BY DEF StoreSummary
<1>2. summary.asOf \in Nat /\ summary.took \in Nat /\ summary.asOf + summary.took = now
  BY DEF StoreSummary, At, SummaryInv, SummariesAreRead
<1>3. SummariesAreRead' /\ event' = Answered(summary)
  BY <1>1, ReadIdle DEF StoreSummary, SummaryInv
<1>4. CacheIsFresh'
  <2>1. CASE UNCHANGED store
    BY <1>1, <2>1, FreshSame DEF SummaryInv
  <2>2. CASE store' = SetJson(store, SummaryKey, summary, SummaryTtl, now)
    <3>1. store'[SummaryKey] = [value |-> summary, expires |-> now + SummaryTtl]
      BY <2>2 DEF SetJson, Put
    <3> QED
      BY <1>1, <1>2, <3>1, LimitAssumption DEF CacheIsFresh, SummaryInv
  <2> QED
    BY <2>1, <2>2 DEF StoreSummary
<1>5. SummaryAge'
  <2>1. (event').asOf = summary.asOf /\ (event').took = summary.took
    BY <1>3 DEF Answered
  <2> QED
    BY <1>1, <1>2, <2>1, LimitAssumption DEF SummaryAge, SummaryInv
<1> QED
  BY <1>1, <1>3, <1>4, <1>5 DEF SummaryInv

LEMMA SummaryTick ==
    ASSUME SummaryInv, Tick
    PROVE  SummaryInv' /\ event' = NoEvent
<1>1. now' \in Nat /\ now <= now' /\ event' = NoEvent /\ UNCHANGED request
  BY DEF Tick, SummaryInv
<1>2. SummariesAreRead'
  BY <1>1 DEF SummaryInv, SummariesAreRead
<1>3. CacheIsFresh'
  <2> SUFFICES ASSUME SummaryKey \in DOMAIN store' PROVE CacheIsFresh'
    BY DEF CacheIsFresh, Holds
  <2>1. /\ SummaryKey \in DOMAIN store /\ store'[SummaryKey] = store[SummaryKey]
        /\ store[SummaryKey].expires = Never \/ store[SummaryKey].expires > now'
    BY DEF Tick, Unexpired
  <2> QED
    BY <1>1, <2>1, LimitAssumption DEF CacheIsFresh, Holds, SummaryInv, Never
<1> QED
  BY <1>1, <1>2, <1>3 DEF SummaryInv

\* The other steps neither store a summary nor answer with one.
LEMMA SummaryRest ==
    ASSUME SummaryInv, NEW s \in Slots,
           \/ Receive(s) \/ Dismiss(s) \/ LogIn(s) \/ VerifyMfa(s) \/ SelectUsers(s)
           \/ CommitUsers(s) \/ Serve(s) \/ CutOff(s)
    PROVE  SummaryInv' /\ event'.kind # "answered"
<1>1. UNCHANGED <<now, store>> /\ CacheIsFresh'
  BY FreshSame
     DEF SummaryInv, Receive, Dismiss, LogIn, VerifyMfa, SelectUsers, CommitUsers, Serve, CutOff
<1>2. CASE \E e : e.kind # "answered" /\ Respond(s, e)
  BY <1>1, <1>2, ReadIdle DEF SummaryInv
<1>3. CASE /\ event'.kind # "answered"
           /\ \E r : r.step # "store" /\ request' = [request EXCEPT ![s] = r]
  BY <1>1, <1>3, ReadBeyond DEF SummaryInv
<1>4. ASSUME Error(s) PROVE SummaryInv' /\ event'.kind # "answered"
  BY <1>2, <1>4 DEF Error, NoEvent
<1>5. CASE Receive(s)
  BY <1>3, <1>5 DEF Receive, Inputs, NoEvent
<1>6. CASE SelectUsers(s)
  <2>1. CASE /\ event' = NoEvent
             /\ request' = [request EXCEPT ![s] =
                    [step |-> "seed", created |-> Emails \ DOMAIN users]]
    BY <1>3, <2>1 DEF NoEvent
  <2> QED
    BY <1>4, <1>6, <2>1 DEF SelectUsers
<1>7. CASE Serve(s)
  <2> DEFINE r == request[s]
             served == [kind |-> "served", sub |-> r.token.sub, role |-> r.token.role,
                        path |-> r.path]
  <2>1. CASE request' = [request EXCEPT ![s] = [step |-> "lookup"]] /\ event' = served
    BY <1>3, <2>1
  <2>2. CASE Respond(s, served)
    BY <1>2, <2>2
  <2> QED
    BY <1>4, <1>7, <2>1, <2>2 DEF Serve
<1> QED
  BY <1>4, <1>5, <1>6, <1>7 DEF Dismiss, LogIn, VerifyMfa, CommitUsers, CutOff

LEMMA SummaryStutters ==
    ASSUME SummaryInv, UNCHANGED <<now, store, request>>
    PROVE  SummaryInv'
BY FreshSame DEF SummaryInv, SummariesAreRead

LEMMA SummaryStep ==
    ASSUME SummaryInv, SummaryAge, [Next]_vars
    PROVE  SummaryInv' /\ SummaryAge'
<1>1. ASSUME event'.kind # "answered" PROVE SummaryAge'
  BY <1>1 DEF SummaryAge
<1>2. NoEvent.kind # "answered"
  BY DEF NoEvent
<1>3. ASSUME NEW s \in Slots, Receive(s) \/ Dismiss(s) \/ Step(s) \/ CutOff(s)
      PROVE  SummaryInv' /\ SummaryAge'
  <2>1. CASE EnforceRateLimit(s)
    BY <1>1, <2>1, SummaryMeter
  <2>2. CASE LookUp(s)
    BY <2>2, SummaryLookUp
  <2>3. CASE ReadSummary(s)
    BY <1>1, <1>2, <2>3, SummaryRead
  <2>4. CASE StoreSummary(s)
    BY <2>4, SummaryStore
  <2>5. CASE \/ Receive(s) \/ Dismiss(s) \/ LogIn(s) \/ VerifyMfa(s) \/ SelectUsers(s)
             \/ CommitUsers(s) \/ Serve(s) \/ CutOff(s)
    BY <1>1, <2>5, SummaryRest
  <2> QED
    BY <1>3, <2>1, <2>2, <2>3, <2>4, <2>5 DEF Step
<1>4. CASE Deactivate
  <2>1. UNCHANGED <<now, store, request>> /\ event' = NoEvent
    BY <1>4 DEF Deactivate
  <2> QED
    BY <1>1, <1>2, <2>1, SummaryStutters
<1>5. CASE Tick
  BY <1>1, <1>2, <1>5, SummaryTick
<1>6. CASE UNCHANGED vars
  <2>1. UNCHANGED <<now, store, request, event>>
    BY <1>6 DEF vars
  <2> QED
    BY <2>1, SummaryStutters DEF SummaryAge
<1> QED
  BY <1>3, <1>4, <1>5, <1>6 DEF Next, Quiescent

(* redis_cache.py, dashboard.py: however computations of the summary overlap,
   whatever of Redis fails, what is answered is not older than the time to live
   and the time it took to compute. *)
THEOREM SummariesAreFresh == Spec => []SummaryAge
<1>1. Init => SummaryInv /\ SummaryAge
  BY SummaryInit
<1>2. SummaryInv /\ SummaryAge /\ [Next]_vars => (SummaryInv /\ SummaryAge)'
  BY SummaryStep
<1> QED
  BY <1>1, <1>2, PTL DEF Spec

------------------------------------------------------------------------------
(* Metering.                                                               *)

\* What was counted of an identifier in a time, by a log c of its own.
Between(c, id, first, last) == {k \in DOMAIN c : k[1] = id /\ k[2] \in first..last}
CountOf(c, id, first, last) == Total(c, Between(c, id, first, last))
InWindow(c, id, start) == CountOf(c, id, start, start + Window - 1)

WellCounted(c, time) ==
    /\ time \in Nat
    /\ IsFiniteSet(DOMAIN c)
    /\ \A k \in DOMAIN c : /\ k = <<k[1], k[2]>> /\ k[1] # SummaryKey
                           /\ k[2] \in 0..time /\ c[k] \in Nat \ {0}

\* Windows of one identifier do not overlap; each begins with a request that was
\* counted, counts no more than the limit, and what was counted is in one of them.
\* The last one goes on while Redis has the counter.
Windows(c, redis, time, id, starts) ==
    /\ starts \subseteq 0..time
    /\ \A s \in starts : <<id, s>> \in DOMAIN c /\ InWindow(c, id, s) <= LimitOf(id)
    /\ \A s, t \in starts : s < t => s + Window <= t
    /\ \A k \in DOMAIN c : k[1] = id => \E s \in starts : k[2] \in s..s + Window - 1
    /\ IF Holds(redis, id)
       THEN \E s \in starts :
               /\ redis[id].expires = s + Window /\ time < s + Window
               /\ redis[id].value \in Nat \ {0}
               /\ InWindow(c, id, s) = IF redis[id].value <= LimitOf(id)
                                       THEN redis[id].value ELSE LimitOf(id)
       ELSE \A s \in starts : s + Window <= time

AllMetered(c, redis, time) ==
    \A id : id # SummaryKey => \E starts : Windows(c, redis, time, id, starts)

RateInv == WellCounted(counted, now) /\ AllMetered(counted, store, now)

LEMMA LimitIsPositive ==
    ASSUME NEW id PROVE LimitOf(id) \in Nat \ {0} /\ Window \in Nat \ {0}
BY LimitAssumption DEF LimitOf

LEMMA BetweenIsFinite ==
    ASSUME NEW c, NEW time, WellCounted(c, time), NEW id, NEW f, NEW l
    PROVE  /\ IsFiniteSet(Between(c, id, f, l)) /\ NaturalOn(c, Between(c, id, f, l))
           /\ CountOf(c, id, f, l) \in Nat
<1>1. PICK S : S = Between(c, id, f, l)
  OBVIOUS
<1>2. S \subseteq DOMAIN c
  BY <1>1 DEF Between
<1>3. IsFiniteSet(S) /\ NaturalOn(c, S)
  BY <1>2, FS_Subset DEF WellCounted, NaturalOn
<1>4. Total(c, S) \in Nat
  BY <1>3, SumRemove
<1> QED
  BY <1>1, <1>3, <1>4 DEF CountOf

\* More time, more requests.
LEMMA CountGrows ==
    ASSUME NEW c, NEW time, WellCounted(c, time), NEW id, NEW f, NEW l, NEW S,
           S \subseteq Between(c, id, f, l)
    PROVE  Total(c, S) \in Nat /\ Total(c, S) <= CountOf(c, id, f, l)
<1>1. PICK T : T = Between(c, id, f, l)
  OBVIOUS
<1>2. IsFiniteSet(T) /\ NaturalOn(c, T)
  BY <1>1, BetweenIsFinite
<1>3. Total(c, S) \in Nat /\ Total(c, S) <= Total(c, T)
  BY <1>1, <1>2, SumOfSubset
<1> QED
  BY <1>1, <1>3 DEF CountOf

\* A request is counted once, in the times that hold it.
Logged(c, id, time) ==
    [k \in DOMAIN c \cup {<<id, time>>} |->
        IF k \notin DOMAIN c THEN 1 ELSE IF k = <<id, time>> THEN c[k] + 1 ELSE c[k]]

LEMMA LoggedIsWell ==
    ASSUME NEW c, NEW time, WellCounted(c, time), NEW id, id # SummaryKey
    PROVE  WellCounted(Logged(c, id, time), time)
<1>1. PICK d : d = Logged(c, id, time)
  OBVIOUS
<1>2. DOMAIN d = DOMAIN c \cup {<<id, time>>}
  BY <1>1 DEF Logged
<1>3. IsFiniteSet(DOMAIN d)
  <2>1. PICK D : D = DOMAIN c
    OBVIOUS
  <2>2. IsFiniteSet(D)
    BY <2>1 DEF WellCounted
  <2>3. IsFiniteSet(D \cup {<<id, time>>})
    BY <2>2, FS_AddElement
  <2> QED
    BY <1>2, <2>1, <2>3
<1>4. ASSUME NEW k \in DOMAIN d
      PROVE  k = <<k[1], k[2]>> /\ k[1] # SummaryKey /\ k[2] \in 0..time /\ d[k] \in Nat \ {0}
  <2>1. CASE k \in DOMAIN c
    BY <1>1, <1>2, <2>1 DEF WellCounted, Logged
  <2>2. CASE k = <<id, time>> /\ k \notin DOMAIN c
    BY <1>1, <1>2, <2>2 DEF WellCounted, Logged
  <2> QED
    BY <1>2, <2>1, <2>2
<1> QED
  BY <1>1, <1>3, <1>4 DEF WellCounted

LEMMA LogElsewhere ==
    ASSUME NEW c, NEW time, WellCounted(c, time), NEW id, NEW o, NEW f, NEW l,
           o # id \/ time \notin f..l
    PROVE  CountOf(Logged(c, id, time), o, f, l) = CountOf(c, o, f, l)
<1>1. PICK d : d = Logged(c, id, time)
  OBVIOUS
<1>2. PICK S : S = Between(c, o, f, l)
  OBVIOUS
<1>3. Between(d, o, f, l) = S /\ \A k \in S : d[k] = c[k]
  BY <1>1, <1>2 DEF Between, Logged
<1>4. IsFiniteSet(S)
  BY <1>2, BetweenIsFinite
<1>5. Total(d, S) = Total(c, S)
  BY <1>3, <1>4, SumEqual
<1> QED
  BY <1>1, <1>2, <1>3, <1>5 DEF CountOf

LEMMA LogCounts ==
    ASSUME NEW c, NEW time, WellCounted(c, time), NEW id, id # SummaryKey, NEW f, NEW l,
           time \in f..l
    PROVE  CountOf(Logged(c, id, time), id, f, l) = CountOf(c, id, f, l) + 1
<1>1. PICK d : d = Logged(c, id, time)
  OBVIOUS
<1>2. PICK S : S = Between(c, id, f, l)
  OBVIOUS
<1>3. PICK x : x = <<id, time>>
  OBVIOUS
<1>4. Between(d, id, f, l) = S \cup {x} /\ x[1] = id /\ x[2] = time
  BY <1>1, <1>2, <1>3 DEF Between, Logged
<1>5. WellCounted(d, time)
  BY <1>1, LoggedIsWell
<1>6. IsFiniteSet(S) /\ NaturalOn(c, S) /\ Total(c, S) \in Nat
  BY <1>2, BetweenIsFinite DEF CountOf
<1>7. IsFiniteSet(Between(d, id, f, l)) /\ NaturalOn(d, Between(d, id, f, l))
  BY <1>5, BetweenIsFinite
<1>8. CASE x \in S
  <2>1. S \cup {x} = S
    BY <1>8
  <2>2. NaturalOn(d, S)
    BY <1>4, <1>7, <2>1
  <2>3. \A y \in S : y # x => c[y] = d[y]
    BY <1>1, <1>2, <1>3 DEF Between, Logged
  <2>4. d[x] = c[x] + 1 /\ c[x] \in Nat
    BY <1>1, <1>2, <1>3, <1>6, <1>8 DEF Between, Logged, NaturalOn
  <2>5. Total(d, S) + c[x] = Total(c, S) + d[x]
    BY <1>6, <1>8, <2>2, <2>3, SumChange
  <2>6. Total(d, S) \in Nat
    BY <1>6, <2>2, SumRemove
  <2>7. Total(d, S) = Total(c, S) + 1
    BY <1>6, <2>4, <2>5, <2>6
  <2> QED
    BY <1>1, <1>2, <1>4, <2>1, <2>7 DEF CountOf
<1>9. CASE x \notin S
  <2>1. x \notin DOMAIN c
    BY <1>2, <1>3, <1>4, <1>9 DEF Between
  <2>2. d[x] = 1
    BY <1>1, <1>3, <2>1 DEF Logged
  <2>3. \A y \in S : d[y] = c[y]
    BY <1>1, <1>2, <1>3, <2>1 DEF Between, Logged
  <2>4. NaturalOn(d, S \cup {x})
    BY <1>4, <1>7
  <2>5. Total(d, S \cup {x}) = d[x] + Total(d, S)
    BY <1>6, <1>9, <2>4, SumAdd
  <2>6. Total(d, S) = Total(c, S)
    BY <1>6, <2>3, SumEqual
  <2> QED
    BY <1>1, <1>2, <1>4, <1>6, <2>2, <2>5, <2>6 DEF CountOf
<1> QED
  BY <1>8, <1>9

\* The counter of one identifier tells nothing of another.
LEMMA OthersAreMetered ==
    ASSUME NEW c, NEW redis, NEW time, WellCounted(c, time), NEW id, NEW o, o # id,
           NEW starts, Windows(c, redis, time, o, starts),
           NEW next, Holds(next, o) <=> Holds(redis, o), Holds(redis, o) => next[o] = redis[o],
           NEW d, d \in {c, Logged(c, id, time)}
    PROVE  Windows(d, next, time, o, starts)
<1>1. \A s \in starts : InWindow(d, o, s) = InWindow(c, o, s)
  BY LogElsewhere DEF InWindow
<1>2. DOMAIN c \subseteq DOMAIN d /\ DOMAIN d \subseteq DOMAIN c \cup {<<id, time>>}
  BY DEF Logged
<1>3. \A s \in starts : <<o, s>> \in DOMAIN d /\ InWindow(d, o, s) <= LimitOf(o)
  BY <1>1, <1>2 DEF Windows
<1>4. \A k \in DOMAIN d : k[1] = o => \E s \in starts : k[2] \in s..s + Window - 1
  BY <1>2 DEF Windows
<1>5. CASE Holds(redis, o)
  BY <1>1, <1>3, <1>4, <1>5 DEF Windows
<1>6. CASE ~Holds(redis, o)
  BY <1>1, <1>3, <1>4, <1>6 DEF Windows
<1> QED
  BY <1>5, <1>6

\* The first request of a window.
LEMMA WindowOpens ==
    ASSUME NEW c, NEW redis, NEW time, WellCounted(c, time), NEW id, id # SummaryKey,
           NEW starts, Windows(c, redis, time, id, starts), ~Holds(redis, id),
           NEW next, Holds(next, id), next[id] = [value |-> 1, expires |-> time + Window]
    PROVE  Windows(Logged(c, id, time), next, time, id, starts \cup {time})
<1>1. PICK d : d = Logged(c, id, time)
  OBVIOUS
<1>2. DOMAIN d = DOMAIN c \cup {<<id, time>>}
  BY <1>1 DEF Logged
<1>3. time \in Nat /\ Window \in Nat \ {0} /\ LimitOf(id) \in Nat \ {0}
  BY LimitIsPositive DEF WellCounted
<1>4. starts \subseteq 0..time /\ \A s \in starts : s \in Nat /\ s + Window <= time
  BY <1>3 DEF Windows
<1>5. ASSUME NEW s \in starts PROVE InWindow(d, id, s) = InWindow(c, id, s)
  <2>1. PICK l : l = s + Window - 1
    OBVIOUS
  <2>2. time \notin s..l
    BY <1>3, <1>4, <2>1
  <2>3. CountOf(d, id, s, l) = CountOf(c, id, s, l)
    BY <1>1, <2>2, LogElsewhere
  <2> QED
    BY <2>1, <2>3 DEF InWindow
<1>6. InWindow(d, id, time) = 1
  <2>1. PICK l : l = time + Window - 1
    OBVIOUS
  <2>2. Between(c, id, time, l) = {}
    <3> SUFFICES ASSUME NEW k \in Between(c, id, time, l) PROVE FALSE
      OBVIOUS
    <3>1. k \in DOMAIN c /\ k[1] = id /\ k[2] \in time..l /\ k[2] \in 0..time
      BY DEF Between, WellCounted
    <3>2. PICK s \in starts : k[2] \in s..s + Window - 1
      BY <3>1 DEF Windows
    <3> QED
      BY <1>3, <1>4, <3>1, <3>2
  <2>3. CountOf(c, id, time, l) = 0
    BY <2>2, SumOfNone DEF CountOf
  <2>4. time \in time..l
    BY <1>3, <2>1
  <2>5. CountOf(d, id, time, l) = 1
    BY <1>1, <2>3, <2>4, LogCounts
  <2> QED
    BY <2>1, <2>5 DEF InWindow
<1>7. PICK later : later = starts \cup {time}
  OBVIOUS
<1>8. time \in later /\ starts \subseteq later /\ \A s \in later : s \in starts \/ s = time
  BY <1>7
<1>9. later \subseteq 0..time
  BY <1>3, <1>4, <1>8
<1>10. ASSUME NEW s \in later
       PROVE  <<id, s>> \in DOMAIN d /\ InWindow(d, id, s) <= LimitOf(id)
  <2>1. CASE s \in starts
    BY <1>2, <1>5, <2>1 DEF Windows
  <2>2. CASE s = time
    BY <1>2, <1>3, <1>6, <2>2
  <2> QED
    BY <1>8, <2>1, <2>2
<1>11. \A s, t \in later : s < t => s + Window <= t
  BY <1>3, <1>4, <1>8 DEF Windows
<1>12. ASSUME NEW k \in DOMAIN d, k[1] = id
       PROVE  \E s \in later : k[2] \in s..s + Window - 1
  <2>1. CASE k \in DOMAIN c
    BY <1>8, <1>12, <2>1 DEF Windows
  <2>2. CASE k = <<id, time>>
    <3>1. k[2] = time /\ time \in time..time + Window - 1
      BY <1>3, <2>2
    <3> QED
      BY <1>8, <3>1
  <2> QED
    BY <1>2, <2>1, <2>2
<1>13. /\ next[id].expires = time + Window /\ time < time + Window
       /\ next[id].value \in Nat \ {0}
       /\ InWindow(d, id, time) = IF next[id].value <= LimitOf(id)
                                  THEN next[id].value ELSE LimitOf(id)
  BY <1>3, <1>6
<1>14. Windows(d, next, time, id, later)
  BY <1>8, <1>9, <1>10, <1>11, <1>12, <1>13 DEF Windows
<1> QED
  BY <1>1, <1>7, <1>14

\* The next request of a window: it is let through while the limit is not reached,
\* and refused only when the window is full.
LEMMA WindowFills ==
    ASSUME NEW c, NEW redis, NEW time, WellCounted(c, time), NEW id, id # SummaryKey,
           NEW starts, Windows(c, redis, time, id, starts), Holds(redis, id),
           NEW next, Holds(next, id), next[id].value = redis[id].value + 1,
           next[id].expires = redis[id].expires
    PROVE  IF next[id].value > LimitOf(id)
           THEN /\ Windows(c, next, time, id, starts)
                /\ CountOf(c, id, time - Window + 1, time) >= LimitOf(id)
           ELSE Windows(Logged(c, id, time), next, time, id, starts)
<1>1. time \in Nat /\ Window \in Nat \ {0} /\ LimitOf(id) \in Nat \ {0}
  BY LimitIsPositive DEF WellCounted
<1>2. PICK s \in starts :
         /\ redis[id].expires = s + Window /\ time < s + Window
         /\ redis[id].value \in Nat \ {0}
         /\ InWindow(c, id, s) = IF redis[id].value <= LimitOf(id)
                                 THEN redis[id].value ELSE LimitOf(id)
  BY DEF Windows
<1>3. \A t \in starts : t \in Nat /\ t <= time
  BY <1>1 DEF Windows
<1>4. PICK v \in Nat \ {0} : v = redis[id].value /\ next[id].value = v + 1
  BY <1>2
<1>5. CASE v + 1 > LimitOf(id)
  <2>1. InWindow(c, id, s) = LimitOf(id)
    BY <1>1, <1>2, <1>4, <1>5
  <2>2. Windows(c, next, time, id, starts)
    <3>1. /\ next[id].expires = s + Window /\ time < s + Window
          /\ next[id].value \in Nat \ {0} /\ ~(next[id].value <= LimitOf(id))
      BY <1>1, <1>2, <1>4, <1>5
    <3> QED
      BY <2>1, <3>1 DEF Windows
  <2>3. PICK l : l = s + Window - 1
    OBVIOUS
  <2>4. PICK f : f = time - Window + 1
    OBVIOUS
  <2>5. Between(c, id, s, l) \subseteq Between(c, id, f, time)
    <3> SUFFICES ASSUME NEW k \in DOMAIN c, k[2] \in s..l PROVE k[2] \in f..time
      BY DEF Between
    <3>1. k[2] \in 0..time
      BY DEF WellCounted
    <3> QED
      BY <1>1, <1>2, <1>3, <2>3, <2>4, <3>1
  <2>6. CountOf(c, id, s, l) <= CountOf(c, id, f, time) /\ CountOf(c, id, f, time) \in Nat
    BY <2>5, CountGrows, BetweenIsFinite DEF CountOf
  <2>7. CountOf(c, id, s, l) = LimitOf(id)
    BY <2>1, <2>3 DEF InWindow
  <2> QED
    BY <1>1, <1>4, <1>5, <2>2, <2>4, <2>6, <2>7
<1>6. CASE v + 1 <= LimitOf(id)
  <2>1. PICK d : d = Logged(c, id, time)
    OBVIOUS
  <2>2. DOMAIN d = DOMAIN c \cup {<<id, time>>}
    BY <2>1 DEF Logged
  <2>3. ASSUME NEW t \in starts, t # s PROVE InWindow(d, id, t) = InWindow(c, id, t)
    <3>1. PICK l : l = t + Window - 1
      OBVIOUS
    <3>2. (t < s => t + Window <= s) /\ (s < t => s + Window <= t)
      BY DEF Windows
    <3>3. time \notin t..l
      BY <1>1, <1>2, <1>3, <2>3, <3>1, <3>2
    <3>4. CountOf(d, id, t, l) = CountOf(c, id, t, l)
      BY <2>1, <3>3, LogElsewhere
    <3> QED
      BY <3>1, <3>4 DEF InWindow
  <2>4. InWindow(d, id, s) = v + 1
    <3>1. PICK l : l = s + Window - 1
      OBVIOUS
    <3>2. time \in s..l
      BY <1>1, <1>2, <1>3, <3>1
    <3>3. CountOf(d, id, s, l) = CountOf(c, id, s, l) + 1
      BY <2>1, <3>2, LogCounts
    <3>4. CountOf(c, id, s, l) = v
      BY <1>1, <1>2, <1>4, <1>6, <3>1 DEF InWindow
    <3> QED
      BY <3>1, <3>3, <3>4 DEF InWindow
  <2>5. \A t \in starts : <<id, t>> \in DOMAIN d /\ InWindow(d, id, t) <= LimitOf(id)
    BY <1>6, <2>2, <2>3, <2>4 DEF Windows
  <2>6. \A k \in DOMAIN d : k[1] = id => \E t \in starts : k[2] \in t..t + Window - 1
    <3>1. time \in s..s + Window - 1
      BY <1>1, <1>2, <1>3
    <3> QED
      BY <2>2, <3>1 DEF Windows
  <2>7. /\ next[id].expires = s + Window /\ time < s + Window
        /\ next[id].value = v + 1 /\ v + 1 \in Nat \ {0}
    BY <1>2, <1>4
  <2>8. Windows(d, next, time, id, starts)
    BY <1>6, <2>4, <2>5, <2>6, <2>7 DEF Windows
  <2> QED
    BY <1>1, <1>4, <1>6, <2>1, <2>8
<1> QED
  BY <1>1, <1>5, <1>6

\* Whoever is counted, everyone's windows stay what they were, or go on.
LEMMA CountingMeters ==
    ASSUME NEW c, NEW redis, NEW time, WellCounted(c, time), AllMetered(c, redis, time),
           NEW id, id # SummaryKey,
           NEW next, next = IncrWithTtl(redis, id, Window, time),
           NEW d, d = IF GetJson(next, id) > LimitOf(id) THEN c ELSE Logged(c, id, time)
    PROVE  /\ WellCounted(d, time) /\ AllMetered(d, next, time)
           /\ GetJson(next, id) > LimitOf(id)
                 => CountOf(d, id, time - Window + 1, time) >= LimitOf(id)
<1>1. /\ DOMAIN next = DOMAIN redis \cup {id}
      /\ next[id] = [value |-> IF Holds(redis, id) THEN redis[id].value + 1 ELSE 1,
                     expires |-> IF Holds(redis, id) THEN redis[id].expires ELSE time + Window]
      /\ \A o \in DOMAIN redis : o # id => next[o] = redis[o]
  BY DEF IncrWithTtl, Put, Count
<1>2. WellCounted(d, time)
  BY LoggedIsWell
<1>3. ASSUME NEW o, o # SummaryKey, o # id PROVE \E starts : Windows(d, next, time, o, starts)
  <2>1. PICK starts : Windows(c, redis, time, o, starts)
    BY <1>3 DEF AllMetered
  <2>2. (Holds(next, o) <=> Holds(redis, o)) /\ (Holds(redis, o) => next[o] = redis[o])
    BY <1>1, <1>3 DEF Holds
  <2>3. Windows(d, next, time, o, starts)
    BY <1>3, <2>1, <2>2, OthersAreMetered
  <2> QED
    BY <2>3
<1>4. PICK starts : Windows(c, redis, time, id, starts)
  BY DEF AllMetered
<1>5. Holds(next, id) /\ GetJson(next, id) = next[id].value
  BY <1>1 DEF Holds, GetJson
<1>6. /\ \E later : Windows(d, next, time, id, later)
      /\ GetJson(next, id) > LimitOf(id)
            => CountOf(d, id, time - Window + 1, time) >= LimitOf(id)
  <2>1. CASE Holds(redis, id)
    <3>1. next[id].value = redis[id].value + 1 /\ next[id].expires = redis[id].expires
      BY <1>1, <2>1
    <3>2. IF next[id].value > LimitOf(id)
          THEN /\ Windows(c, next, time, id, starts)
               /\ CountOf(c, id, time - Window + 1, time) >= LimitOf(id)
          ELSE Windows(Logged(c, id, time), next, time, id, starts)
      BY <1>4, <1>5, <2>1, <3>1, WindowFills
    <3>3. CASE next[id].value > LimitOf(id)
      BY <1>5, <3>2, <3>3
    <3>4. CASE ~(next[id].value > LimitOf(id))
      BY <1>5, <3>2, <3>4
    <3> QED
      BY <3>3, <3>4
  <2>2. CASE ~Holds(redis, id)
    <3>1. next[id] = [value |-> 1, expires |-> time + Window]
      BY <1>1, <2>2
    <3>2. Windows(Logged(c, id, time), next, time, id, starts \cup {time})
      BY <1>4, <1>5, <2>2, <3>1, WindowOpens
    <3>3. ~(GetJson(next, id) > LimitOf(id))
      BY <1>5, <3>1, LimitIsPositive
    <3> QED
      BY <3>2, <3>3
  <2> QED
    BY <2>1, <2>2
<1> QED
  BY <1>2, <1>3, <1>6 DEF AllMetered

\* A counter that Redis drops ends its window.
LEMMA TimeMeters ==
    ASSUME NEW c, NEW redis, NEW time, WellCounted(c, time), AllMetered(c, redis, time)
    PROVE  /\ WellCounted(c, time + 1)
           /\ AllMetered(c, Unexpired(redis, time + 1), time + 1)
<1>1. time \in Nat /\ Window \in Nat \ {0}
  BY LimitIsPositive DEF WellCounted
<1>2. PICK later \in Nat : later = time + 1
  BY <1>1
<1>3. PICK next : next = Unexpired(redis, later)
  OBVIOUS
<1>4. WellCounted(c, later)
  BY <1>1, <1>2 DEF WellCounted
<1>5. ASSUME NEW id, NEW starts, Windows(c, redis, time, id, starts)
      PROVE  Windows(c, next, later, id, starts)
  <2>1. \A s \in starts : s \in Nat /\ s <= time
    BY <1>1, <1>5 DEF Windows
  <2>2. starts \subseteq 0..later
    BY <1>1, <1>2, <2>1
  <2>3. CASE Holds(redis, id)
    <3>1. PICK s \in starts :
             /\ redis[id].expires = s + Window /\ time < s + Window
             /\ redis[id].value \in Nat \ {0}
             /\ InWindow(c, id, s) = IF redis[id].value <= LimitOf(id)
                                     THEN redis[id].value ELSE LimitOf(id)
      BY <1>5, <2>3 DEF Windows
    <3>2. CASE later < s + Window
      <4>1. redis[id].expires > later
        BY <3>1, <3>2, <1>1, <2>1
      <4>2. Holds(next, id) /\ next[id] = redis[id]
        BY <1>3, <2>3, <4>1 DEF Holds, Unexpired
      <4> QED
        BY <1>5, <2>2, <3>1, <3>2, <4>2 DEF Windows
    <3>3. CASE ~(later < s + Window)
      <4>1. s + Window = later /\ redis[id].expires = later
        BY <1>1, <1>2, <2>1, <3>1, <3>3
      <4>2. ~Holds(next, id)
        BY <1>2, <1>3, <4>1 DEF Holds, Unexpired, Never
      <4>3. \A t \in starts : t + Window <= later
        <5> SUFFICES ASSUME NEW t \in starts PROVE t + Window <= later
          OBVIOUS
        <5>1. (t < s => t + Window <= s) /\ (s < t => s + Window <= t)
          BY <1>5 DEF Windows
        <5> QED
          BY <1>1, <1>2, <2>1, <4>1, <5>1
      <4> QED
        BY <1>5, <2>2, <4>2, <4>3 DEF Windows
    <3> QED
      BY <3>2, <3>3
  <2>4. CASE ~Holds(redis, id)
    <3>1. ~Holds(next, id)
      BY <1>3, <2>4 DEF Holds, Unexpired
    <3>2. \A t \in starts : t + Window <= later
      <4> SUFFICES ASSUME NEW t \in starts PROVE t + Window <= later
        OBVIOUS
      <4>1. t + Window <= time
        BY <1>5, <2>4 DEF Windows
      <4> QED
        BY <1>1, <1>2, <2>1, <4>1
    <3> QED
      BY <1>5, <2>2, <3>1, <3>2 DEF Windows
  <2> QED
    BY <2>3, <2>4
<1>6. AllMetered(c, next, later)
  BY <1>5 DEF AllMetered
<1> QED
  BY <1>2, <1>3, <1>4, <1>6

\* Two windows that follow each other hold less than two limits' worth of what is
\* counted in the time of one window, from a request that was counted on: the
\* request that opened the first is not among them, unless it is that request.
LEMMA TwoLimitsAreNotReached ==
    ASSUME NEW c, NEW redis, NEW time, WellCounted(c, time), AllMetered(c, redis, time),
           NEW k \in DOMAIN c
    PROVE  CountOf(c, k[1], k[2], k[2] + Window - 1) < 2 * LimitOf(k[1])
<1>1. PICK id, t : id = k[1] /\ t = k[2] /\ k = <<id, t>> /\ id # SummaryKey
  BY DEF WellCounted
<1>2. time \in Nat /\ Window \in Nat \ {0} /\ LimitOf(id) \in Nat \ {0}
  BY LimitIsPositive DEF WellCounted
<1>3. PICK starts : Windows(c, redis, time, id, starts)
  BY <1>1 DEF AllMetered
<1>4. ASSUME NEW s \in starts PROVE s \in Nat /\ CountOf(c, id, s, s + Window - 1) <= LimitOf(id)
  <2>1. s \in 0..time /\ InWindow(c, id, s) <= LimitOf(id)
    BY <1>3 DEF Windows
  <2> QED
    BY <1>2, <2>1 DEF InWindow
<1>5. PICK s \in starts : t \in s..s + Window - 1
  BY <1>1, <1>3 DEF Windows
<1>6. t \in Nat /\ s \in Nat
  BY <1>1, <1>4 DEF WellCounted
<1>7. PICK l : l = t + Window - 1
  OBVIOUS
<1>8. PICK m : m = s + Window - 1
  OBVIOUS
<1>9. PICK n \in Nat : n = CountOf(c, id, t, l)
  BY BetweenIsFinite
<1>10. PICK lim \in Nat \ {0} : lim = LimitOf(id)
  BY <1>2
<1>11. CountOf(c, id, s, m) <= lim
  BY <1>4, <1>8, <1>10
<1>12. CASE t = s
  <2>1. CountOf(c, id, t, l) <= lim
    BY <1>7, <1>8, <1>11, <1>12
  <2>2. n < 2 * lim
    BY <1>9, <1>10, <2>1
  <2> QED
    BY <1>1, <1>7, <1>9, <1>10, <2>2
<1>13. CASE t # s
  <2>1. s < t /\ t <= m /\ m < l /\ m + 1 = s + Window /\ l < m + Window
    BY <1>2, <1>5, <1>6, <1>7, <1>8, <1>13
  <2>2. PICK A : A = Between(c, id, t, m)
    OBVIOUS
  <2>3. PICK B : B = Between(c, id, m + 1, l)
    OBVIOUS
  <2>4. IsFiniteSet(A) /\ NaturalOn(c, A) /\ Total(c, A) \in Nat
    BY <2>2, BetweenIsFinite DEF CountOf
  <2>5. IsFiniteSet(B) /\ NaturalOn(c, B) /\ Total(c, B) \in Nat
    BY <2>3, BetweenIsFinite DEF CountOf
  <2>6. Total(c, A) < lim
    <3> DEFINE x == <<id, s>>
    <3>1. x[1] = id /\ x[2] = s
      OBVIOUS
    <3>2. x \in DOMAIN c /\ x \notin A /\ c[x] \in Nat \ {0}
      <4>1. x \in DOMAIN c
        BY <1>3, <3>1 DEF Windows
      <4>2. ~(s \in t..m)
        BY <1>6, <2>1
      <4> QED
        BY <2>2, <3>1, <4>1, <4>2 DEF WellCounted, Between
    <3>3. A \cup {x} \subseteq Between(c, id, s, m)
      <4>1. x \in Between(c, id, s, m)
        BY <1>6, <2>1, <3>1, <3>2, <1>2, <1>8 DEF Between
      <4>2. A \subseteq Between(c, id, s, m)
        <5> SUFFICES ASSUME NEW a \in A PROVE a \in Between(c, id, s, m)
          OBVIOUS
        <5>1. a \in DOMAIN c /\ a[1] = id /\ a[2] \in t..m
          BY <2>2 DEF Between
        <5>2. a[2] \in s..m
          BY <1>6, <2>1, <5>1
        <5> QED
          BY <5>1, <5>2 DEF Between
      <4> QED
        BY <4>1, <4>2
    <3>4. Total(c, A \cup {x}) \in Nat /\ Total(c, A \cup {x}) <= CountOf(c, id, s, m)
      <4>1. PICK U : U = A \cup {x}
        OBVIOUS
      <4>2. Total(c, U) \in Nat /\ Total(c, U) <= CountOf(c, id, s, m)
        BY <3>3, <4>1, CountGrows
      <4> QED
        BY <4>1, <4>2
    <3>5. NaturalOn(c, A \cup {x})
      BY <2>4, <3>2 DEF NaturalOn
    <3>6. Total(c, A \cup {x}) = c[x] + Total(c, A)
      BY <2>4, <3>2, <3>5, SumAdd
    <3>7. CountOf(c, id, s, m) \in Nat
      BY BetweenIsFinite
    <3> QED
      BY <1>10, <1>11, <2>4, <3>2, <3>4, <3>6, <3>7
  <2>7. Total(c, B) <= lim
    <3>1. CASE B = {}
      BY <1>10, <3>1, SumOfNone
    <3>2. CASE B # {}
      <4>1. \A b \in B : b \in DOMAIN c /\ b[1] = id /\ b[2] \in m + 1..l /\ b[2] \in Nat
        BY <2>3 DEF Between, WellCounted
      <4>2. \A b \in B : \E r \in starts : b[2] \in r..r + Window - 1 /\ m + 1 <= r
        <5> SUFFICES ASSUME NEW b \in B
                     PROVE  \E r \in starts : b[2] \in r..r + Window - 1 /\ m + 1 <= r
          OBVIOUS
        <5>1. PICK r \in starts : b[2] \in r..r + Window - 1
          BY <1>3, <4>1 DEF Windows
        <5>2. (s < r => s + Window <= r) /\ (r < s => r + Window <= s)
          BY <1>3 DEF Windows
        <5>3. r \in Nat /\ b[2] \in Nat /\ m + 1 <= b[2]
          BY <1>4, <4>1, <1>2, <1>6, <2>1
        <5>4. m + 1 <= r
          BY <1>2, <1>6, <1>8, <5>1, <5>2, <5>3
        <5> QED
          BY <5>1, <5>4
      <4>3. PICK a \in B : TRUE
        BY <3>2
      <4>4. PICK r \in starts : a[2] \in r..r + Window - 1 /\ m + 1 <= r
        BY <4>2, <4>3
      <4>5. PICK e : e = r + Window - 1
        OBVIOUS
      <4>6. B \subseteq Between(c, id, r, e)
        <5> SUFFICES ASSUME NEW b \in B PROVE b \in Between(c, id, r, e)
          OBVIOUS
        <5>1. PICK q \in starts : b[2] \in q..q + Window - 1 /\ m + 1 <= q
          BY <4>2
        <5>2. (q < r => q + Window <= r) /\ (r < q => r + Window <= q)
          BY <1>3 DEF Windows
        <5>3. q \in Nat /\ r \in Nat /\ a[2] <= l /\ b[2] <= l /\ a[2] \in Nat /\ b[2] \in Nat
          BY <1>4, <4>1, <4>3, <1>2, <1>6, <1>7, <1>8
        <5>4. q = r
          BY <1>2, <1>6, <2>1, <4>4, <5>1, <5>2, <5>3, <1>7, <1>8
        <5> QED
          BY <4>1, <4>5, <5>1, <5>4 DEF Between
      <4>7. Total(c, B) <= CountOf(c, id, r, e) /\ CountOf(c, id, r, e) \in Nat
        BY <4>6, CountGrows, BetweenIsFinite
      <4>8. CountOf(c, id, r, e) <= lim
        BY <1>4, <1>10, <4>5
      <4> QED
        BY <1>10, <2>5, <4>7, <4>8
    <3> QED
      BY <3>1, <3>2
  <2>8. Between(c, id, t, l) = A \cup B /\ A \cap B = {}
    <3>1. \A i \in Nat : (i \in t..l <=> (i \in t..m \/ i \in m + 1..l))
                         /\ ~(i \in t..m /\ i \in m + 1..l)
      BY <1>2, <1>6, <1>7, <1>8, <2>1
    <3>2. \A x \in DOMAIN c : x[2] \in Nat
      BY DEF WellCounted
    <3> QED
      BY <2>2, <2>3, <3>1, <3>2 DEF Between
  <2>9. NaturalOn(c, A \cup B)
    BY <2>4, <2>5 DEF NaturalOn
  <2>10. Total(c, A \cup B) = Total(c, A) + Total(c, B)
    BY <2>4, <2>5, <2>8, <2>9, SumOfUnion
  <2>11. n = Total(c, A) + Total(c, B)
    BY <1>9, <2>8, <2>10 DEF CountOf
  <2>12. n < 2 * lim
    BY <1>10, <2>4, <2>5, <2>6, <2>7, <2>11
  <2> QED
    BY <1>1, <1>7, <1>9, <1>10, <2>12
<1> QED
  BY <1>12, <1>13

\* Who is refused has used up a window's worth of requests in the last window.
RefusedInFull ==
    event.kind = "refused" =>
        CountOf(counted, event.id, now - Window + 1, now) >= LimitOf(event.id)

LEMMA RateInit == Init => RateInv /\ RefusedInFull
<1> SUFFICES ASSUME Init PROVE RateInv /\ RefusedInFull
  OBVIOUS
<1>1. now = 0 /\ counted = <<>> /\ store = <<>> /\ event.kind # "refused"
  BY DEF Init, Empty, NoEvent
<1>2. DOMAIN counted = {} /\ DOMAIN store = {}
  BY <1>1
<1>3. WellCounted(counted, now)
  BY <1>1, <1>2, FS_EmptySet DEF WellCounted
<1>4. ASSUME NEW id PROVE Windows(counted, store, now, id, {})
  BY <1>1, <1>2 DEF Windows, Holds
<1> QED
  BY <1>1, <1>3, <1>4 DEF RateInv, AllMetered, RefusedInFull

\* What is stored under other keys tells nothing of the counters.
LEMMA SameCounters ==
    ASSUME NEW c, NEW redis, NEW time, AllMetered(c, redis, time), NEW next,
           \A o : o # SummaryKey => /\ Holds(next, o) <=> Holds(redis, o)
                                    /\ Holds(redis, o) => next[o] = redis[o]
    PROVE  AllMetered(c, next, time)
<1> SUFFICES ASSUME NEW id, id # SummaryKey PROVE \E starts : Windows(c, next, time, id, starts)
  BY DEF AllMetered
<1>1. PICK starts : Windows(c, redis, time, id, starts)
  BY DEF AllMetered
<1>2. (Holds(next, id) <=> Holds(redis, id)) /\ (Holds(redis, id) => next[id] = redis[id])
  OBVIOUS
<1>3. CASE Holds(redis, id)
  BY <1>1, <1>2, <1>3 DEF Windows
<1>4. CASE ~Holds(redis, id)
  BY <1>1, <1>2, <1>4 DEF Windows
<1> QED
  BY <1>3, <1>4

LEMMA RateIncrement ==
    ASSUME RateInv, UNCHANGED now, NEW r, Increment(Identifier(r))
    PROVE  /\ RateInv'
           /\ GetJson(store', Identifier(r)) > LimitOf(Identifier(r)) =>
                 CountOf(counted, Identifier(r), now - Window + 1, now) >= LimitOf(Identifier(r))
                 /\ counted' = counted
<1>1. PICK id : id = Identifier(r)
  OBVIOUS
<1>2. id # SummaryKey
  BY <1>1 DEF Identifier, Bucket, SummaryKey
<1>3. PICK next : next = store'
  OBVIOUS
<1>4. PICK d : d = counted'
  OBVIOUS
<1>5. /\ next = IncrWithTtl(store, id, Window, now)
      /\ d = IF GetJson(next, id) > LimitOf(id) THEN counted ELSE Logged(counted, id, now)
  BY <1>1, <1>3, <1>4 DEF Increment, Log, Logged
<1>6. /\ WellCounted(d, now) /\ AllMetered(d, next, now)
      /\ GetJson(next, id) > LimitOf(id)
            => CountOf(d, id, now - Window + 1, now) >= LimitOf(id)
  BY <1>2, <1>5, CountingMeters DEF RateInv
<1> QED
  BY <1>1, <1>3, <1>4, <1>5, <1>6 DEF RateInv

LEMMA RateMeter ==
    ASSUME RateInv, NEW s \in Slots, EnforceRateLimit(s)
    PROVE  RateInv' /\ RefusedInFull'
<1> DEFINE r == request[s]
<1>1. UNCHANGED now
  BY DEF EnforceRateLimit
<1>2. CASE Increment(Identifier(r)) /\ GetJson(store', Identifier(r)) > LimitOf(Identifier(r))
           /\ Respond(s, [kind |-> "refused", id |-> Identifier(r)])
  <2>1. PICK id : id = Identifier(r)
    OBVIOUS
  <2>2. event' = [kind |-> "refused", id |-> id]
    BY <1>2, <2>1 DEF Respond
  <2>3. /\ RateInv' /\ counted' = counted
        /\ CountOf(counted, id, now - Window + 1, now) >= LimitOf(id)
    BY <1>1, <1>2, <2>1, RateIncrement
  <2> QED
    BY <1>1, <2>2, <2>3 DEF RefusedInFull
<1>3. CASE Increment(Identifier(r)) /\ event' = NoEvent
  BY <1>1, <1>3, RateIncrement DEF RefusedInFull, NoEvent
<1>4. CASE UNCHANGED <<store, counted>> /\ event' = NoEvent
  BY <1>1, <1>4 DEF RateInv, RefusedInFull, NoEvent
<1> QED
  BY <1>2, <1>3, <1>4 DEF EnforceRateLimit, Error, Respond, Goto

\* The summary has a key of its own.
LEMMA RateStoreSummary ==
    ASSUME RateInv, NEW s \in Slots, StoreSummary(s)
    PROVE  RateInv' /\ event'.kind # "refused"
<1>1. UNCHANGED <<now, counted>> /\ event'.kind # "refused"
  BY DEF StoreSummary, logVars, Respond, Answered
<1>2. PICK next : next = store'
  OBVIOUS
<1>3. \A o : o # SummaryKey => /\ Holds(next, o) <=> Holds(store, o)
                               /\ Holds(store, o) => next[o] = store[o]
  <2>1. CASE store' = store
    BY <1>2, <2>1
  <2>2. CASE \E v : store' = SetJson(store, SummaryKey, v, SummaryTtl, now)
    BY <1>2, <2>2 DEF SetJson, Put, Holds
  <2> QED
    BY <2>1, <2>2 DEF StoreSummary
<1>4. AllMetered(counted, next, now)
  BY <1>3, SameCounters DEF RateInv
<1> QED
  BY <1>1, <1>2, <1>4 DEF RateInv

LEMMA RateTick ==
    ASSUME RateInv, Tick
    PROVE  RateInv' /\ event'.kind # "refused"
<1>1. PICK next : next = store'
  OBVIOUS
<1>2. next = Unexpired(store, now + 1) /\ now' = now + 1 /\ counted' = counted
      /\ event' = NoEvent
  BY <1>1 DEF Tick, logVars
<1>3. WellCounted(counted, now + 1) /\ AllMetered(counted, next, now + 1)
  BY <1>2, TimeMeters DEF RateInv
<1> QED
  BY <1>1, <1>2, <1>3 DEF RateInv, NoEvent

\* The other steps count nothing.
LEMMA RateRest ==
    ASSUME RateInv, NEW s \in Slots,
           \/ Receive(s) \/ Dismiss(s) \/ LogIn(s) \/ VerifyMfa(s) \/ SelectUsers(s)
           \/ CommitUsers(s) \/ Serve(s) \/ LookUp(s) \/ ReadSummary(s) \/ CutOff(s)
    PROVE  RateInv' /\ event'.kind # "refused"
<1>1. UNCHANGED <<now, store, counted>>
  BY DEF Receive, Dismiss, LogIn, VerifyMfa, SelectUsers, CommitUsers, Serve, LookUp,
         ReadSummary, CutOff, logVars
<1>2. event'.kind # "refused"
  BY DEF Receive, Dismiss, LogIn, VerifyMfa, SelectUsers, CommitUsers, Serve, LookUp,
         ReadSummary, CutOff, Respond, Error, Goto, NoEvent, Answered
<1> QED
  BY <1>1, <1>2 DEF RateInv

LEMMA RateStep ==
    ASSUME RateInv, RefusedInFull, [Next]_vars
    PROVE  RateInv' /\ RefusedInFull'
<1>1. ASSUME event'.kind # "refused" PROVE RefusedInFull'
  BY <1>1 DEF RefusedInFull
<1>2. ASSUME NEW s \in Slots, Receive(s) \/ Dismiss(s) \/ Step(s) \/ CutOff(s)
      PROVE  RateInv' /\ RefusedInFull'
  <2>1. CASE EnforceRateLimit(s)
    BY <2>1, RateMeter
  <2>2. CASE StoreSummary(s)
    BY <1>1, <2>2, RateStoreSummary
  <2>3. CASE \/ Receive(s) \/ Dismiss(s) \/ LogIn(s) \/ VerifyMfa(s) \/ SelectUsers(s)
             \/ CommitUsers(s) \/ Serve(s) \/ LookUp(s) \/ ReadSummary(s) \/ CutOff(s)
    BY <1>1, <2>3, RateRest
  <2> QED
    BY <1>2, <2>1, <2>2, <2>3 DEF Step
<1>3. CASE Deactivate
  <2>1. UNCHANGED <<now, store, counted>> /\ event'.kind # "refused"
    BY <1>3 DEF Deactivate, logVars, NoEvent
  <2> QED
    BY <1>1, <2>1 DEF RateInv
<1>4. CASE Tick
  BY <1>1, <1>4, RateTick
<1>5. CASE UNCHANGED vars
  BY <1>5 DEF RateInv, RefusedInFull, vars, logVars
<1> QED
  BY <1>2, <1>3, <1>4, <1>5 DEF Next, Quiescent

LEMMA RateInvLimits == RateInv /\ RefusedInFull => RateLimited
<1> SUFFICES ASSUME RateInv, RefusedInFull PROVE RateLimited
  OBVIOUS
<1>1. \A id, f, l : CountedBetween(id, f, l) = CountOf(counted, id, f, l)
  BY DEF CountedBetween, CountOf, Between, Total
<1>2. ASSUME NEW k \in DOMAIN counted
      PROVE  CountedBetween(k[1], k[2], k[2] + Window - 1) < 2 * LimitOf(k[1])
  <2>1. CountOf(counted, k[1], k[2], k[2] + Window - 1) < 2 * LimitOf(k[1])
    BY TwoLimitsAreNotReached DEF RateInv
  <2> QED
    BY <1>1, <2>1
<1> QED
  BY <1>1, <1>2 DEF RateLimited, RefusedInFull

(* rate_limit.py, incr_with_ttl: for every limit and window, whatever Redis fails
   to answer and however slots interleave, whoever is refused has used up the
   limit within the last window, and nobody gets two limits' worth of requests
   through in any window. *)
THEOREM RatesAreLimited == Spec => []RateLimited
<1>1. Init => RateInv /\ RefusedInFull
  BY RateInit
<1>2. RateInv /\ RefusedInFull /\ [Next]_vars => (RateInv /\ RefusedInFull)'
  BY RateStep
<1> QED
  BY <1>1, <1>2, RateInvLimits, PTL DEF Spec
=============================================================================
