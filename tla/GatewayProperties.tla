-------------------------- MODULE GatewayProperties --------------------------
(* What the gateway, auth-service and the cached dashboard promise. *)
EXTENDS Gateway, FiniteSetsExt

CountedBetween(id, first, last) ==
    MapThenSumSet(LAMBDA k : counted[k],
                  {k \in DOMAIN counted : k[1] = id /\ k[2] \in first..last})

(* rate_limit.py, incr_with_ttl: whoever is refused has had a full window's
   worth of requests within the last window, so that waiting one window always
   helps; and nobody gets two windows' worth of requests through in any window.
   (The window starts with a request; it is not the rolling one of
   rate_limit.py:11, or it would be one window's worth.) *)
RateLimited ==
    /\ event.kind = "refused" =>
           CountedBetween(event.id, now - Window + 1, now) >= LimitOf(event.id)
    /\ \A k \in DOMAIN counted :
           CountedBetween(k[1], k[2], k[2] + Window - 1) < 2 * LimitOf(k[1])

(* auth.py, auth_middleware.py, jwt_shared.py: a service serves a user only
   within the lifetime of a session that a code has opened, itself within the
   lifetime of what a password has opened; with the role the user has; and a
   user who is deactivated is served no longer than a session lasts. *)
OnlyVerifiedSessions ==
    event.kind = "served" =>
        /\ \E v \in verifications, l \in logins :
              /\ v.sub = event.sub /\ now - AccessTtl < v.at
              /\ l.sub = event.sub /\ l.at <= v.at /\ v.at - BridgeTtl < l.at
        /\ event.role = RoleOf[event.sub] /\ event.role \in Allowed(event.path)
        /\ users[event.sub] = Never \/ now < users[event.sub] + AccessTtl

(* redis_cache.py cached, dashboard.py: a summary is never older than its time
   to live and the time it took to compute, however computations overlap and
   whenever Redis fails. *)
SummaryAge ==
    event.kind = "answered" => now - event.asOf < SummaryTtl + event.took
=============================================================================
