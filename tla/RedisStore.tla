----------------------------- MODULE RedisStore ------------------------------
(***************************************************************************)
(* Redis as redis_cache.py uses it: a store is a function from its keys to *)
(* a value and the time at which it expires.  Redis drops a key when its   *)
(* time comes.                                                             *)
(***************************************************************************)
EXTENDS Integers

Never == -1
Empty == <<>>

Holds(store, key) == key \in DOMAIN store
Put(store, key, value, expires) ==
    [k \in DOMAIN store \cup {key} |->
        IF k = key THEN [value |-> value, expires |-> expires] ELSE store[k]]

\* The keys that are left at the time now.
Unexpired(store, now) ==
    [k \in {j \in DOMAIN store : store[j].expires = Never \/ store[j].expires > now} |-> store[k]]

GetJson(store, key) == store[key].value

\* It would be wrong to leave out the expiry, or to keep that of an earlier value.
SetForGood(store, key, value, ttl, now) == Put(store, key, value, Never)
SetJson(store, key, value, ttl, now) == Put(store, key, value, now + ttl)

\* INCR keeps the expiry of a key; EXPIRE NX sets one only if there is none.
\* Without NX every call would prolong the window.
Count(store, key) == IF Holds(store, key) THEN store[key].value + 1 ELSE 1
IncrAndExpire(store, key, ttl, now) == Put(store, key, Count(store, key), now + ttl)
IncrWithTtl(store, key, ttl, now) ==
    Put(store, key, Count(store, key),
        IF Holds(store, key) THEN store[key].expires ELSE now + ttl)
=============================================================================
