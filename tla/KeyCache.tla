------------------------------- MODULE KeyCache -------------------------------
(***************************************************************************)
(* The server's copy of the provider's signing keys.  Requests with an id   *)
(* token share the copy; one attempt at a time fetches it, a fetch may be   *)
(* slow or fail, and the provider publishes and withdraws keys meanwhile.   *)
(***************************************************************************)
EXTENDS Integers, FiniteSets

CONSTANTS
    Requests,     \* requests the server may handle at once
    NoRequest,
    Ttl,          \* how long cached keys are good for
    Cooldown,     \* how long an attempt to fetch keys holds off the next
    FetchLimit,   \* how long a fetch may take before it times out
    KeyHorizon,   \* bound: the last second
    MaxKeys       \* bound: keys the provider publishes

VARIABLES
    clock,     \* the clock, in seconds
    keys,      \* the provider's keys: when each is published and withdrawn
    cached,    \* the server's copy, and when its fetch ended
    attempt,   \* when the last attempt to fetch ended
    fetching,  \* the request that holds the refresh mutex
    request,   \* where each request is
    failed     \* the last attempt to fetch failed

keysVars == <<clock, keys, cached, attempt, fetching, request, failed>>
copyVars == <<cached, attempt, fetching, failed>>

Never == KeyHorizon + Ttl + FetchLimit + 1
(* A request that was answered; the server serves no request at first. *)
Done(k, ok) == [at |-> "done", key |-> k, accepted |-> ok]
NoKeys == [keys |-> {}, at |-> -Never]

Kids == 1 .. MaxKeys
Published == {k \in DOMAIN keys : keys[k].until = Never}

KeysInit ==
    /\ clock = 0
    /\ keys = [k \in {1} |-> [from |-> 0, until |-> Never]]
    /\ cached = NoKeys /\ attempt = -Never /\ fetching = NoRequest /\ failed = FALSE
    /\ request = [p \in Requests |-> Done(0, FALSE)]

----------------------------------------------------------------------------
(* The provider's keys. *)

PublishKey ==
    /\ Cardinality(DOMAIN keys) < MaxKeys
    /\ keys' = [k \in 1 .. Cardinality(DOMAIN keys) + 1 |->
                 IF k \in DOMAIN keys THEN keys[k] ELSE [from |-> clock, until |-> Never]]
    /\ UNCHANGED <<clock, copyVars, request>>

WithdrawKey(k) ==
    /\ k \in Published
    /\ keys' = [keys EXCEPT ![k].until = clock]
    /\ UNCHANGED <<clock, copyVars, request>>

----------------------------------------------------------------------------
(* The server. *)

Freshness(force) == IF force THEN Cooldown ELSE Ttl

(* `cached_jwks' under an age. *)
CachedWithin_AnyAge(age) == cached.at >= 0
CachedWithin(age) == clock - cached.at < age

CoolingDown == clock - attempt < Cooldown

Asking(k, force) == [at |-> "lookup", key |-> k, force |-> force]

(* With keys in hand: the token's key is among them, or is asked for once   *)
(* more by force, or the request is refused.                                *)
Forces_Never(r) == FALSE
Forces(r) == ~r.force
Decided(r, ks) ==
    IF r.key \in ks THEN Done(r.key, TRUE)
    ELSE IF Forces(r) THEN Asking(r.key, TRUE) ELSE Done(r.key, FALSE)

(* Anyone may present a token: one the provider signed with a key of its   *)
(* own, or one signed by nobody it knows (key 0).                           *)
Present(p) ==
    /\ request[p].at = "done"
    /\ \E k \in DOMAIN keys \cup {0} :
        request' = [request EXCEPT ![p] = Asking(k, FALSE)]
    /\ UNCHANGED <<clock, keys, copyVars>>

Lookup(p) ==
    /\ request[p].at = "lookup"
    /\ request' = [request EXCEPT ![p] =
            IF CachedWithin(Freshness(request[p].force))
            THEN Decided(request[p], cached.keys)
            ELSE [request[p] EXCEPT !.at = "queued"]]
    /\ UNCHANGED <<clock, keys, copyVars>>

(* With the mutex: the cache again, then the cooldown, then a fetch. *)
Enter(p) ==
    /\ request[p].at = "queued" /\ fetching = NoRequest
    /\ LET r == request[p]
       IN  \/ /\ CachedWithin(Freshness(r.force))
              /\ request' = [request EXCEPT ![p] = Decided(r, cached.keys)]
              /\ UNCHANGED fetching
           \/ /\ ~CachedWithin(Freshness(r.force)) /\ CoolingDown
              /\ request' = [request EXCEPT ![p] =
                    IF CachedWithin(Ttl) THEN Decided(r, cached.keys) ELSE Done(r.key, FALSE)]
              /\ UNCHANGED fetching
           \/ /\ ~CachedWithin(Freshness(r.force)) /\ ~CoolingDown
              /\ request' = [request EXCEPT ![p] =
                    [at |-> "fetching", key |-> r.key, force |-> r.force, since |-> clock]]
              /\ fetching' = p
    /\ UNCHANGED <<clock, keys, cached, attempt, failed>>

(* The provider answers with the keys it has; the answer takes its time. *)
Serve(p) ==
    /\ request[p].at = "fetching"
    /\ request' = [request EXCEPT ![p] =
            [at |-> "served", key |-> request[p].key, force |-> request[p].force,
             since |-> request[p].since, keys |-> Published]]
    /\ UNCHANGED <<clock, keys, copyVars>>

Fetched(p) ==
    /\ request[p].at = "served"
    /\ cached' = [keys |-> request[p].keys, at |-> clock]
    /\ attempt' = clock /\ fetching' = NoRequest /\ failed' = FALSE
    /\ request' = [request EXCEPT ![p] = Decided(request[p], request[p].keys)]
    /\ UNCHANGED <<clock, keys>>

(* A failed fetch leaves the old copy alone, and counts as an attempt. *)
FetchFailed(p) ==
    /\ request[p].at \in {"fetching", "served"}
    /\ attempt' = clock /\ fetching' = NoRequest /\ failed' = TRUE
    /\ request' = [request EXCEPT ![p] = Done(request[p].key, FALSE)]
    /\ UNCHANGED <<clock, keys, cached>>

----------------------------------------------------------------------------

KeysTick ==
    /\ clock < KeyHorizon
    /\ \A p \in Requests :
        request[p].at \in {"fetching", "served"} => clock < request[p].since + FetchLimit
    /\ clock' = clock + 1
    /\ UNCHANGED <<keys, copyVars, request>>

Handle(p) == Lookup(p) \/ Enter(p) \/ Serve(p) \/ Fetched(p) \/ FetchFailed(p)

KeysNext ==
    \/ KeysTick \/ PublishKey
    \/ \E k \in Kids : WithdrawKey(k)
    \/ \E p \in Requests : Present(p) \/ Handle(p)

KeysSpec == KeysInit /\ [][KeysNext]_keysVars

----------------------------------------------------------------------------
(* Properties. *)

Settled(p) == request[p].at # "done" /\ request'[p].at = "done"

(* A token signed with a key the provider has published for as long as the  *)
(* cooldown and a slow fetch is refused only when the last attempt to fetch *)
(* keys failed: a rotation must not produce fifteen minutes of 401s         *)
(* (auth.rs:196), whatever requests share the refresh.                      *)
NewKeySeen ==
    [][\A p \in Requests :
        LET k == request'[p].key
        IN  (/\ Settled(p) /\ k \in Published /\ ~failed'
             /\ keys[k].from + Cooldown + FetchLimit <= clock)
            => request'[p].accepted]_keysVars

(* The server lets nobody in with a key that was withdrawn longer ago than  *)
(* a copy of the keys lives and a fetch takes, however many fetches fail.   *)
WithdrawnKeyEnds ==
    [][\A p \in Requests :
        (Settled(p) /\ request'[p].accepted)
        => clock < keys[request'[p].key].until + Ttl + FetchLimit]_keysVars

=============================================================================
