---------------------------- MODULE CacheChannel ----------------------------
(***************************************************************************)
(* One cache channel on one node: server events are sent to the members    *)
(* and kept for late subscribers until they expire.  Subscribing, leaving, *)
(* dispatching (from the HTTP API and from the bus) and the GC of empty     *)
(* cache channels interleave; dispatching does not take the transition lock.*)
(*                                                                         *)
(* A payload is the number of the publication; zero is none.               *)
(***************************************************************************)
EXTENDS Naturals, Sequences, FiniteSets

CONSTANTS
    Client,     \* connections
    Object,     \* allocations of Channel
    Batches,    \* requests: sequences of TRUE (valid event) and FALSE
    MaxEvents   \* bound on the events of all requests together

Publisher == {"api", "bus"}
NoObject == "no object"
Free == "free"
NoPayload == [event |-> 0, age |-> "none"]

ASSUME CacheConstants ==
    /\ NoObject \notin Object
    /\ Client \cap (Publisher \cup {"gc"}) = {}
    /\ Batches \subseteq Seq(BOOLEAN) \ {<<>>}
    /\ MaxEvents \in Nat

VARIABLES
    chanOf,     \* the channel that the map holds
    entry,      \* who holds the map entry
    member,     \* member[o]: the members of a channel
    payload,    \* payload[o]: its cached payload
    notified,   \* notified[o]: when its last cache_miss webhook was sent
    at,         \* at[t]: where a client, a publisher or the GC is
    hit,        \* hit[s]: the payload found when s subscribed
    target,     \* target[p]: the channel that publisher p works on
    submitted,      \* submitted[p]: the events that p has still to dispatch
    events,     \* events numbered so far
    seen,       \* seen[s]: the last server event that s received
    heard,      \* clients that received a client event
    misses,     \* history: cache_miss webhooks since the last publish, up to two
    recreated,  \* history: the channel was created again after one of them
    current,    \* history: the last event published, until it expires
    alone,      \* history: publishers that ran without another
    crossing,   \* history: the last publications overlapped
    lost,       \* history: the last payload was stored in a dropped channel
    overlap     \* history: clients that subscribed while a publisher was at work,
                \* or that the last event excepted

store == <<chanOf, entry, member, payload, notified>>
dispatching == <<target, submitted, events>>
outcome == <<misses, recreated, current, alone, crossing, lost, overlap>>
cacheVars == <<store, at, hit, dispatching, seen, heard, outcome>>

CacheInit ==
    /\ chanOf = NoObject
    /\ entry = Free
    /\ member = [o \in Object |-> {}]
    /\ payload = [o \in Object |-> NoPayload]
    /\ notified = [o \in Object |-> "never"]
    /\ at = [t \in Client \cup Publisher \cup {"gc"} |-> IF t \in Client THEN "out" ELSE "idle"]
    /\ hit = [s \in Client |-> 0]
    /\ target = [p \in Publisher |-> NoObject]
    /\ submitted = [p \in Publisher |-> <<>>]
    /\ events = 0
    /\ seen = [s \in Client |-> 0]
    /\ heard = {}
    /\ misses = 0
    /\ recreated = FALSE
    /\ current = 0
    /\ alone = {}
    /\ crossing = FALSE
    /\ lost = FALSE
    /\ overlap = {}

AtWork == {p \in Publisher : at[p] \in {"found", "sent"}}

\* A channel that neither the map nor a publisher refers to.
Spare == {o \in Object : o # chanOf /\ \A p \in Publisher : target[p] # o}

\* The channel of the map, a new one if there is none.
OrInsert == IF chanOf # NoObject THEN chanOf ELSE CHOOSE o \in Spare : TRUE

\* A new channel has no payload and no notification behind it.
Renewed(f, fresh) == IF chanOf # NoObject THEN f ELSE [f EXCEPT ![OrInsert] = fresh]

(***************************************************************************)
(* Subscribing: join, look the payload up, replay it or report the miss    *)
(***************************************************************************)

\* subscribe_with holds the map entry until the payload has been read.
Subscribe(s) ==
    /\ at[s] = "out"
    /\ entry = Free
    /\ chanOf # NoObject \/ Spare # {}
    /\ chanOf' = OrInsert
    /\ entry' = s
    /\ member' = [member EXCEPT ![OrInsert] = @ \cup {s}]
    /\ payload' = Renewed(payload, NoPayload)
    /\ notified' = Renewed(notified, "never")
    /\ recreated' = (recreated \/ (chanOf = NoObject /\ misses > 0))
    /\ overlap' = IF AtWork # {} THEN overlap \cup {s} ELSE overlap \ {s}
    /\ at' = [at EXCEPT ![s] = "joined"]
    /\ UNCHANGED <<hit, dispatching, seen, heard, misses, current, alone, crossing, lost>>

\* cached_payload: read; an expired payload is dropped under the write lock,
\* unless a publisher has replaced it meanwhile.
CachedPayload(s) ==
    /\ at[s] \in {"joined", "expired"}
    /\ LET stale == payload[chanOf].age = "stale"
           recheck == at[s] = "expired"
           found == payload[chanOf].age = "fresh"
       IN  IF stale /\ ~recheck
           THEN /\ at' = [at EXCEPT ![s] = "expired"]
                /\ UNCHANGED <<entry, payload, hit>>
           ELSE /\ at' = [at EXCEPT ![s] = IF found THEN "replay" ELSE "miss"]
                /\ hit' = [hit EXCEPT ![s] = IF found THEN payload[chanOf].event ELSE 0]
                /\ payload' = IF stale THEN [payload EXCEPT ![chanOf] = NoPayload] ELSE payload
                /\ entry' = Free
    /\ UNCHANGED <<chanOf, member, notified, dispatching, seen, heard, outcome>>

\* The hit is queued to the client.
Replay(s) ==
    /\ at[s] = "replay"
    /\ seen' = [seen EXCEPT ![s] = hit[s]]
    /\ hit' = [hit EXCEPT ![s] = 0]
    /\ at' = [at EXCEPT ![s] = "in"]
    /\ UNCHANGED <<store, dispatching, heard, outcome>>

\* Mutant of ClaimCacheMiss: every miss is notified.
ClaimAlways(o) == TRUE

\* claim_cache_miss_notification
ClaimCacheMiss(o) == notified[o] # "recent"

\* The channel is looked up again; the claim and the webhook, then the frame.
CacheMiss(s) ==
    /\ at[s] = "miss"
    /\ entry = Free
    /\ IF chanOf # NoObject /\ ClaimCacheMiss(chanOf)
       THEN /\ notified' = [notified EXCEPT ![chanOf] = "recent"]
            /\ misses' = IF misses < 2 THEN misses + 1 ELSE misses
       ELSE UNCHANGED <<notified, misses>>
    /\ at' = [at EXCEPT ![s] = "in"]
    /\ UNCHANGED <<chanOf, entry, member, payload, hit, dispatching, seen, heard,
                   recreated, current, alone, crossing, lost, overlap>>

(***************************************************************************)
(* Leaving, and the GC: a channel without members or payload goes          *)
(***************************************************************************)

Unsubscribe(s) ==
    /\ at[s] = "in"
    /\ entry = Free
    /\ member' = [member EXCEPT ![chanOf] = @ \ {s}]
    /\ seen' = [seen EXCEPT ![s] = 0]
    /\ heard' = heard \ {s}
    /\ overlap' = overlap \ {s}
    /\ at' = [at EXCEPT ![s] = "reap"]
    /\ UNCHANGED <<chanOf, entry, payload, notified, hit, dispatching,
                   misses, recreated, current, alone, crossing, lost>>

GcEmptyCacheChannels ==
    /\ at["gc"] = "idle"
    /\ at' = [at EXCEPT !["gc"] = "reap"]
    /\ UNCHANGED <<store, hit, dispatching, seen, heard, outcome>>

\* Mutant of Stale: the write lock does not look again.
StaleBlindly(o, recheck) == recheck \/ payload[o].age = "stale"

\* Whether the payload is found expired, at first and under the write lock.
Stale(o, recheck) == payload[o].age = "stale"

\* Mutant of Keeps: only the members count.
KeepsForMembers(o, dropped) == member[o] # {}

\* Whether the map keeps the channel.
Keeps(o, dropped) == member[o] # {} \/ (~dropped /\ payload[o].age # "none")

\* remove_if: the entry is held while the payload is looked at, twice if it
\* has expired.
Reap(t) ==
    /\ at[t] \in {"reap", "reapExpired"}
    /\ LET recheck == at[t] = "reapExpired"
           done == IF t = "gc" THEN "idle" ELSE "out"
       IN  /\ IF recheck THEN entry = t ELSE entry = Free
           /\ IF chanOf = NoObject \/ member[chanOf] # {}
              THEN /\ at' = [at EXCEPT ![t] = done]
                   /\ entry' = Free
                   /\ UNCHANGED <<chanOf, payload>>
              ELSE IF Stale(chanOf, recheck) /\ ~recheck
              THEN /\ at' = [at EXCEPT ![t] = "reapExpired"]
                   /\ entry' = t
                   /\ UNCHANGED <<chanOf, payload>>
              ELSE LET dropped == Stale(chanOf, recheck) IN
                   /\ at' = [at EXCEPT ![t] = done]
                   /\ entry' = Free
                   /\ payload' = IF dropped THEN [payload EXCEPT ![chanOf] = NoPayload] ELSE payload
                   /\ chanOf' = IF Keeps(chanOf, dropped) THEN chanOf ELSE NoObject
    /\ UNCHANGED <<member, notified, hit, dispatching, seen, heard, outcome>>

(***************************************************************************)
(* Publishing                                                              *)
(***************************************************************************)

\* validate_event_payload for every event of the batch.
Accepted(b) == \A i \in DOMAIN b : b[i]

\* publish_event, publish_batch_events: all events are checked first.
Request(b) ==
    LET numbers == [i \in DOMAIN b |-> events + i] IN
    /\ at["api"] = "idle"
    /\ events + Len(b) <= MaxEvents
    /\ events' = events + Len(b)
    /\ IF Accepted(b)
       THEN submitted' = [submitted EXCEPT !["api"] = numbers] /\ at' = [at EXCEPT !["api"] = "next"]
       ELSE UNCHANGED <<submitted, at>>
    /\ UNCHANGED <<store, hit, target, seen, heard, outcome>>

\* A peer's event arrives over the bus.
BusMessage ==
    /\ at["bus"] = "idle"
    /\ events < MaxEvents
    /\ events' = events + 1
    /\ submitted' = [submitted EXCEPT !["bus"] = <<events + 1>>]
    /\ at' = [at EXCEPT !["bus"] = "next"]
    /\ UNCHANGED <<store, hit, target, seen, heard, outcome>>

\* get_or_create_cache_channel: the channel is cloned out of the map.
FindChannel(p) ==
    /\ at[p] = "next"
    /\ entry = Free
    /\ chanOf # NoObject \/ Spare # {}
    /\ chanOf' = OrInsert
    /\ target' = [target EXCEPT ![p] = OrInsert]
    /\ payload' = Renewed(payload, NoPayload)
    /\ notified' = Renewed(notified, "never")
    /\ member' = Renewed(member, {})
    /\ recreated' = (recreated \/ (chanOf = NoObject /\ misses > 0))
    /\ alone' = IF AtWork = {} THEN {p} ELSE {}
    /\ overlap' = overlap \cup {s \in Client : at[s] \in {"joined", "expired", "replay", "miss"}}
    /\ at' = [at EXCEPT ![p] = "found"]
    /\ UNCHANGED <<entry, hit, submitted, events, seen, heard, misses, current, crossing, lost>>

\* The socket that a request may name: its own, which does not get the event.
Excepted == {{}} \cup {{s} : s \in Client}

\* Channel::broadcast, first half: the members of this moment.
SendToMembers(p, except) ==
    LET reached == member[target[p]] \ except IN
    /\ at[p] = "found"
    /\ seen' = [s \in Client |-> IF s \in reached THEN Head(submitted[p]) ELSE seen[s]]
    /\ overlap' = overlap \cup (member[target[p]] \cap except)
    /\ at' = [at EXCEPT ![p] = "sent"]
    /\ UNCHANGED <<store, hit, dispatching, heard, misses, recreated, current, alone, crossing, lost>>

\* Second half, set_cached_payload; then the event goes to the peers.
SetCachedPayload(p) ==
    LET o == target[p] IN
    /\ at[p] = "sent"
    /\ payload' = [payload EXCEPT ![o] = [event |-> Head(submitted[p]), age |-> "fresh"]]
    /\ notified' = [notified EXCEPT ![o] = "never"]
    /\ misses' = 0
    /\ recreated' = FALSE
    /\ current' = Head(submitted[p])
    /\ lost' = (o # chanOf)
    /\ crossing' = (p \notin alone)
    /\ overlap' = IF p \in alone THEN overlap \ {s \in Client : at[s] = "in" /\ seen[s] = Head(submitted[p])} ELSE overlap
    /\ submitted' = [submitted EXCEPT ![p] = Tail(@)]
    /\ target' = [target EXCEPT ![p] = NoObject]
    /\ at' = [at EXCEPT ![p] = IF Len(submitted[p]) = 1 THEN "idle" ELSE "next"]
    /\ UNCHANGED <<chanOf, entry, member, hit, events, seen, heard, alone>>

\* broadcast_client_event keeps nothing.
Cached == payload

\* handle_client_event of a member: relayed to the others and to the peers.
ClientEvent(s) ==
    /\ at[s] = "in"
    /\ entry = Free
    /\ heard' = heard \cup (member[chanOf] \ {s})
    /\ payload' = Cached
    /\ UNCHANGED <<chanOf, entry, member, notified, at, hit, dispatching, seen, outcome>>

(***************************************************************************)
(* Time                                                                    *)
(***************************************************************************)

\* The TTL passes; far longer than a publication takes.
ExpirePayload(o) ==
    /\ payload[o].age = "fresh"
    /\ AtWork = {}
    /\ payload' = [payload EXCEPT ![o].age = "stale"]
    /\ current' = IF current = payload[o].event THEN 0 ELSE current
    /\ UNCHANGED <<chanOf, entry, member, notified, at, hit, dispatching, seen, heard,
                   misses, recreated, alone, crossing, lost, overlap>>

\* CACHE_MISS_WEBHOOK_INTERVAL passes.  The webhooks are counted afresh, unless
\* the channel of the map has sent one since.
Rearm(o) ==
    LET later == chanOf \in Object \ {o} /\ notified[chanOf] = "recent" IN
    /\ notified[o] = "recent"
    /\ notified' = [notified EXCEPT ![o] = "long ago"]
    /\ misses' = IF later THEN misses ELSE 0
    /\ recreated' = (recreated /\ later)
    /\ UNCHANGED <<chanOf, entry, member, payload, at, hit, dispatching, seen, heard,
                   current, alone, crossing, lost, overlap>>

CacheNext ==
    \/ \E s \in Client : Subscribe(s) \/ CachedPayload(s) \/ Replay(s) \/ CacheMiss(s) \/ Unsubscribe(s)
    \/ \E s \in Client : ClientEvent(s)
    \/ GcEmptyCacheChannels
    \/ \E t \in Client \cup {"gc"} : Reap(t)
    \/ \E b \in Batches : Request(b)
    \/ BusMessage
    \/ \E p \in Publisher : FindChannel(p) \/ SetCachedPayload(p)
    \/ \E p \in Publisher, except \in Excepted : SendToMembers(p, except)
    \/ \E o \in Object : ExpirePayload(o) \/ Rearm(o)

CacheSpec == CacheInit /\ [][CacheNext]_cacheVars

(***************************************************************************)
(* Properties                                                              *)
(***************************************************************************)

\* Nothing is being published, and what was published last neither overlapped
\* with another publication nor went to a channel that the GC dropped while the
\* publisher held it.
Undisturbed == AtWork = {} /\ ~crossing /\ ~lost

\* An event stays available to late subscribers until it expires: neither the
\* last member's leave, nor the GC, nor the dropping of an older, expired payload,
\* nor a client event removes it.
KeptForLateSubscribers ==
    Undisturbed /\ current # 0 =>
        chanOf # NoObject /\ payload[chanOf] = [event |-> current, age |-> "fresh"]

\* A client that subscribed while nothing was being published has the current
\* event, from the cache or live.
SubscribersAreCurrent ==
    Undisturbed /\ current # 0 =>
        \A s \in Client : at[s] = "in" /\ s \notin overlap => seen[s] = current

\* Several clients that hit an empty channel produce one cache_miss webhook, until
\* a publish or the interval re-arms it, or the channel is created again after the
\* webhook: the new Channel does not know of it.
MissIsReportedOnce == ~recreated => misses <= 1

\* One empty period yields one cache_miss webhook, whatever becomes of the channel
\* meanwhile: no second one goes out before a publish or the interval has passed.
OncePerEmptyPeriod == misses <= 1
=============================================================================
