---------------------------- MODULE Connections -----------------------------
(***************************************************************************)
(* The connections of one app on one node, from the upgrade request to the *)
(* cleanup: the registry with its quota, the connection loop with its      *)
(* outbound queue, the reload of the apps table and the draining of the    *)
(* node.                                                                   *)
(*                                                                         *)
(* What a frame makes the server do to channels and users is the subject   *)
(* of PresenceChannel, CacheChannel and UserSessions; Keepalive has the    *)
(* pings.                                                                  *)
(***************************************************************************)
EXTENDS Naturals, Sequences, FiniteSets

CONSTANTS
    Conn,           \* connections that are ever attempted
    Key,            \* the app keys that clients present
    OriginOf,       \* OriginOf[c]: the origin that c comes from
    Table,          \* apps tables: the app's key and its allowed origins
    MaxConnections, \* the app's quota
    QueueCap,       \* capacity of the outbound queue
    MaxAttempts,    \* the rate limiter's frames per window
    TerminateOnLimit

Gone == [key |-> "removed", origins |-> {}]
Bad == [key |-> "unreadable", origins |-> {}]

ASSUME ConnectionConstants ==
    /\ IsFiniteSet(Conn)
    /\ MaxConnections \in Nat /\ QueueCap \in Nat \ {0} /\ MaxAttempts \in Nat
    /\ TerminateOnLimit \in BOOLEAN

VARIABLES
    conf,       \* the live apps table
    file,       \* the table that the file on disk describes
    changed,    \* the file is newer than the last successful reload
    reload,     \* what apply_apps_reload still has to do
    draining,   \* the shutdown signal
    restartFile,\* the restart file: older than the process or absent, or touched since
    phase,      \* phase[c]: where connection c is
    openedAs,   \* openedAs[c]: the key that c was opened with
    registry,   \* ChannelManager's connections
    tracker,    \* ConnectionTracker
    outq,       \* outq[c]: the outbound queue
    kick,       \* kick[c]: the kick signal
    stalled,    \* stalled[c]: the client has stopped reading
    stamps,     \* stamps[c]: frames inside the rate limiter's window
    straddled   \* history: connections that upgraded while the table was replaced

config == <<conf, file, changed, reload>>
conns == <<openedAs, registry, tracker>>
stop == <<draining, restartFile>>
traffic == <<outq, kick, stalled, stamps>>
connVars == <<config, stop, phase, conns, traffic, straddled>>

NoReload == [revoked |-> FALSE, origins |-> FALSE]
NoKey == "no key"

ConnInit ==
    /\ conf \in Table \ {Gone}
    /\ file = conf
    /\ changed = FALSE
    /\ reload = NoReload
    /\ draining = FALSE
    /\ restartFile = "old"
    /\ phase = [c \in Conn |-> "none"]
    /\ openedAs = [c \in Conn |-> NoKey]
    /\ registry = {}
    /\ tracker = {}
    /\ outq = [c \in Conn |-> <<>>]
    /\ kick = [c \in Conn |-> FALSE]
    /\ stalled = [c \in Conn |-> FALSE]
    /\ stamps = [c \in Conn |-> 0]
    /\ straddled = {}

Enter(c, p) == phase' = [phase EXCEPT ![c] = p]

\* What is recorded about a connection ends with it.
Forget(c) ==
    /\ openedAs' = [openedAs EXCEPT ![c] = NoKey]
    /\ straddled' = straddled \ {c}

(***************************************************************************)
(* Upgrade and registration                                                *)
(***************************************************************************)

OriginAllowed(c, t) == OriginOf[c] \in t.origins

\* ws_upgrade: a draining node refuses, and so do an unknown key, a protocol version
\* that is not supported and a blocked origin.
WsUpgrade(c, k, supported) ==
    /\ phase[c] = "none"
    /\ IF draining \/ conf.key # k \/ ~supported \/ ~OriginAllowed(c, conf)
       THEN Enter(c, "refused") /\ UNCHANGED openedAs
       ELSE Enter(c, "upgraded") /\ openedAs' = [openedAs EXCEPT ![c] = k]
    /\ UNCHANGED <<config, stop, registry, tracker, traffic, straddled>>

\* register_connection, first half: the connection is in the map before the
\* quota is looked at.
RegisterInsert(c) ==
    /\ phase[c] = "upgraded"
    /\ registry' = registry \cup {c}
    /\ Enter(c, "inserted")
    /\ UNCHANGED <<config, stop, openedAs, tracker, traffic, straddled>>

\* Mutant of OverQuota: off by one.
OverQuotaLate(r) == Cardinality(r) > MaxConnections + 1

\* Whether the map holds more connections than the app allows.
OverQuota(r) == Cardinality(r) > MaxConnections

\* Second half; then the tracker, or the close frame 4004.
RegisterCheck(c) ==
    /\ phase[c] = "inserted"
    /\ IF OverQuota(registry)
       THEN registry' = registry \ {c} /\ Enter(c, "refused") /\ Forget(c) /\ UNCHANGED tracker
       ELSE tracker' = tracker \cup {c} /\ Enter(c, "greeting") /\ UNCHANGED <<registry, openedAs, straddled>>
    /\ UNCHANGED <<config, stop, traffic>>

\* connection_established is written, or the socket is dead.
Greet(c) ==
    /\ phase[c] = "greeting"
    /\ \/ Enter(c, "open") /\ UNCHANGED <<conns, straddled>>
       \/ /\ Enter(c, "closed") /\ Forget(c)
          /\ tracker' = tracker \ {c}
          /\ registry' = registry \ {c}
    /\ UNCHANGED <<config, stop, traffic>>

(***************************************************************************)
(* The connection loop                                                     *)
(***************************************************************************)

\* RateLimiter::check
WithinLimit(c) == stamps[c] < MaxAttempts

\* A frame of the client: rate limit, then the handler; its answer is
\* written at once, and a failed write ends the loop.
InboundFrame(c) ==
    /\ phase[c] = "open"
    /\ stamps' = IF WithinLimit(c) THEN [stamps EXCEPT ![c] = @ + 1] ELSE stamps
    /\ \/ Enter(c, IF ~WithinLimit(c) /\ TerminateOnLimit THEN "leaving" ELSE "open")
       \/ stalled[c] /\ Enter(c, "leaving")
    /\ UNCHANGED <<config, stop, conns, outq, kick, stalled, straddled>>

\* A close frame of the client, an error or the end of the stream.
StreamEnds(c) ==
    /\ phase[c] = "open"
    /\ Enter(c, "leaving")
    /\ UNCHANGED <<config, stop, conns, traffic, straddled>>

\* The window of the rate limiter moves past the oldest frame.
WindowSlides(c) ==
    /\ stamps[c] > 0
    /\ phase[c] = "open"
    /\ stamps' = [stamps EXCEPT ![c] = @ - 1]
    /\ UNCHANGED <<config, stop, phase, conns, outq, kick, stalled, straddled>>

\* The loop takes a message from the outbound queue.
TakeOutbound(c) ==
    /\ phase[c] = "open"
    /\ outq[c] # <<>>
    /\ outq' = [outq EXCEPT ![c] = Tail(@)]
    /\ Enter(c, IF Head(outq[c]) = "close" THEN "leaving" ELSE "writing")
    /\ UNCHANGED <<config, stop, conns, kick, stalled, stamps, straddled>>

WriteDone(c) ==
    /\ phase[c] = "writing"
    /\ ~stalled[c]
    /\ Enter(c, "open")
    /\ UNCHANGED <<config, stop, conns, traffic, straddled>>

\* Mutant of WriteTimeout: a write waits for the client for ever.
WriteForever(c) == FALSE /\ UNCHANGED connVars

\* WRITE_TIMEOUT
WriteTimeout(c) ==
    /\ phase[c] = "writing"
    /\ stalled[c]
    /\ Enter(c, "leaving")
    /\ UNCHANGED <<config, stop, conns, traffic, straddled>>

\* The kick ends the loop, also inside a write.
TakeKick(c) ==
    /\ phase[c] \in {"open", "writing"}
    /\ kick[c]
    /\ kick' = [kick EXCEPT ![c] = FALSE]
    /\ Enter(c, "leaving")
    /\ UNCHANGED <<config, stop, conns, outq, stalled, stamps, straddled>>

\* Mutant of TakeDrain: the loop has no such branch.
TakeDrainNever(c) == FALSE /\ UNCHANGED connVars

\* Draining ends the loop with 1001, also inside a write.
TakeDrain(c) ==
    /\ phase[c] \in {"open", "writing"}
    /\ draining
    /\ Enter(c, "leaving")
    /\ UNCHANGED <<config, stop, conns, traffic, straddled>>

\* After the loop: the tracker first, then cleanup_connection.
Untrack(c) ==
    /\ phase[c] = "leaving"
    /\ tracker' = tracker \ {c}
    /\ Enter(c, "cleanup")
    /\ UNCHANGED <<config, stop, openedAs, registry, traffic, straddled>>

\* cleanup_connection; afterwards the connection and its queue are dropped.
CleanupConnection(c) ==
    /\ phase[c] = "cleanup"
    /\ registry' = registry \ {c}
    /\ outq' = [outq EXCEPT ![c] = <<>>]
    /\ kick' = [kick EXCEPT ![c] = FALSE]
    /\ stalled' = [stalled EXCEPT ![c] = FALSE]
    /\ stamps' = [stamps EXCEPT ![c] = 0]
    /\ Enter(c, "closed") /\ Forget(c)
    /\ UNCHANGED <<config, stop, tracker>>

\* ConnectionHandle::try_send to the connections of a set: a full queue kicks,
\* a closed one ignores.
TrySend(cs, msg) ==
    LET live == {c \in cs : phase[c] # "closed"}
        fits(c) == Len(outq[c]) < QueueCap
    IN  /\ outq' = [c \in Conn |-> IF c \in live /\ fits(c) THEN Append(outq[c], msg) ELSE outq[c]]
        /\ kick' = [c \in Conn |-> IF c \in live /\ ~fits(c) THEN TRUE ELSE kick[c]]

\* Broadcasts and user events reach registered connections.
Push(c) ==
    /\ c \in registry
    /\ phase[c] \in {"open", "writing"}
    /\ TrySend({c}, "text")
    /\ UNCHANGED <<config, stop, phase, conns, stalled, stamps, straddled>>

\* A terminate request, from the API or a peer, closes what it finds.
TerminateConnection(c) ==
    /\ c \in registry
    /\ phase[c] \in {"open", "writing"}
    /\ TrySend({c}, "close")
    /\ UNCHANGED <<config, stop, phase, conns, stalled, stamps, straddled>>

\* The client stops reading.
Stall(c) ==
    /\ phase[c] \in {"open", "writing"}
    /\ ~stalled[c]
    /\ stalled' = [stalled EXCEPT ![c] = TRUE]
    /\ UNCHANGED <<config, stop, phase, conns, outq, kick, stamps, straddled>>

(***************************************************************************)
(* Reload of the apps table, and draining                                  *)
(***************************************************************************)

EditFile(t) ==
    /\ t # file
    /\ file' = t
    /\ changed' = TRUE
    /\ UNCHANGED <<conf, reload, stop, phase, conns, traffic, straddled>>

\* Mutant of Revoked: only a removed app loses its connections.
RevokedIfRemoved(old, new) == old # Gone /\ new = Gone

\* Whether the new table removes or re-keys the app.
Revoked(old, new) == old # Gone /\ new.key # old.key

OriginsChanged(old, new) ==
    /\ old # Gone
    /\ new.key = old.key
    /\ new.origins # old.origins

\* watch_config_apps: the tick that finds the file newer than the last reload
\* that succeeded.  One task reloads and applies, one file after the other.
FileIsNewer == changed /\ reload = NoReload

\* reload_apps_with: the table is replaced at once; an unreadable file leaves
\* the table, and is tried again at the next tick.
ReloadApps ==
    /\ FileIsNewer
    /\ file # Bad
    /\ conf' = file
    /\ changed' = FALSE
    /\ reload' = [revoked |-> Revoked(conf, file), origins |-> OriginsChanged(conf, file)]
    /\ straddled' = straddled \cup {c \in Conn : phase[c] \in {"upgraded", "inserted"}}
    /\ UNCHANGED <<file, stop, phase, conns, traffic>>

\* apply_apps_reload: connections of a revoked app, by the registry; of a
\* forbidden origin, by the tracker.
ApplyAppsReload ==
    /\ reload # NoReload
    /\ TrySend(IF reload.revoked THEN registry
               ELSE {c \in tracker : ~OriginAllowed(c, conf)}, "close")
    /\ reload' = NoReload
    /\ UNCHANGED <<conf, file, changed, stop, phase, conns, stalled, stamps, straddled>>

\* shutdown_now: every connection loop learns of it.
ShutdownNow == draining' = TRUE

\* A signal of the operating system.
ShutdownSignal ==
    /\ ~draining
    /\ ShutdownNow
    /\ UNCHANGED <<config, restartFile, phase, conns, traffic, straddled>>

\* The restart command touches the restart file.
Restart ==
    /\ restartFile = "old"
    /\ restartFile' = "touched"
    /\ UNCHANGED <<config, draining, phase, conns, traffic, straddled>>

\* restart_signal_watcher: a file touched since the start drains the node; one
\* left by an earlier restart does not.
RestartSignalWatcher ==
    /\ ~draining
    /\ restartFile = "touched"
    /\ ShutdownNow
    /\ UNCHANGED <<config, restartFile, phase, conns, traffic, straddled>>

ConnNext ==
    \/ \E c \in Conn :
        \/ \E k \in Key, supported \in BOOLEAN : WsUpgrade(c, k, supported)
        \/ RegisterInsert(c) \/ RegisterCheck(c) \/ Greet(c)
        \/ InboundFrame(c) \/ StreamEnds(c) \/ WindowSlides(c)
        \/ TakeOutbound(c) \/ WriteDone(c) \/ WriteTimeout(c) \/ TakeKick(c) \/ TakeDrain(c)
        \/ Untrack(c) \/ CleanupConnection(c)
        \/ Push(c) \/ TerminateConnection(c) \/ Stall(c)
    \/ \E t \in Table \cup {Bad} : EditFile(t)
    \/ ReloadApps \/ ApplyAppsReload
    \/ ShutdownSignal \/ Restart \/ RestartSignalWatcher

ConnSpec == ConnInit /\ [][ConnNext]_connVars

\* The tasks of the server go on: the watcher polls, a write ends or times out,
\* and select! picks among its ready branches at random, so no branch is passed
\* over for ever.
ConnFairness ==
    /\ WF_connVars(RestartSignalWatcher)
    /\ \A c \in Conn :
        /\ WF_connVars(RegisterInsert(c)) /\ WF_connVars(RegisterCheck(c)) /\ WF_connVars(Greet(c))
        /\ SF_connVars(TakeOutbound(c)) /\ WF_connVars(WriteDone(c)) /\ WF_connVars(WriteTimeout(c))
        /\ SF_connVars(TakeKick(c)) /\ SF_connVars(TakeDrain(c))
        /\ WF_connVars(Untrack(c)) /\ WF_connVars(CleanupConnection(c))

(***************************************************************************)
(* Properties                                                              *)
(***************************************************************************)

Serving(c) == phase[c] \in {"greeting", "open", "writing"}

\* The server has told the connection loop to end.
ToldToClose(c) == kick[c] \/ \E i \in DOMAIN outq[c] : outq[c][i] = "close"

\* However registrations race, no more connections are served than the quota
\* allows, and closed ones are not counted against it.
QuotaHolds ==
    /\ Cardinality({c \in Conn : Serving(c)}) <= MaxConnections
    /\ \A c \in Conn : phase[c] \in {"closed", "refused"} => c \notin registry \cup tracker

\* Once a reload has been applied, every connection that is still served belongs
\* to an app, a key and an origin of the new table, or has been told to close.
\* Excluded: connections whose upgrade read the old table and which were not yet
\* tracked when it was replaced.
ReloadClosesRevoked ==
    reload = NoReload =>
        \A c \in Conn \ straddled :
            Serving(c) /\ ~ToldToClose(c) =>
                conf.key = openedAs[c] /\ OriginAllowed(c, conf)

\* A connection told to close is cleaned up, even if its client does not read.
CloseIsCarriedOut == \A c \in Conn : (ToldToClose(c) /\ Serving(c)) ~> phase[c] = "closed"

\* Draining, also by the restart file, reaches every connection, also one that
\* upgraded before it began.
DrainClosesAll ==
    \A c \in Conn :
        /\ draining \/ restartFile = "touched"
        /\ phase[c] \in {"upgraded", "inserted", "greeting", "open", "writing"}
        ~> phase[c] \in {"closed", "refused"}
=============================================================================
