---------------------------- MODULE NodeProofs ------------------------------
(***************************************************************************)
(* What one node does on its own, in four parts: the quota and the reload  *)
(* of its connections, for every finite set of connections, every quota    *)
(* and queue capacity, and every set of apps tables; the keepalive, for    *)
(* every ping interval and every grace of at least two maintenance         *)
(* periods; the answer of a fleet-wide query, for every finite set of      *)
(* peers and every number of queries and users; and what a cache channel   *)
(* keeps for late subscribers, for every number of clients, of requests    *)
(* and of events in them.                                                  *)
(***************************************************************************)
EXTENDS Connections, Keepalive, MetricsQuery, CacheChannel, FiniteSetTheorems, TLAPS

Registered == {"inserted", "greeting", "open", "writing", "leaving", "cleanup"}
Tracked == {"greeting", "open", "writing", "leaving"}
Phases == Registered \cup {"none", "refused", "upgraded", "closed"}

ConnTypeOK ==
    /\ phase \in [Conn -> Phases]
    /\ openedAs \in [Conn -> Key \cup {NoKey}]
    /\ registry \subseteq Conn
    /\ tracker \subseteq Conn
    /\ outq \in [Conn -> Seq({"text", "close"})]
    /\ kick \in [Conn -> BOOLEAN]
    /\ reload \in [revoked : BOOLEAN, origins : BOOLEAN]

\* The registry and the tracker hold a connection exactly while its task is
\* between the calls that enter and remove it.
Books ==
    \A c \in Conn :
        /\ c \in registry <=> phase[c] \in Registered
        /\ c \in tracker <=> phase[c] \in Tracked

Served == {c \in Conn : Serving(c)}
WithinQuota == Cardinality(Served) <= MaxConnections

Covered(c) == conf.key = openedAs[c] /\ OriginAllowed(c, conf)

\* What a connection not told to close may still lack is what the reload under
\* way is about to act on.
Awaited(c) == Covered(c) \/ reload.revoked \/ (reload.origins /\ conf.key = openedAs[c])

InOrder(c) ==
    /\ phase[c] \in {"upgraded", "inserted"} => Covered(c)
    /\ Serving(c) /\ ~ToldToClose(c) => Awaited(c)

ReloadInv == \A c \in Conn \ straddled : InOrder(c)

ConnInv == ConnTypeOK /\ Books /\ WithinQuota /\ ReloadInv

(***************************************************************************)
(* try_send                                                                *)
(***************************************************************************)

\* try_send keeps the types, takes back no order to close, and tells every
\* receiver of a close frame to close, by the frame or by the kick.
LEMMA TrySendTells ==
    ASSUME ConnTypeOK, NEW cs \in SUBSET Conn, NEW msg \in {"text", "close"},
           TrySend(cs, msg)
    PROVE  /\ outq' \in [Conn -> Seq({"text", "close"})]
           /\ kick' \in [Conn -> BOOLEAN]
           /\ \A c \in Conn : ToldToClose(c) => ToldToClose(c)'
           /\ msg = "close" => \A c \in cs : phase[c] # "closed" => ToldToClose(c)'
<1> DEFINE live == {c \in cs : phase[c] # "closed"}
           fits(c) == Len(outq[c]) < QueueCap
<1>1. /\ outq' = [c \in Conn |-> IF c \in live /\ fits(c) THEN Append(outq[c], msg) ELSE outq[c]]
      /\ kick' = [c \in Conn |-> IF c \in live /\ ~fits(c) THEN TRUE ELSE kick[c]]
  BY Zenon DEF TrySend
<1>2. outq' \in [Conn -> Seq({"text", "close"})]
  BY <1>1 DEF ConnTypeOK
<1>3. kick' \in [Conn -> BOOLEAN]
  BY Zenon, <1>1 DEF ConnTypeOK
<1>4. ASSUME NEW c \in Conn, ToldToClose(c) PROVE ToldToClose(c)'
  <2>1. CASE kick[c]
    BY Zenon, <1>1, <2>1 DEF ToldToClose
  <2>2. CASE \E i \in DOMAIN outq[c] : outq[c][i] = "close"
    <3> PICK i \in DOMAIN outq[c] : outq[c][i] = "close"
      BY Zenon, <2>2
    <3>1. outq[c] \in Seq({"text", "close"})
      BY Zenon DEF ConnTypeOK
    <3>2. i \in DOMAIN outq[c]' /\ outq[c]'[i] = "close"
      BY <1>1, <3>1
    <3> QED
      BY Zenon, <3>2 DEF ToldToClose
  <2> QED
    BY Zenon, <1>4, <2>1, <2>2 DEF ToldToClose
<1>5. ASSUME msg = "close", NEW c \in cs, phase[c] # "closed" PROVE ToldToClose(c)'
  <2>1. CASE fits(c)
    <3>1. outq[c] \in Seq({"text", "close"})
      BY Zenon DEF ConnTypeOK
    <3>2. outq'[c] = Append(outq[c], "close")
      BY Zenon, <1>1, <1>5, <2>1
    <3>3. Len(outq'[c]) \in DOMAIN outq'[c] /\ outq'[c][Len(outq'[c])] = "close"
      BY <3>1, <3>2
    <3> QED
      BY Zenon, <3>3 DEF ToldToClose
  <2>2. CASE ~fits(c)
    BY Zenon, <1>1, <1>5, <2>2 DEF ToldToClose
  <2> QED
    BY Zenon, <2>1, <2>2
<1> QED
  BY Zenon, <1>2, <1>3, <1>4, <1>5

(***************************************************************************)
(* Registry and tracker                                                    *)
(***************************************************************************)

\* Every step of the upgrade, the loop and the cleanup keeps the books.
LEMMA BooksStep ==
    ASSUME ConnTypeOK, Books, [ConnNext]_connVars
    PROVE  ConnTypeOK' /\ Books'
<1> USE DEF ConnTypeOK, Books, Phases, Registered, Tracked, config, stop, conns, traffic
<1>1. ASSUME NEW c \in Conn, NEW k \in Key, NEW v, WsUpgrade(c, k, v) PROVE ConnTypeOK' /\ Books'
  <2>1. \/ Enter(c, "refused") /\ UNCHANGED openedAs
        \/ Enter(c, "upgraded") /\ openedAs' = [openedAs EXCEPT ![c] = k]
    BY Zenon, <1>1 DEF WsUpgrade
  <2>2. phase[c] = "none" /\ UNCHANGED <<registry, tracker, outq, kick, reload>>
    BY Zenon, <1>1 DEF WsUpgrade
  <2>3. openedAs' \in [Conn -> Key \cup {NoKey}]
    BY Zenon, <2>1
  <2>4. phase' = [phase EXCEPT ![c] = "refused"] \/ phase' = [phase EXCEPT ![c] = "upgraded"]
    BY Zenon, <2>1 DEF Enter
  <2> QED
    BY ZenonT(60), <2>2, <2>3, <2>4
<1>2. ASSUME NEW c \in Conn, RegisterInsert(c) PROVE ConnTypeOK' /\ Books'
  BY Zenon, <1>2 DEF RegisterInsert, Enter
<1>3. ASSUME NEW c \in Conn, RegisterCheck(c) PROVE ConnTypeOK' /\ Books'
  <2>1. phase[c] = "inserted" /\ UNCHANGED <<outq, kick, reload>>
    BY Zenon, <1>3 DEF RegisterCheck
  <2>2. openedAs' \in [Conn -> Key \cup {NoKey}]
    BY Zenon, <1>3 DEF RegisterCheck, Forget
  <2>3. \/ /\ phase' = [phase EXCEPT ![c] = "refused"]
           /\ registry' = registry \ {c} /\ UNCHANGED tracker
        \/ /\ phase' = [phase EXCEPT ![c] = "greeting"]
           /\ tracker' = tracker \cup {c} /\ UNCHANGED registry
    BY Zenon, <1>3 DEF RegisterCheck, Enter
  <2> QED
    BY ZenonT(60), <2>1, <2>2, <2>3
<1>4. ASSUME NEW c \in Conn, Greet(c) PROVE ConnTypeOK' /\ Books'
  <2>1. phase[c] = "greeting" /\ UNCHANGED <<outq, kick, reload>>
    BY Zenon, <1>4 DEF Greet
  <2>2. openedAs' \in [Conn -> Key \cup {NoKey}]
    BY Zenon, <1>4 DEF Greet, Forget
  <2>3. \/ /\ phase' = [phase EXCEPT ![c] = "open"]
           /\ UNCHANGED <<registry, tracker>>
        \/ /\ phase' = [phase EXCEPT ![c] = "closed"]
           /\ registry' = registry \ {c} /\ tracker' = tracker \ {c}
    BY Zenon, <1>4 DEF Greet, Enter
  <2> QED
    BY ZenonT(60), <2>1, <2>2, <2>3
<1>5. ASSUME NEW c \in Conn, InboundFrame(c) PROVE ConnTypeOK' /\ Books'
  BY ZenonT(60), <1>5 DEF InboundFrame, Enter
<1>6. ASSUME NEW c \in Conn, StreamEnds(c) PROVE ConnTypeOK' /\ Books'
  BY Zenon, <1>6 DEF StreamEnds, Enter
<1>7. ASSUME NEW c \in Conn, WindowSlides(c) PROVE ConnTypeOK' /\ Books'
  BY Zenon, <1>7 DEF WindowSlides
<1>8. ASSUME NEW c \in Conn, TakeOutbound(c) PROVE ConnTypeOK' /\ Books'
  BY <1>8 DEF TakeOutbound, Enter
<1>9. ASSUME NEW c \in Conn, WriteDone(c) PROVE ConnTypeOK' /\ Books'
  BY Zenon, <1>9 DEF WriteDone, Enter
<1>10. ASSUME NEW c \in Conn, WriteTimeout(c) PROVE ConnTypeOK' /\ Books'
  BY Zenon, <1>10 DEF WriteTimeout, Enter
<1>11. ASSUME NEW c \in Conn, TakeKick(c) PROVE ConnTypeOK' /\ Books'
  BY Zenon, <1>11 DEF TakeKick, Enter
<1>12. ASSUME NEW c \in Conn, TakeDrain(c) PROVE ConnTypeOK' /\ Books'
  BY Zenon, <1>12 DEF TakeDrain, Enter
<1>13. ASSUME NEW c \in Conn, Untrack(c) PROVE ConnTypeOK' /\ Books'
  BY Zenon, <1>13 DEF Untrack, Enter
<1>14. ASSUME NEW c \in Conn, CleanupConnection(c) PROVE ConnTypeOK' /\ Books'
  BY <1>14 DEF CleanupConnection, Enter, Forget
<1>15. ASSUME NEW c \in Conn, Stall(c) PROVE ConnTypeOK' /\ Books'
  BY Zenon, <1>15 DEF Stall
<1>16. ASSUME NEW c \in Conn, Push(c) \/ TerminateConnection(c) PROVE ConnTypeOK' /\ Books'
  <2>1. \E msg \in {"text", "close"} : TrySend({c}, msg)
    BY Zenon, <1>16 DEF Push, TerminateConnection
  <2>2. outq' \in [Conn -> Seq({"text", "close"})] /\ kick' \in [Conn -> BOOLEAN]
    BY <2>1, TrySendTells
  <2> QED
    BY Zenon, <1>16, <2>2 DEF Push, TerminateConnection
<1>17. ASSUME NEW t, EditFile(t) PROVE ConnTypeOK' /\ Books'
  BY Zenon, <1>17 DEF EditFile
<1>18. CASE ReloadApps
  BY Zenon, <1>18 DEF ReloadApps, FileIsNewer, Revoked, OriginsChanged
<1>19. CASE ApplyAppsReload
  <2>1. \E cs \in SUBSET Conn : TrySend(cs, "close")
    BY Zenon, <1>19 DEF ApplyAppsReload
  <2>2. outq' \in [Conn -> Seq({"text", "close"})] /\ kick' \in [Conn -> BOOLEAN]
    BY Zenon, <2>1, TrySendTells
  <2> QED
    BY Zenon, <1>19, <2>2 DEF ApplyAppsReload, NoReload
<1>20. CASE ShutdownSignal \/ Restart \/ RestartSignalWatcher
  BY Zenon, <1>20 DEF ShutdownSignal, Restart, RestartSignalWatcher
<1>21. CASE UNCHANGED connVars
  BY Zenon, <1>21 DEF connVars
<1> QED
  BY Zenon, <1>1, <1>2, <1>3, <1>4, <1>5, <1>6, <1>7, <1>8, <1>9, <1>10, <1>11, <1>12, <1>13,
     <1>14, <1>15, <1>16, <1>17, <1>18, <1>19, <1>20, <1>21 DEF ConnNext

(***************************************************************************)
(* The quota                                                               *)
(***************************************************************************)

\* Only register_connection, and only below the quota, adds to the connections
\* that are served.
LEMMA OnlyRegistrationServes ==
    ASSUME ConnTypeOK, [ConnNext]_connVars, NEW d \in Conn, Serving(d)', ~Serving(d)
    PROVE  RegisterCheck(d) /\ ~OverQuota(registry)
<1> USE DEF ConnTypeOK, Serving, conns, traffic, config, stop
<1>1. ASSUME NEW c \in Conn, NEW k \in Key, NEW v, WsUpgrade(c, k, v) PROVE FALSE
  <2>1. phase' = [phase EXCEPT ![c] = "refused"] \/ phase' = [phase EXCEPT ![c] = "upgraded"]
    BY Zenon, <1>1 DEF WsUpgrade, Enter
  <2> QED
    BY Zenon, <2>1
<1>2. ASSUME NEW c \in Conn, RegisterCheck(c) PROVE RegisterCheck(d) /\ ~OverQuota(registry)
  <2>1. \/ phase' = [phase EXCEPT ![c] = "refused"]
        \/ ~OverQuota(registry) /\ phase' = [phase EXCEPT ![c] = "greeting"]
    BY Zenon, <1>2 DEF RegisterCheck, Enter
  <2> QED
    BY Zenon, <1>2, <2>1
<1>3. ASSUME NEW c \in Conn, RegisterInsert(c) PROVE FALSE
  BY Zenon, <1>3 DEF RegisterInsert, Enter
<1>4. ASSUME NEW c \in Conn, Greet(c) PROVE FALSE
  BY Zenon, <1>4 DEF Greet, Enter
<1>5. ASSUME NEW c \in Conn, InboundFrame(c) PROVE FALSE
  BY Zenon, <1>5 DEF InboundFrame, Enter
<1>6. ASSUME NEW c \in Conn, StreamEnds(c) PROVE FALSE
  BY Zenon, <1>6 DEF StreamEnds, Enter
<1>7. ASSUME NEW c \in Conn, WindowSlides(c) PROVE FALSE
  BY Zenon, <1>7 DEF WindowSlides
<1>8. ASSUME NEW c \in Conn, TakeOutbound(c) PROVE FALSE
  BY Zenon, <1>8 DEF TakeOutbound, Enter
<1>9. ASSUME NEW c \in Conn, WriteDone(c) PROVE FALSE
  BY Zenon, <1>9 DEF WriteDone, Enter
<1>10. ASSUME NEW c \in Conn, WriteTimeout(c) PROVE FALSE
  BY Zenon, <1>10 DEF WriteTimeout, Enter
<1>11. ASSUME NEW c \in Conn, TakeKick(c) PROVE FALSE
  BY Zenon, <1>11 DEF TakeKick, Enter
<1>12. ASSUME NEW c \in Conn, TakeDrain(c) PROVE FALSE
  BY Zenon, <1>12 DEF TakeDrain, Enter
<1>13. ASSUME NEW c \in Conn, Untrack(c) PROVE FALSE
  BY Zenon, <1>13 DEF Untrack, Enter
<1>14. ASSUME NEW c \in Conn, CleanupConnection(c) PROVE FALSE
  BY Zenon, <1>14 DEF CleanupConnection, Enter
<1>15. ASSUME NEW c \in Conn, Push(c) PROVE FALSE
  BY Zenon, <1>15 DEF Push
<1>16. ASSUME NEW c \in Conn, TerminateConnection(c) PROVE FALSE
  BY Zenon, <1>16 DEF TerminateConnection
<1>17. ASSUME NEW c \in Conn, Stall(c) PROVE FALSE
  BY Zenon, <1>17 DEF Stall
<1>18. ASSUME NEW t, EditFile(t) PROVE FALSE
  BY Zenon, <1>18 DEF EditFile
<1>19. ASSUME ReloadApps PROVE FALSE
  BY Zenon, <1>19 DEF ReloadApps
<1>20. ASSUME ApplyAppsReload PROVE FALSE
  BY Zenon, <1>20 DEF ApplyAppsReload
<1>21. ASSUME ShutdownSignal \/ Restart \/ RestartSignalWatcher PROVE FALSE
  BY Zenon, <1>21 DEF ShutdownSignal, Restart, RestartSignalWatcher
<1>22. ASSUME UNCHANGED connVars PROVE FALSE
  BY Zenon, <1>22 DEF connVars
<1> QED
  BY Zenon, <1>1, <1>2, <1>3, <1>4, <1>5, <1>6, <1>7, <1>8, <1>9, <1>10, <1>11, <1>12,
     <1>13, <1>14, <1>15, <1>16, <1>17, <1>18, <1>19, <1>20, <1>21, <1>22 DEF ConnNext

\* The quota is kept: what is served is registered, and a registration that is
\* let through has counted the registry with itself in it.
LEMMA QuotaStep ==
    ASSUME ConnTypeOK, Books, WithinQuota, [ConnNext]_connVars
    PROVE  WithinQuota'
<1>1. CASE Served' \subseteq Served
  <2>1. IsFiniteSet(Served)
    BY Zenon, ConnectionConstants, FS_Subset DEF Served
  <2>2. IsFiniteSet(Served') /\ Cardinality(Served') <= Cardinality(Served)
    BY Zenon, <1>1, <2>1, FS_Subset
  <2>3. Cardinality(Served) \in Nat /\ Cardinality(Served') \in Nat
    BY Zenon, <2>1, <2>2, FS_CardinalityType
  <2> QED
    BY <2>2, <2>3, ConnectionConstants DEF WithinQuota
<1>2. CASE ~(Served' \subseteq Served)
  <2>1. PICK d \in Conn : Serving(d)' /\ ~Serving(d)
    BY Zenon, <1>2 DEF Served
  <2>2. RegisterCheck(d) /\ ~OverQuota(registry)
    BY Zenon, <2>1, OnlyRegistrationServes
  <2>3. registry' = registry
    BY Zenon, <2>2 DEF RegisterCheck
  <2>4. Books'
    BY Zenon, BooksStep
  <2>5. Served' \subseteq registry
    BY Zenon, <2>3, <2>4 DEF Books, Served, Serving, Registered
  <2>6. IsFiniteSet(registry)
    BY Zenon, ConnectionConstants, FS_Subset DEF ConnTypeOK
  <2>7. IsFiniteSet(Served') /\ Cardinality(Served') <= Cardinality(registry)
    BY Zenon, <2>5, <2>6, FS_Subset
  <2>8. Cardinality(registry) \in Nat /\ Cardinality(Served') \in Nat
    BY Zenon, <2>6, <2>7, FS_CardinalityType
  <2> QED
    BY <2>2, <2>7, <2>8, ConnectionConstants DEF WithinQuota, OverQuota
<1> QED
  BY Zenon, <1>1, <1>2

(***************************************************************************)
(* The reload                                                              *)
(***************************************************************************)

\* A connection stays in order through every step: when the table is replaced
\* the reload that follows owes it a close, when the reload is applied it is
\* told, and the loop takes back no order to close without leaving.
LEMMA ReloadStep ==
    ASSUME ConnTypeOK, Books, ReloadInv, [ConnNext]_connVars, NEW d \in Conn, d \notin straddled'
    PROVE  InOrder(d)'
<1> USE DEF ConnTypeOK, Phases, Registered, conns, traffic, config, stop
<1> DEFINE Entering == {"upgraded", "inserted"}
           Over == phase'[d] \in {"refused", "leaving", "cleanup", "closed"}
           Kept == /\ d \notin straddled
                   /\ conf' = conf /\ reload' = reload /\ openedAs'[d] = openedAs[d]
                   /\ Serving(d)' => Serving(d)
                   /\ phase'[d] \in Entering => phase[d] \in Entering
                   /\ ToldToClose(d) => ToldToClose(d)'
<1>1. ASSUME Over PROVE InOrder(d)'
  BY Zenon, <1>1 DEF InOrder, Serving
<1>2. ASSUME Kept PROVE InOrder(d)'
  BY Zenon, <1>2 DEF InOrder, ReloadInv, Awaited, Covered, OriginAllowed
<1>3. ASSUME NEW c \in Conn, NEW k \in Key, NEW v, WsUpgrade(c, k, v) PROVE InOrder(d)'
  <2>1. UNCHANGED <<straddled, conf, reload, outq, kick>>
    BY Zenon, <1>3 DEF WsUpgrade
  <2>2. ASSUME Enter(c, "refused"), UNCHANGED openedAs PROVE Kept \/ Over
    BY Zenon, <2>1, <2>2 DEF Enter, Serving, ToldToClose
  <2>3. ASSUME conf.key = k, OriginAllowed(c, conf), Enter(c, "upgraded"),
               openedAs' = [openedAs EXCEPT ![c] = k]
        PROVE InOrder(d)'
    <3>1. CASE d = c
      <4>1. Covered(d)'
        BY Zenon, <2>1, <2>3, <3>1 DEF Covered, OriginAllowed
      <4>2. ~Serving(d)'
        BY Zenon, <2>3, <3>1 DEF Enter, Serving
      <4> QED
        BY Zenon, <4>1, <4>2 DEF InOrder
    <3>2. CASE d # c
      BY Zenon, <2>1, <2>3, <3>2, <1>2 DEF Enter, Serving, ToldToClose
    <3> QED
      BY Zenon, <3>1, <3>2
  <2> QED
    BY Zenon, <1>1, <1>2, <1>3, <2>2, <2>3 DEF WsUpgrade
<1>4. ASSUME NEW c \in Conn, RegisterCheck(c) PROVE InOrder(d)'
  <2>1. UNCHANGED <<conf, reload, outq, kick>> /\ phase[c] = "inserted"
    BY Zenon, <1>4 DEF RegisterCheck
  <2>2. ASSUME Enter(c, "refused"), Forget(c) PROVE Kept \/ Over
    BY Zenon, <2>1, <2>2 DEF Enter, Forget, Serving, ToldToClose
  <2>3. ASSUME Enter(c, "greeting"), UNCHANGED <<openedAs, straddled>> PROVE InOrder(d)'
    <3>1. CASE d = c
      <4>1. Covered(d)
        BY Zenon, <2>1, <2>3, <3>1 DEF ReloadInv, InOrder
      <4>2. Covered(d)'
        BY Zenon, <2>1, <2>3, <4>1 DEF Covered, OriginAllowed
      <4> QED
        BY Zenon, <4>2 DEF InOrder, Awaited
    <3>2. CASE d # c
      BY Zenon, <2>1, <2>3, <3>2, <1>2 DEF Enter, Serving, ToldToClose
    <3> QED
      BY Zenon, <3>1, <3>2
  <2> QED
    BY Zenon, <1>1, <1>2, <1>4, <2>2, <2>3 DEF RegisterCheck
<1>5. ASSUME NEW c \in Conn, TakeOutbound(c) PROVE Kept \/ Over
  <2>1. CASE d # c
    BY Zenon, <1>5, <2>1 DEF TakeOutbound, Enter, Serving, ToldToClose
  <2>2. CASE d = c /\ Head(outq[c]) = "close"
    BY Zenon, <1>5, <2>2 DEF TakeOutbound, Enter
  <2>3. CASE d = c /\ Head(outq[c]) # "close"
    <3>1. outq[d] \in Seq({"text", "close"}) /\ outq[d] # <<>> /\ outq'[d] = Tail(outq[d])
      BY Zenon, <1>5, <2>3 DEF TakeOutbound
    <3>2. ASSUME NEW i \in DOMAIN outq[d], outq[d][i] = "close"
          PROVE  \E j \in DOMAIN outq'[d] : outq'[d][j] = "close"
      <4>1. i # 1
        BY <2>3, <3>1, <3>2
      <4>2. i - 1 \in DOMAIN outq'[d] /\ outq'[d][i - 1] = outq[d][i]
        BY <3>1, <4>1
      <4> QED
        BY Zenon, <3>2, <4>2
    <3>3. kick' = kick
      BY Zenon, <1>5 DEF TakeOutbound
    <3>4. ToldToClose(d) => ToldToClose(d)'
      BY Zenon, <3>2, <3>3 DEF ToldToClose
    <3>5. phase[d] = "open" /\ phase'[d] = "writing"
      BY Zenon, <1>5, <2>3 DEF TakeOutbound, Enter
    <3> QED
      BY Zenon, <1>5, <3>4, <3>5 DEF TakeOutbound, Serving
  <2> QED
    BY Zenon, <2>1, <2>2, <2>3
<1>6. ASSUME NEW c \in Conn, RegisterInsert(c) PROVE Kept \/ Over
  BY Zenon, <1>6 DEF RegisterInsert, Enter, Serving, ToldToClose
<1>7. ASSUME NEW c \in Conn, Greet(c) PROVE Kept \/ Over
  BY Zenon, <1>7 DEF Greet, Enter, Forget, Serving, ToldToClose
<1>8. ASSUME NEW c \in Conn, InboundFrame(c) PROVE Kept \/ Over
  BY Zenon, <1>8 DEF InboundFrame, Enter, Serving, ToldToClose
<1>9. ASSUME NEW c \in Conn, StreamEnds(c) PROVE Kept \/ Over
  BY Zenon, <1>9 DEF StreamEnds, Enter, Serving, ToldToClose
<1>10. ASSUME NEW c \in Conn, WindowSlides(c) PROVE Kept \/ Over
  BY Zenon, <1>10 DEF WindowSlides, Serving, ToldToClose
<1>11. ASSUME NEW c \in Conn, WriteDone(c) PROVE Kept \/ Over
  BY Zenon, <1>11 DEF WriteDone, Enter, Serving, ToldToClose
<1>12. ASSUME NEW c \in Conn, WriteTimeout(c) PROVE Kept \/ Over
  BY Zenon, <1>12 DEF WriteTimeout, Enter, Serving, ToldToClose
<1>13. ASSUME NEW c \in Conn, TakeKick(c) PROVE Kept \/ Over
  BY Zenon, <1>13 DEF TakeKick, Enter, Serving, ToldToClose
<1>14. ASSUME NEW c \in Conn, TakeDrain(c) PROVE Kept \/ Over
  BY Zenon, <1>14 DEF TakeDrain, Enter, Serving, ToldToClose
<1>15. ASSUME NEW c \in Conn, Untrack(c) PROVE Kept \/ Over
  BY Zenon, <1>15 DEF Untrack, Enter, Serving, ToldToClose
<1>16. ASSUME NEW c \in Conn, CleanupConnection(c) PROVE Kept \/ Over
  BY Zenon, <1>16 DEF CleanupConnection, Enter, Forget, Serving, ToldToClose
<1>17. ASSUME NEW c \in Conn, Stall(c) PROVE Kept \/ Over
  BY Zenon, <1>17 DEF Stall, Serving, ToldToClose
<1>18. ASSUME NEW c \in Conn, Push(c) \/ TerminateConnection(c) PROVE Kept
  <2>1. \E msg \in {"text", "close"} : TrySend({c}, msg)
    BY Zenon, <1>18 DEF Push, TerminateConnection
  <2>2. ToldToClose(d) => ToldToClose(d)'
    BY Zenon, SMTT(30), <2>1, TrySendTells
  <2> QED
    BY Zenon, <1>18, <2>2 DEF Push, TerminateConnection, Serving
<1>19. ASSUME NEW t, EditFile(t) PROVE Kept
  BY Zenon, <1>19 DEF EditFile, Serving, ToldToClose
<1>20. ASSUME ReloadApps PROVE InOrder(d)'
  <2>1. /\ d \notin straddled /\ phase[d] \notin Entering
        /\ UNCHANGED <<phase, openedAs, outq, kick>>
        /\ reload = NoReload /\ conf' = file
        /\ reload' = [revoked |-> Revoked(conf, file), origins |-> OriginsChanged(conf, file)]
    BY Zenon, <1>20 DEF ReloadApps, FileIsNewer
  <2>2. ASSUME Serving(d), ~ToldToClose(d) PROVE Awaited(d)'
    <3>1. Covered(d)
      BY Zenon, <2>1, <2>2 DEF ReloadInv, InOrder, Awaited, NoReload
    <3>2. conf # Gone
      BY <3>1 DEF Covered, OriginAllowed, Gone
    <3>3. CASE file.key # conf.key
      BY Zenon, <2>1, <3>2, <3>3 DEF Awaited, Revoked
    <3>4. CASE file.key = conf.key /\ file.origins # conf.origins
      BY Zenon, <2>1, <3>1, <3>2, <3>4 DEF Awaited, Covered, OriginsChanged
    <3>5. CASE file.key = conf.key /\ file.origins = conf.origins
      BY Zenon, <2>1, <3>1, <3>5 DEF Awaited, Covered, OriginAllowed
    <3> QED
      BY Zenon, <3>3, <3>4, <3>5
  <2>3. Serving(d)' = Serving(d) /\ ToldToClose(d)' = ToldToClose(d)
    BY Zenon, <2>1 DEF Serving, ToldToClose
  <2> QED
    BY Zenon, <2>1, <2>2, <2>3 DEF InOrder
<1>21. ASSUME ApplyAppsReload PROVE InOrder(d)'
  <2> DEFINE cs == IF reload.revoked THEN registry ELSE {c \in tracker : ~OriginAllowed(c, conf)}
  <2>1. /\ TrySend(cs, "close")
        /\ UNCHANGED <<conf, phase, openedAs, straddled>>
    BY Zenon, <1>21 DEF ApplyAppsReload
  <2>2. cs \in SUBSET Conn
    OBVIOUS
  <2>3. /\ ToldToClose(d) => ToldToClose(d)'
        /\ d \in cs /\ phase[d] # "closed" => ToldToClose(d)'
    <3> HIDE DEF cs
    <3> QED
      BY Zenon, <2>1, <2>2, TrySendTells
  <2>4. InOrder(d)
    BY Zenon, <2>1 DEF ReloadInv
  <2>5. ASSUME Serving(d), ~ToldToClose(d), ~Covered(d) PROVE d \in cs
    <3>1. d \in registry /\ d \in tracker
      BY Zenon, <2>5 DEF Books, Serving, Tracked
    <3> QED
      BY Zenon, <2>4, <2>5, <3>1 DEF InOrder, Awaited, Covered
  <2>6. Serving(d)' = Serving(d) /\ Covered(d)' = Covered(d)
    BY Zenon, <2>1 DEF Serving, Covered, OriginAllowed
  <2>7. Serving(d) => phase[d] # "closed"
    BY Zenon DEF Serving
  <2> QED
    BY Zenon, <2>1, <2>3, <2>4, <2>5, <2>6, <2>7 DEF InOrder, Awaited
<1>22. ASSUME ShutdownSignal \/ Restart \/ RestartSignalWatcher PROVE Kept
  BY Zenon, <1>22 DEF ShutdownSignal, Restart, RestartSignalWatcher, Serving, ToldToClose
<1>23. ASSUME UNCHANGED connVars PROVE Kept
  BY Zenon, <1>23 DEF connVars, Serving, ToldToClose
<1> QED
  <2> HIDE DEF Kept, Over
  <2> QED
    BY Zenon, <1>1, <1>2, <1>3, <1>4, <1>5, <1>6, <1>7, <1>8, <1>9, <1>10, <1>11, <1>12,
       <1>13, <1>14, <1>15, <1>16, <1>17, <1>18, <1>19, <1>20, <1>21, <1>22, <1>23 DEF ConnNext

(***************************************************************************)
(* The theorems                                                            *)
(***************************************************************************)

\* The books, the quota and the state of the reload are as ConnInv says in
\* every state of the upgrade, the connection loop, the reload and the drain.
THEOREM ConnInvariance == ConnSpec => []ConnInv
<1>1. ConnInit => ConnInv
  <2> SUFFICES ASSUME ConnInit PROVE ConnInv
    OBVIOUS
  <2> USE DEF ConnInit, Phases, Registered, Tracked, Serving
  <2>1. ConnTypeOK
    BY DEF ConnTypeOK, NoReload
  <2>2. Books
    BY Zenon DEF Books
  <2>3. Served = {}
    BY Zenon DEF Served
  <2>4. WithinQuota
    BY <2>3, FS_EmptySet, ConnectionConstants DEF WithinQuota
  <2>5. ReloadInv
    BY Zenon DEF ReloadInv, InOrder
  <2> QED
    BY Zenon, <2>1, <2>2, <2>4, <2>5 DEF ConnInv
<1>2. ConnInv /\ [ConnNext]_connVars => ConnInv'
  <2> SUFFICES ASSUME ConnInv, [ConnNext]_connVars PROVE ConnInv'
    OBVIOUS
  <2> USE DEF ConnInv
  <2>1. ConnTypeOK' /\ Books'
    BY Zenon, BooksStep
  <2>2. WithinQuota'
    BY Zenon, QuotaStep
  <2>3. ReloadInv'
    <3> SUFFICES ASSUME NEW d \in Conn, d \notin straddled' PROVE InOrder(d)'
      BY Zenon DEF ReloadInv
    <3> QED
      BY Zenon, ReloadStep
  <2> QED
    BY Zenon, <2>1, <2>2, <2>3
<1> QED
  BY <1>1, <1>2, PTL DEF ConnSpec

\* register_connection inserts first and counts afterwards; however
\* registrations interleave, no more connections are served than the quota
\* allows, and what is closed or refused is on no book.
THEOREM QuotaNeverExceeded == ConnSpec => []QuotaHolds
<1>1. ConnInv => QuotaHolds
  BY Zenon DEF ConnInv, WithinQuota, Served, Books, Registered, Tracked, QuotaHolds
<1> QED
  BY <1>1, ConnInvariance, PTL

\* Once apply_apps_reload is done, whoever is still served without an order to
\* close has a key and an origin that the live table allows.
THEOREM ReloadLeavesNoRevoked == ConnSpec => []ReloadClosesRevoked
<1>1. ConnInv => ReloadClosesRevoked
  BY DEF ConnInv, ReloadInv, InOrder, Awaited, Covered, NoReload, ReloadClosesRevoked
<1> QED
  BY <1>1, ConnInvariance, PTL

(***************************************************************************)
(* The keepalive: no connection is closed unasked                          *)
(***************************************************************************)

KeepTypeOK ==
    /\ quiet \in Nat
    /\ due \in BOOLEAN
    /\ plan \in {"none", "close", "ping", "mark"}
    /\ warned \in BOOLEAN /\ unwarned \in BOOLEAN

\* A client that has not been pinged since its last frame has been silent for
\* one period beyond the interval at most, and is then about to be pinged.
UnpingedIsRecent ==
    ~warned => /\ quiet <= PingInterval + 1
               /\ quiet = PingInterval + 1 => due \/ plan = "ping"

KeepInv == KeepTypeOK /\ UnpingedIsRecent /\ StaleWasPinged

\* Every behaviour of maintenance and connection task keeps the bound on the
\* silence of a client that was not pinged (is_inactive is asked again every
\* period, whatever has_been_pinged says).
THEOREM KeepInvariance == KeepSpec => []KeepInv
<1>1. KeepInit => KeepInv
  <2> SUFFICES ASSUME KeepInit PROVE KeepInv
    OBVIOUS
  <2>1. KeepTypeOK /\ StaleWasPinged
    BY Zenon DEF KeepInit, KeepTypeOK, StaleWasPinged
  <2>2. quiet <= PingInterval + 1 /\ quiet # PingInterval + 1
    BY KeepaliveConstants DEF KeepInit
  <2> QED
    BY Zenon, <2>1, <2>2 DEF KeepInv, UnpingedIsRecent
<1>2. KeepInv /\ [KeepNext]_keepVars => KeepInv'
  <2> SUFFICES ASSUME KeepInv, [KeepNext]_keepVars
               PROVE  KeepInv'
    OBVIOUS
  <2> USE KeepaliveConstants DEF KeepInv, KeepTypeOK, UnpingedIsRecent, StaleWasPinged
  <2>1. CASE Period
    <3>1. quiet' \in Nat /\ (~warned => quiet' <= PingInterval + 1)
      BY <2>1 DEF Period
    <3> QED
      BY Zenon, <2>1, <3>1 DEF Period
  <2>2. CASE TouchTime
    <3>1. quiet' \in Nat /\ quiet' <= PingInterval + 1 /\ quiet' # PingInterval + 1
      BY <2>2 DEF TouchTime
    <3> QED
      BY Zenon, <2>2, <3>1 DEF TouchTime
  <2>3. CASE TouchFlag
    BY Zenon, <2>3 DEF TouchFlag
  <2>4. CASE Visit
    <3>1. IsStale => warned
      BY DEF IsStale
    <3>2. ~unwarned'
      BY Zenon, <2>4, <3>1 DEF Visit
    <3>3. KeepTypeOK'
      BY Zenon, <2>4, <3>2 DEF Visit
    <3>4. UnpingedIsRecent'
      BY <2>4, <3>1 DEF Visit, IsInactive
    <3> QED
      BY Zenon, <3>2, <3>3, <3>4
  <2>5. CASE VisitSend
    BY Zenon, <2>5 DEF VisitSend
  <2>6. CASE MarkPinged
    BY Zenon, <2>6 DEF MarkPinged
  <2>7. CASE UNCHANGED keepVars
    BY Zenon, <2>7 DEF keepVars
  <2> QED
    BY Zenon, <2>1, <2>2, <2>3, <2>4, <2>5, <2>6, <2>7 DEF KeepNext
<1> QED
  BY <1>1, <1>2, PTL DEF KeepSpec

\* connection_maintenance declares a connection stale only after a ping that was
\* not answered, whatever frames arrive between the ping and its mark.
THEOREM NeverClosedUnasked == KeepSpec => []StaleWasPinged
<1>1. KeepInv => StaleWasPinged
  BY Zenon DEF KeepInv
<1> QED
  BY <1>1, KeepInvariance, PTL

(***************************************************************************)
(* The fleet-wide query                                                    *)
(***************************************************************************)

Answer == [from : Remote, to : Ask, users : SUBSET Guest]

QueryTypeOK ==
    /\ present \in [Server -> SUBSET Guest]
    /\ ask \in [Ask -> {"none", "local", "waiting", "ending", "done"}]
    /\ expected \in [Ask -> Nat]
    /\ inflight \subseteq Ask
    /\ requests \subseteq Remote \X Ask
    /\ answers \subseteq Answer
    /\ inbox \in [Ask -> SUBSET Answer]
    /\ responders \in [Ask -> SUBSET Remote]
    /\ merged \in [Ask -> SUBSET Guest]
    /\ early \subseteq Ask
    /\ alive \in [Ask -> SUBSET Remote]
    /\ stayed \in [Ask -> SUBSET (Server \X Guest)]
    /\ ever \in [Ask -> SUBSET Guest]

\* Nothing is under way for a query that has not been published, and nothing is
\* kept of one that is not running.
QueryStages ==
    /\ \A q \in inflight : ask[q] \in {"waiting", "ending"}
    /\ \A r \in requests : ask[r[2]] \notin {"none", "local"}
    /\ \A a \in answers : ask[a.to] \notin {"none", "local"}
    /\ \A q \in Ask : ~Asking(q) => merged[q] = {} /\ responders[q] = {} /\ inbox[q] = {}

\* An answer names only users who were somewhere while the query ran, and all
\* those who stayed on the node that gave it.
Truthful(q, a) ==
    /\ a.users \subseteq ever[q]
    /\ \A x \in stayed[q] : x[1] = a.from => x[2] \in a.users

AnswersTruthful ==
    /\ \A a \in answers : Asking(a.to) => Truthful(a.to, a)
    /\ \A q \in Ask : \A a \in inbox[q] : Truthful(q, a)

\* What a running query has merged, against what was there while it ran.
MergedTruthful ==
    \A q \in Ask : Asking(q) =>
        /\ \A n \in Server : present[n] \subseteq ever[q]
        /\ merged[q] \subseteq ever[q]
        /\ \A x \in stayed[q] :
              /\ x[2] \in present[x[1]]
              /\ x[1] \in {Here} \cup responders[q] => x[2] \in merged[q]

\* A query waits for as many answers as peers were alive when it was published.
CountsAlive ==
    /\ \A q \in Ask : ask[q] \in {"waiting", "ending"} => expected[q] = Cardinality(alive[q])
    /\ \A q \in early :
          /\ ask[q] = "ending"
          /\ Cardinality(responders[q]) >= Cardinality(alive[q])

QueryInv == QueryTypeOK /\ QueryStages /\ AnswersTruthful /\ MergedTruthful /\ CountsAlive

\* Every step of the queries, of the peers that answer them and of the users who
\* come and go meanwhile keeps the answers and what is merged of them truthful.
THEOREM QueryInvariance == QuerySpec => []QueryInv
<1>1. QueryInit => QueryInv
  BY DEF QueryInit, QueryInv, QueryTypeOK, QueryStages, AnswersTruthful, MergedTruthful,
         CountsAlive, Asking
<1>2. QueryInv /\ [QueryNext]_queryVars => QueryInv'
  <2> SUFFICES ASSUME QueryInv, [QueryNext]_queryVars
               PROVE  QueryInv'
    OBVIOUS
  <2> USE QueryConstants DEF QueryInv
  <2>1. ASSUME NEW n \in Server, NEW u \in Guest, Come(n, u) PROVE QueryInv'
    <3>1. QueryTypeOK'
      BY Zenon, <2>1 DEF Come, QueryTypeOK
    <3>2. QueryStages'
      BY Zenon, <2>1 DEF Come, QueryTypeOK, QueryStages, Asking
    <3>3. AnswersTruthful'
      <4>1. ASSUME NEW q \in Ask PROVE ever[q] \subseteq ever'[q] /\ stayed'[q] \subseteq stayed[q]
        BY Zenon, <2>1 DEF Come
      <4>2. ASSUME NEW q \in Ask, NEW b \in Answer, Truthful(q, b) PROVE Truthful(q, b)'
        BY Zenon, <4>1, <4>2 DEF Truthful
      <4> QED
        BY Zenon, <2>1, <4>2 DEF Come, QueryTypeOK, AnswersTruthful, Asking, Answer
    <3>4. MergedTruthful'
      BY <2>1 DEF Come, QueryTypeOK, QueryStages, AnswersTruthful, MergedTruthful, Truthful, Asking
    <3>5. CountsAlive'
      BY Zenon, <2>1 DEF Come, QueryTypeOK, CountsAlive
    <3> QED
      BY Zenon, <3>1, <3>2, <3>3, <3>4, <3>5
  <2>2. ASSUME NEW n \in Server, NEW u \in Guest, Go(n, u) PROVE QueryInv'
    <3>1. QueryTypeOK'
      BY Zenon, <2>2 DEF Go, QueryTypeOK
    <3>2. QueryStages'
      BY Zenon, <2>2 DEF Go, QueryTypeOK, QueryStages, Asking
    <3>3. AnswersTruthful'
      <4>1. ASSUME NEW q \in Ask PROVE ever[q] \subseteq ever'[q] /\ stayed'[q] \subseteq stayed[q]
        BY Zenon, <2>2 DEF Go
      <4>2. ASSUME NEW q \in Ask, NEW b \in Answer, Truthful(q, b) PROVE Truthful(q, b)'
        BY Zenon, <4>1, <4>2 DEF Truthful
      <4> QED
        BY Zenon, <2>2, <4>2 DEF Go, QueryTypeOK, AnswersTruthful, Asking, Answer
    <3>4. MergedTruthful'
      BY <2>2 DEF Go, QueryTypeOK, QueryStages, AnswersTruthful, MergedTruthful, Truthful, Asking
    <3>5. CountsAlive'
      BY Zenon, <2>2 DEF Go, QueryTypeOK, CountsAlive
    <3> QED
      BY Zenon, <3>1, <3>2, <3>3, <3>4, <3>5
  <2>3. ASSUME NEW q \in Ask, ReadLocal(q) PROVE QueryInv'
    <3>1. QueryTypeOK'
      BY <2>3 DEF ReadLocal, Server, QueryTypeOK
    <3>2. QueryStages'
      BY <2>3 DEF ReadLocal, Server, QueryTypeOK, QueryStages, Asking
    <3>3. AnswersTruthful'
      BY <2>3 DEF ReadLocal, Server, QueryTypeOK, QueryStages, AnswersTruthful, MergedTruthful, Truthful, Asking
    <3>4. MergedTruthful'
      BY <2>3 DEF ReadLocal, Server, QueryTypeOK, QueryStages, AnswersTruthful, MergedTruthful, Truthful, Asking
    <3>5. CountsAlive'
      BY Zenon, <2>3 DEF ReadLocal, Server, QueryTypeOK, CountsAlive
    <3> QED
      BY Zenon, <3>1, <3>2, <3>3, <3>4, <3>5
  <2>4. ASSUME NEW q \in Ask, WaitIsOver(q) PROVE QueryInv'
    <3>1. QueryTypeOK'
      BY Zenon, <2>4 DEF WaitIsOver, QueryTypeOK
    <3>2. QueryStages'
      BY <2>4 DEF WaitIsOver, QueryTypeOK, QueryStages, Asking
    <3>3. AnswersTruthful'
      BY <2>4 DEF WaitIsOver, QueryTypeOK, QueryStages, AnswersTruthful, MergedTruthful, Truthful, Asking
    <3>4. MergedTruthful'
      BY <2>4 DEF WaitIsOver, QueryTypeOK, QueryStages, AnswersTruthful, MergedTruthful, Truthful, Asking
    <3>5. CountsAlive'
      BY Zenon, <2>4 DEF WaitIsOver, QueryTypeOK, CountsAlive
    <3> QED
      BY Zenon, <3>1, <3>2, <3>3, <3>4, <3>5
  <2>5. ASSUME NEW q \in Ask, Unregister(q) PROVE QueryInv'
    <3>1. QueryTypeOK'
      BY Zenon, <2>5 DEF Unregister, QueryTypeOK
    <3>2. QueryStages'
      BY <2>5 DEF Unregister, QueryTypeOK, QueryStages, Asking
    <3>3. AnswersTruthful'
      BY <2>5 DEF Unregister, QueryTypeOK, QueryStages, AnswersTruthful, MergedTruthful, Truthful, Asking
    <3>4. MergedTruthful'
      BY <2>5 DEF Unregister, QueryTypeOK, QueryStages, AnswersTruthful, MergedTruthful, Truthful, Asking
    <3>5. CountsAlive'
      BY Zenon, <2>5 DEF Unregister, QueryTypeOK, CountsAlive
    <3> QED
      BY Zenon, <3>1, <3>2, <3>3, <3>4, <3>5
  <2>6. ASSUME NEW q \in Ask, NEW counted \in SUBSET Remote, AskFleet(q, counted) PROVE QueryInv'
    <3> Cardinality(counted) \in Nat
      BY Zenon, FS_Subset, FS_CardinalityType
    <3>1. QueryTypeOK'
      BY Zenon, <2>6 DEF AskFleet, LivePeerCount, QueryTypeOK
    <3>2. QueryStages'
      BY <2>6 DEF AskFleet, LivePeerCount, QueryTypeOK, QueryStages, Asking
    <3>3. AnswersTruthful'
      BY <2>6 DEF AskFleet, LivePeerCount, QueryTypeOK, QueryStages, AnswersTruthful, MergedTruthful, Truthful, Asking
    <3>4. MergedTruthful'
      BY <2>6 DEF AskFleet, LivePeerCount, QueryTypeOK, QueryStages, AnswersTruthful, MergedTruthful, Truthful, Asking
    <3>5. CountsAlive'
      BY Zenon, <2>6 DEF AskFleet, LivePeerCount, QueryTypeOK, CountsAlive
    <3> QED
      BY Zenon, <3>1, <3>2, <3>3, <3>4, <3>5
  <2>7. ASSUME NEW p \in Remote, NEW q \in Ask, RespondToMetricsRequest(p, q) PROVE QueryInv'
    <3>1. QueryTypeOK'
      BY <2>7 DEF RespondToMetricsRequest, Answer, Server, QueryTypeOK
    <3>2. QueryStages'
      BY <2>7 DEF RespondToMetricsRequest, Answer, Server, QueryTypeOK, QueryStages, Asking
    <3>3. AnswersTruthful'
      BY <2>7 DEF RespondToMetricsRequest, Answer, Server, QueryTypeOK, QueryStages, AnswersTruthful, MergedTruthful, Truthful, Asking
    <3>4. MergedTruthful'
      BY Zenon, <2>7 DEF RespondToMetricsRequest, Answer, Server, QueryTypeOK, QueryStages, AnswersTruthful, MergedTruthful, Truthful, Asking
    <3>5. CountsAlive'
      BY Zenon, <2>7 DEF RespondToMetricsRequest, Answer, Server, QueryTypeOK, CountsAlive
    <3> QED
      BY Zenon, <3>1, <3>2, <3>3, <3>4, <3>5
  <2>8. ASSUME NEW p \in Remote, NEW q \in Ask, LoseRequest(p, q) PROVE QueryInv'
    <3>1. QueryTypeOK'
      BY Zenon, <2>8 DEF LoseRequest, QueryTypeOK
    <3>2. QueryStages'
      BY Zenon, <2>8 DEF LoseRequest, QueryTypeOK, QueryStages, Asking
    <3>3. AnswersTruthful'
      BY Zenon, <2>8 DEF LoseRequest, QueryTypeOK, QueryStages, AnswersTruthful, MergedTruthful, Truthful, Asking
    <3>4. MergedTruthful'
      BY Zenon, <2>8 DEF LoseRequest, QueryTypeOK, QueryStages, AnswersTruthful, MergedTruthful, Truthful, Asking
    <3>5. CountsAlive'
      BY Zenon, <2>8 DEF LoseRequest, QueryTypeOK, CountsAlive
    <3> QED
      BY Zenon, <3>1, <3>2, <3>3, <3>4, <3>5
  <2>9. ASSUME NEW a \in answers, MetricsResponse(a) PROVE QueryInv'
    <3>1. QueryTypeOK'
      BY Zenon, <2>9 DEF MetricsResponse, Waiting, Answer, QueryTypeOK
    <3>2. QueryStages'
      BY Zenon, <2>9 DEF MetricsResponse, Waiting, Answer, QueryTypeOK, QueryStages, Asking
    <3>3. AnswersTruthful'
      BY <2>9 DEF MetricsResponse, Waiting, Answer, QueryTypeOK, QueryStages, AnswersTruthful, MergedTruthful, Truthful, Asking
    <3>4. MergedTruthful'
      BY Zenon, <2>9 DEF MetricsResponse, Waiting, Answer, QueryTypeOK, QueryStages, AnswersTruthful, MergedTruthful, Truthful, Asking
    <3>5. CountsAlive'
      BY Zenon, <2>9 DEF MetricsResponse, Waiting, Answer, QueryTypeOK, CountsAlive
    <3> QED
      BY Zenon, <3>1, <3>2, <3>3, <3>4, <3>5
  <2>10. ASSUME NEW q \in Ask, NEW a \in inbox[q], Collect(q, a) PROVE QueryInv'
    <3>1. QueryTypeOK'
      BY <2>10 DEF Collect, Enough, Merge, Answer, QueryTypeOK
    <3>2. QueryStages'
      BY <2>10 DEF Collect, Enough, Merge, Answer, QueryTypeOK, QueryStages, Asking
    <3>3. AnswersTruthful'
      BY SMTT(30), <2>10 DEF Collect, Enough, Merge, Answer, QueryTypeOK, QueryStages, AnswersTruthful, MergedTruthful, Truthful, Asking
    <3>4. MergedTruthful'
      BY SMTT(30), <2>10 DEF Collect, Enough, Merge, Answer, QueryTypeOK, QueryStages, AnswersTruthful, MergedTruthful, Truthful, Asking
    <3>5. CountsAlive'
      BY <2>10 DEF Collect, Enough, Merge, Answer, QueryTypeOK, CountsAlive
    <3> QED
      BY Zenon, <3>1, <3>2, <3>3, <3>4, <3>5
  <2>11. CASE UNCHANGED queryVars
    BY Zenon, <2>11 DEF queryVars, QueryTypeOK, QueryStages, AnswersTruthful, MergedTruthful,
              CountsAlive, Truthful, Asking
  <2> QED
    BY Zenon, <2>1, <2>2, <2>3, <2>4, <2>5, <2>6, <2>7, <2>8, <2>9, <2>10, <2>11 DEF QueryNext
<1> QED
  BY <1>1, <1>2, PTL DEF QuerySpec

\* A query reports no user who was nowhere while it ran: an answer that comes in
\* after its query has ended is not merged into a later one.
THEOREM AnswersAlwaysCurrent == QuerySpec => []AnswersAreCurrent
<1>1. QueryInv => AnswersAreCurrent
  BY Zenon DEF QueryInv, QueryTypeOK, QueryStages, MergedTruthful, AnswersAreCurrent
<1> QED
  BY <1>1, QueryInvariance, PTL

\* A query that stops waiting because as many peers answered as live_peer_count
\* said were alive has every user who stayed on this node or on one of them.
THEOREM EarlyAnswersComplete == QuerySpec => []EarlyAnswerIsComplete
<1>1. ASSUME QueryInv PROVE EarlyAnswerIsComplete
  <2> SUFFICES ASSUME NEW q \in early, responders[q] \subseteq alive[q],
                      NEW x \in stayed[q], x[1] \in {Here} \cup alive[q]
               PROVE  x[2] \in merged[q]
    BY Zenon DEF EarlyAnswerIsComplete
  <2>1. q \in Ask /\ Asking(q) /\ alive[q] \subseteq Remote
    BY Zenon, <1>1 DEF QueryInv, QueryTypeOK, CountsAlive, Asking
  <2>2. IsFiniteSet(alive[q])
    BY Zenon, <2>1, QueryConstants, FS_Subset
  <2>3. responders[q] = alive[q]
    <3>1. Cardinality(responders[q]) >= Cardinality(alive[q])
      BY Zenon, <1>1 DEF QueryInv, CountsAlive
    <3>2. Cardinality(alive[q]) \in Nat /\ Cardinality(responders[q]) \in Nat
      BY Zenon, <2>2, FS_Subset, FS_CardinalityType
    <3> QED
      BY SMTT(30), <2>2, <3>1, <3>2, FS_Subset
  <2> QED
    BY Zenon, <1>1, <2>1, <2>3 DEF QueryInv, MergedTruthful
<1> QED
  BY <1>1, QueryInvariance, PTL

(***************************************************************************)
(* The cache channel                                                       *)
(***************************************************************************)

ClientPlaces == {"out", "joined", "expired", "replay", "miss", "in", "reap", "reapExpired"}
PublisherPlaces == {"idle", "next", "found", "sent"}

CacheTypeOK ==
    /\ chanOf \in Object \cup {NoObject}
    /\ member \in [Object -> SUBSET Client]
    /\ payload \in [Object -> [event : Nat, age : {"none", "fresh", "stale"}]]
    /\ notified \in [Object -> {"never", "recent", "long ago"}]
    /\ hit \in [Client -> Nat]
    /\ target \in [Publisher -> Object \cup {NoObject}]
    /\ submitted \in [Publisher -> Seq(Nat)]
    /\ events \in Nat
    /\ seen \in [Client -> Nat]
    /\ misses \in Nat
    /\ current \in Nat
    /\ alone \subseteq Publisher
    /\ overlap \subseteq Client

PlacesOK ==
    /\ at \in [Client \cup Publisher \cup {"gc"} -> ClientPlaces \cup PublisherPlaces]
    /\ \A s \in Client : at[s] \in ClientPlaces
    /\ \A p \in Publisher : at[p] \in PublisherPlaces

\* Between the join and the answer to it.
Joining(s) == at[s] \in {"joined", "expired", "replay", "miss"}

\* Whoever is subscribed or about to be is a member of the channel of the map.
MembersAreInMap ==
    \A s \in Client : Joining(s) \/ at[s] = "in" => chanOf \in Object /\ s \in member[chanOf]

\* Once a miss has been reported the channel of the map remembers it, as long as it
\* is the channel of that time.
MissIsRemembered ==
    ~recreated =>
        /\ misses <= 1
        /\ chanOf \in Object /\ notified[chanOf] # "recent" => misses = 0

\* A publisher that has work has an event to dispatch and, once it has looked the
\* channel up, a channel.
PublishersHaveWork ==
    \A p \in Publisher :
        /\ at[p] # "idle" => submitted[p] # <<>>
        /\ at[p] \in {"found", "sent"} => target[p] \in Object

\* What the histories say of publishers at work and of those who join meanwhile.
Histories ==
    /\ \A p \in alone : AtWork \subseteq {p}
    /\ AtWork # {} => \A s \in Client : Joining(s) => s \in overlap

\* What is sent and not yet stored has reached every subscriber who was there.
SentReachesMembers ==
    \A p \in alone : at[p] = "sent" /\ target[p] = chanOf =>
        \A s \in Client \ overlap : at[s] = "in" => seen[s] = Head(submitted[p])

\* A client that joins while nothing is published finds the current event.
JoinersFindCurrent ==
    Undisturbed /\ current # 0 =>
        \A s \in Client \ overlap :
            /\ at[s] \notin {"expired", "miss"}
            /\ at[s] = "replay" => hit[s] = current

CacheInv ==
    /\ CacheTypeOK /\ PlacesOK /\ MembersAreInMap /\ MissIsRemembered
    /\ PublishersHaveWork /\ Histories /\ KeptForLateSubscribers
    /\ SentReachesMembers /\ JoinersFindCurrent /\ SubscribersAreCurrent

(***************************************************************************)
(* Who is where                                                            *)
(***************************************************************************)

\* A step of one client leaves publishers and other clients where they are.
LEMMA ClientMoves ==
    ASSUME PlacesOK, NEW s \in Client, NEW v \in ClientPlaces, at' = [at EXCEPT ![s] = v]
    PROVE  /\ PlacesOK'
           /\ at'[s] = v
           /\ \A x \in Client : x # s => at'[x] = at[x] /\ Joining(x)' = Joining(x)
           /\ \A p \in Publisher : at'[p] = at[p]
           /\ AtWork' = AtWork
<1> USE CacheConstants DEF Publisher, ClientPlaces, PublisherPlaces
<1>1. s \notin Publisher /\ s # "gc"
  OBVIOUS
<1>2. /\ at'[s] = v
      /\ \A x \in Client : x # s => at'[x] = at[x]
      /\ \A p \in Publisher : at'[p] = at[p]
  BY Zenon, <1>1 DEF PlacesOK
<1>3. PlacesOK'
  BY Zenon, <1>2 DEF PlacesOK
<1>4. AtWork' = AtWork
  BY Zenon, <1>2 DEF AtWork
<1> QED
  BY Zenon, <1>2, <1>3, <1>4 DEF Joining

\* A step of one publisher leaves the clients and the other publisher where they
\* are.
LEMMA PublisherMoves ==
    ASSUME PlacesOK, NEW p \in Publisher, NEW v \in PublisherPlaces, at' = [at EXCEPT ![p] = v]
    PROVE  /\ PlacesOK'
           /\ at'[p] = v
           /\ \A x \in Client : at'[x] = at[x] /\ Joining(x)' = Joining(x)
           /\ \A q \in Publisher : q # p => at'[q] = at[q]
           /\ AtWork' = IF v \in {"found", "sent"} THEN AtWork \cup {p} ELSE AtWork \ {p}
<1> USE CacheConstants DEF Publisher, ClientPlaces, PublisherPlaces
<1>1. p \notin Client /\ p # "gc"
  OBVIOUS
<1>2. /\ at'[p] = v
      /\ \A x \in Client : at'[x] = at[x]
      /\ \A q \in Publisher : q # p => at'[q] = at[q]
  BY Zenon, <1>1 DEF PlacesOK
<1>3. PlacesOK'
  BY Zenon, <1>2 DEF PlacesOK
<1>4. AtWork' = IF v \in {"found", "sent"} THEN AtWork \cup {p} ELSE AtWork \ {p}
  BY Zenon, <1>2 DEF AtWork
<1> QED
  BY Zenon, <1>2, <1>3, <1>4 DEF Joining

\* A step of the GC moves nobody else.
LEMMA GcMoves ==
    ASSUME PlacesOK, NEW v \in PublisherPlaces \cup ClientPlaces, at' = [at EXCEPT !["gc"] = v]
    PROVE  /\ PlacesOK'
           /\ \A x \in Client : at'[x] = at[x] /\ Joining(x)' = Joining(x)
           /\ \A q \in Publisher : at'[q] = at[q]
           /\ AtWork' = AtWork
<1> USE CacheConstants DEF Publisher, ClientPlaces, PublisherPlaces
<1>1. "gc" \notin Client /\ "gc" \notin Publisher
  OBVIOUS
<1>2. /\ \A x \in Client : at'[x] = at[x]
      /\ \A q \in Publisher : at'[q] = at[q]
  BY Zenon, <1>1 DEF PlacesOK
<1>3. PlacesOK'
  BY Zenon, <1>2 DEF PlacesOK
<1>4. AtWork' = AtWork
  BY Zenon, <1>2 DEF AtWork
<1> QED
  BY Zenon, <1>2, <1>3, <1>4 DEF Joining

(***************************************************************************)
(* Each step                                                               *)
(***************************************************************************)

\* The map's channel, or a spare one that no publisher holds.
LEMMA OrInsertProperties ==
    ASSUME CacheTypeOK, chanOf # NoObject \/ Spare # {}
    PROVE  /\ OrInsert \in Object
           /\ chanOf \in Object => OrInsert = chanOf
           /\ chanOf \notin Object => \A p \in Publisher : target[p] # OrInsert
<1>1. CASE chanOf \in Object
  BY Zenon, <1>1, CacheConstants DEF OrInsert
<1>2. CASE chanOf \notin Object
  <2>1. chanOf = NoObject
    BY Zenon, <1>2 DEF CacheTypeOK
  <2>2. OrInsert \in Spare
    BY Zenon, <2>1 DEF OrInsert
  <2> QED
    BY Zenon, <1>2, <2>2 DEF Spare
<1> QED
  BY Zenon, <1>1, <1>2

\* Joining keeps the invariant: a joiner sees either a publisher at work, and is
\* then marked so, or none.
LEMMA SubscribeStep ==
    ASSUME CacheInv, NEW s \in Client, Subscribe(s)
    PROVE  CacheInv'
<1> DEFINE o == OrInsert
<1> USE DEF CacheInv
<1>1. /\ o \in Object
      /\ chanOf \in Object => o = chanOf
      /\ chanOf \notin Object => \A p \in Publisher : target[p] # o
  BY Zenon, OrInsertProperties DEF Subscribe
<1>2. /\ chanOf' = o
      /\ member' = [member EXCEPT ![o] = @ \cup {s}]
      /\ payload' = IF chanOf \in Object THEN payload ELSE [payload EXCEPT ![o] = NoPayload]
      /\ notified' = IF chanOf \in Object THEN notified ELSE [notified EXCEPT ![o] = "never"]
      /\ recreated' = (recreated \/ (chanOf \notin Object /\ misses > 0))
      /\ overlap' = IF AtWork # {} THEN overlap \cup {s} ELSE overlap \ {s}
      /\ at' = [at EXCEPT ![s] = "joined"]
      /\ UNCHANGED <<hit, target, submitted, events, seen, misses, current, alone, crossing, lost>>
  BY Zenon, CacheConstants DEF Subscribe, Renewed, CacheTypeOK, dispatching
<1> HIDE DEF o
<1>3. /\ PlacesOK'
      /\ at'[s] = "joined"
      /\ \A x \in Client : x # s => at'[x] = at[x] /\ Joining(x)' = Joining(x)
      /\ \A p \in Publisher : at'[p] = at[p]
      /\ AtWork' = AtWork
  BY Zenon, <1>2, ClientMoves DEF ClientPlaces
<1>4. CacheTypeOK'
  BY Zenon, <1>1, <1>2 DEF CacheTypeOK, NoPayload
<1>5. MembersAreInMap'
  <2> SUFFICES ASSUME NEW x \in Client, Joining(x)' \/ at'[x] = "in"
               PROVE  x \in member'[o]
    BY Zenon, <1>1, <1>2 DEF MembersAreInMap
  <2>1. CASE x = s
    BY Zenon, <1>1, <1>2, <2>1 DEF CacheTypeOK
  <2>2. CASE x # s
    BY Zenon, <1>1, <1>2, <1>3, <2>2 DEF MembersAreInMap, CacheTypeOK
  <2> QED
    BY Zenon, <2>1, <2>2
<1>6. MissIsRemembered'
  <2>1. CASE chanOf \in Object
    BY Zenon, <1>1, <1>2, <2>1 DEF MissIsRemembered
  <2>2. CASE chanOf \notin Object
    <3>1. misses > 0 \/ (misses = 0 /\ misses <= 1)
      <4>1. misses \in Nat
        BY Zenon DEF CacheTypeOK
      <4> QED
        BY <4>1
    <3> QED
      BY Zenon, <1>2, <2>2, <3>1 DEF MissIsRemembered
  <2> QED
    BY Zenon, <2>1, <2>2
<1>7. PublishersHaveWork'
  BY Zenon, <1>2, <1>3 DEF PublishersHaveWork
<1>8. Histories'
  BY Zenon, <1>2, <1>3 DEF Histories, CacheTypeOK
<1>9. Undisturbed' = Undisturbed
  BY Zenon, <1>2, <1>3 DEF Undisturbed
<1>10. KeptForLateSubscribers'
  BY Zenon, <1>1, <1>2, <1>9, CacheConstants DEF KeptForLateSubscribers, CacheTypeOK
<1>11. SentReachesMembers'
  <2> SUFFICES ASSUME NEW p \in alone, at'[p] = "sent", target[p] = o,
                      NEW x \in Client \ overlap', at'[x] = "in"
               PROVE  seen[x] = Head(submitted[p])
    BY SMTT(30), <1>2 DEF SentReachesMembers
  <2>1. p \in Publisher /\ at[p] = "sent" /\ x # s /\ at[x] = "in" /\ x \notin overlap
    BY Zenon, <1>2, <1>3 DEF CacheTypeOK
  <2>2. target[p] = chanOf
    BY Zenon, <1>1, <2>1
  <2> QED
    BY Zenon, <2>1, <2>2 DEF SentReachesMembers
<1>12. JoinersFindCurrent'
  BY Zenon, <1>2, <1>3, <1>9 DEF JoinersFindCurrent, CacheTypeOK
<1>13. SubscribersAreCurrent'
  BY Zenon, <1>2, <1>3, <1>9 DEF SubscribersAreCurrent, CacheTypeOK
<1> QED
  BY Zenon, <1>3, <1>4, <1>5, <1>6, <1>7, <1>8, <1>10, <1>11, <1>12, <1>13

\* What has been sent stays with the subscribers while no publisher moves and
\* nobody becomes a subscriber unmarked.
LEMMA SentStays ==
    ASSUME CacheInv, UNCHANGED <<chanOf, target, submitted, alone>>,
           \A p \in Publisher : at'[p] = at[p],
           \A x \in Client \ overlap' :
              at'[x] = "in" => AtWork = {} \/ (at[x] = "in" /\ x \notin overlap /\ seen'[x] = seen[x])
    PROVE  SentReachesMembers'
<1> SUFFICES ASSUME NEW p \in alone, at'[p] = "sent", target[p] = chanOf,
                    NEW x \in Client \ overlap', at'[x] = "in"
             PROVE  seen'[x] = Head(submitted[p])
  BY Zenon DEF SentReachesMembers
<1>1. p \in Publisher /\ at[p] = "sent"
  BY Zenon DEF CacheInv, CacheTypeOK
<1>2. p \in AtWork
  BY Zenon, <1>1 DEF AtWork
<1>3. at[x] = "in" /\ x \notin overlap /\ seen'[x] = seen[x]
  BY Zenon, <1>2
<1> QED
  BY Zenon, <1>1, <1>3 DEF CacheInv, SentReachesMembers

\* Looking the payload up: a current one is found and, being fresh, not dropped.
LEMMA CachedPayloadStep ==
    ASSUME CacheInv, NEW s \in Client, CachedPayload(s)
    PROVE  CacheInv'
<1> USE DEF CacheInv
<1>1. at[s] \in {"joined", "expired"} /\ Joining(s) /\ chanOf \in Object /\ s \in member[chanOf]
  BY Zenon DEF CachedPayload, MembersAreInMap, Joining
<1>2. UNCHANGED <<chanOf, member, notified, target, submitted, events, seen,
                  misses, recreated, current, alone, crossing, lost, overlap>>
  BY Zenon DEF CachedPayload, dispatching, outcome
<1>3. PICK v \in {"expired", "replay", "miss"} : at' = [at EXCEPT ![s] = v]
  BY Zenon DEF CachedPayload
<1>4. /\ PlacesOK'
      /\ at'[s] = v /\ Joining(s)'
      /\ \A x \in Client : x # s => at'[x] = at[x] /\ Joining(x)' = Joining(x)
      /\ \A p \in Publisher : at'[p] = at[p]
      /\ AtWork' = AtWork
  BY Zenon, <1>3, ClientMoves DEF ClientPlaces, Joining
<1>5. /\ hit' \in [Client -> Nat]
      /\ \A x \in Client : x # s => hit'[x] = hit[x]
      /\ payload' = payload \/ (payload[chanOf].age = "stale" /\ payload' = [payload EXCEPT ![chanOf] = NoPayload])
  <2> DEFINE stale == payload[chanOf].age = "stale"
             event == IF payload[chanOf].age = "fresh" THEN payload[chanOf].event ELSE 0
  <2>1. CASE stale /\ at[s] # "expired"
    BY Zenon, <2>1 DEF CachedPayload, CacheTypeOK
  <2>2. CASE ~(stale /\ at[s] # "expired")
    <3>1. /\ hit' = [hit EXCEPT ![s] = event]
          /\ payload' = IF stale THEN [payload EXCEPT ![chanOf] = NoPayload] ELSE payload
      BY Zenon, <2>2 DEF CachedPayload
    <3>2. event \in Nat
      BY Zenon, <1>1 DEF CacheTypeOK
    <3> HIDE DEF event
    <3> QED
      BY Zenon, <3>1, <3>2 DEF CacheTypeOK
  <2> QED
    BY Zenon, <2>1, <2>2
<1>6. payload[chanOf].age = "fresh" => v = "replay" /\ hit'[s] = payload[chanOf].event
  <2> SUFFICES ASSUME payload[chanOf].age = "fresh"
               PROVE  v = "replay" /\ hit'[s] = payload[chanOf].event
    OBVIOUS
  <2>1. /\ at' = [at EXCEPT ![s] = "replay"]
        /\ hit' = [hit EXCEPT ![s] = payload[chanOf].event]
    BY Zenon DEF CachedPayload
  <2> QED
    BY Zenon, <1>4, <2>1 DEF CacheTypeOK, PlacesOK
<1>7. CacheTypeOK'
  <2>1. payload' \in [Object -> [event : Nat, age : {"none", "fresh", "stale"}]]
    <3>1. NoPayload \in [event : Nat, age : {"none", "fresh", "stale"}]
      BY Zenon DEF NoPayload
    <3> QED
      BY ZenonT(30), <1>1, <1>5, <3>1 DEF CacheTypeOK
  <2> QED
    BY Zenon, <1>2, <1>5, <2>1 DEF CacheTypeOK
<1>8. MembersAreInMap' /\ MissIsRemembered' /\ PublishersHaveWork'
  BY Zenon, <1>1, <1>2, <1>4 DEF MembersAreInMap, MissIsRemembered, PublishersHaveWork
<1>9. Histories'
  BY Zenon, <1>1, <1>2, <1>4 DEF Histories
<1>10. Undisturbed' = Undisturbed
  BY Zenon, <1>2, <1>4 DEF Undisturbed
<1>11. Undisturbed /\ current # 0 => payload[chanOf] = [event |-> current, age |-> "fresh"]
  BY Zenon DEF KeptForLateSubscribers
<1>12. KeptForLateSubscribers'
  BY SMTT(30), <1>1, <1>2, <1>5, <1>10, <1>11 DEF KeptForLateSubscribers, CacheConstants
<1>13. SentReachesMembers'
  BY Zenon, <1>2, <1>3, <1>4, SentStays
<1>14. JoinersFindCurrent'
  BY SMTT(30), <1>2, <1>4, <1>5, <1>6, <1>10, <1>11 DEF JoinersFindCurrent
<1>15. SubscribersAreCurrent'
  BY Zenon, <1>2, <1>3, <1>4, <1>10 DEF SubscribersAreCurrent
<1> QED
  BY Zenon, <1>4, <1>7, <1>8, <1>9, <1>12, <1>13, <1>14, <1>15

\* The replay, or the miss and its webhook: a client that was not overtaken by a
\* publisher now has the current event.
LEMMA AnswerStep ==
    ASSUME CacheInv, NEW s \in Client, Replay(s) \/ CacheMiss(s)
    PROVE  CacheInv'
<1> USE DEF CacheInv
<1>1. /\ Joining(s) /\ at' = [at EXCEPT ![s] = "in"]
      /\ UNCHANGED <<chanOf, member, payload, target, submitted, events,
                     current, alone, crossing, lost, overlap>>
  BY Zenon DEF Replay, CacheMiss, Joining, store, dispatching, outcome
<1>2. /\ PlacesOK'
      /\ at'[s] = "in"
      /\ \A x \in Client : x # s => at'[x] = at[x] /\ Joining(x)' = Joining(x)
      /\ \A p \in Publisher : at'[p] = at[p]
      /\ AtWork' = AtWork
  BY Zenon, <1>1, ClientMoves DEF ClientPlaces
<1>3. chanOf \in Object
  BY Zenon, <1>1 DEF MembersAreInMap
<1>4. /\ \A x \in Client : x # s => seen'[x] = seen[x] /\ hit'[x] = hit[x]
      /\ at[s] = "miss" \/ (at[s] = "replay" /\ seen'[s] = hit[s])
      /\ seen' \in [Client -> Nat] /\ hit' \in [Client -> Nat]
  <2>1. CASE Replay(s)
    BY Zenon, <2>1 DEF Replay, CacheTypeOK
  <2>2. CASE CacheMiss(s)
    BY Zenon, <2>2 DEF CacheMiss, CacheTypeOK
  <2> QED
    BY Zenon, <2>1, <2>2
<1>5. /\ notified' \in [Object -> {"never", "recent", "long ago"}]
      /\ misses' \in Nat
      /\ MissIsRemembered'
  <2>1. CASE Replay(s)
    BY Zenon, <2>1 DEF Replay, store, outcome, CacheTypeOK, MissIsRemembered
  <2>2. CASE CacheMiss(s) /\ ClaimCacheMiss(chanOf)
    <3>1. /\ notified' = [notified EXCEPT ![chanOf] = "recent"]
          /\ misses' = IF misses < 2 THEN misses + 1 ELSE misses
          /\ UNCHANGED <<chanOf, recreated>>
      BY Zenon, <1>3, <2>2, CacheConstants DEF CacheMiss
    <3>2. ~recreated => misses = 0
      BY Zenon, <1>3, <2>2 DEF ClaimCacheMiss, MissIsRemembered
    <3>3. notified' \in [Object -> {"never", "recent", "long ago"}] /\ notified'[chanOf] = "recent"
      BY Zenon, <1>3, <3>1 DEF CacheTypeOK
    <3>4. misses' \in Nat /\ (misses = 0 => misses' <= 1)
      <4>1. misses \in Nat
        BY Zenon DEF CacheTypeOK
      <4> QED
        BY <3>1, <4>1
    <3>5. MissIsRemembered'
      BY Zenon, <3>1, <3>2, <3>3, <3>4 DEF MissIsRemembered
    <3> QED
      BY Zenon, <3>3, <3>4, <3>5
  <2>3. CASE CacheMiss(s) /\ ~ClaimCacheMiss(chanOf)
    BY Zenon, <2>3 DEF CacheMiss, CacheTypeOK, MissIsRemembered
  <2> QED
    BY Zenon, <2>1, <2>2, <2>3
<1>6. CacheTypeOK'
  BY Zenon, <1>1, <1>4, <1>5 DEF CacheTypeOK
<1>7. MembersAreInMap' /\ PublishersHaveWork'
  BY Zenon, <1>1, <1>2, <1>3 DEF MembersAreInMap, PublishersHaveWork
<1>8. Histories'
  BY Zenon, <1>1, <1>2 DEF Histories, Joining
<1>9. Undisturbed' = Undisturbed
  BY Zenon, <1>1, <1>2 DEF Undisturbed
<1>10. KeptForLateSubscribers'
  BY Zenon, <1>1, <1>9 DEF KeptForLateSubscribers
<1>11. SentReachesMembers'
  <2>1. AtWork # {} => s \in overlap
    BY Zenon, <1>1 DEF Histories
  <2> QED
    BY Zenon, <1>1, <1>2, <1>4, <2>1, SentStays
<1>12. JoinersFindCurrent'
  BY Zenon, <1>1, <1>2, <1>4, <1>9 DEF JoinersFindCurrent
<1>13. SubscribersAreCurrent'
  BY Zenon, <1>1, <1>2, <1>4, <1>9 DEF SubscribersAreCurrent, JoinersFindCurrent
<1> QED
  BY Zenon, <1>2, <1>5, <1>6, <1>7, <1>8, <1>10, <1>11, <1>12, <1>13
\* Leaving keeps the invariant.
LEMMA UnsubscribeStep ==
    ASSUME CacheInv, NEW s \in Client, Unsubscribe(s)
    PROVE  CacheInv'
<1> USE DEF CacheInv
<1>1. /\ at[s] = "in" /\ at' = [at EXCEPT ![s] = "reap"]
      /\ member' = [member EXCEPT ![chanOf] = @ \ {s}]
      /\ seen' = [seen EXCEPT ![s] = 0]
      /\ overlap' = overlap \ {s}
      /\ UNCHANGED <<chanOf, payload, notified, hit, target, submitted, events,
                     misses, recreated, current, alone, crossing, lost>>
  BY Zenon DEF Unsubscribe, dispatching
<1>2. /\ PlacesOK'
      /\ at'[s] = "reap" /\ ~Joining(s)'
      /\ \A x \in Client : x # s => at'[x] = at[x] /\ Joining(x)' = Joining(x)
      /\ \A p \in Publisher : at'[p] = at[p]
      /\ AtWork' = AtWork
  BY Zenon, <1>1, ClientMoves DEF ClientPlaces, Joining
<1>3. chanOf \in Object
  BY Zenon, <1>1 DEF MembersAreInMap
<1>4. CacheTypeOK'
  BY Zenon, <1>1, <1>3 DEF CacheTypeOK
<1>5. MembersAreInMap'
  BY Zenon, <1>1, <1>2, <1>3 DEF MembersAreInMap, CacheTypeOK
<1>6. MissIsRemembered' /\ PublishersHaveWork'
  BY Zenon, <1>1, <1>2 DEF MissIsRemembered, PublishersHaveWork
<1>7. Histories'
  BY Zenon, <1>1, <1>2 DEF Histories
<1>8. Undisturbed' = Undisturbed
  BY Zenon, <1>1, <1>2 DEF Undisturbed
<1>9. KeptForLateSubscribers'
  BY Zenon, <1>1, <1>8 DEF KeptForLateSubscribers
<1>10. SentReachesMembers'
  BY Zenon, <1>1, <1>2, SentStays DEF CacheTypeOK
<1>11. JoinersFindCurrent'
  BY Zenon, <1>1, <1>2, <1>8 DEF JoinersFindCurrent
<1>12. SubscribersAreCurrent'
  BY Zenon, <1>1, <1>2, <1>8 DEF SubscribersAreCurrent, CacheTypeOK
<1> QED
  BY Zenon, <1>2, <1>4, <1>5, <1>6, <1>7, <1>9, <1>10, <1>11, <1>12

\* A client event, and the start of the GC, change nothing that is kept.
LEMMA IdleStep ==
    ASSUME CacheInv, (\E s \in Client : ClientEvent(s)) \/ GcEmptyCacheChannels
    PROVE  CacheInv'
<1> USE DEF CacheInv
<1>1. UNCHANGED <<chanOf, member, payload, notified, hit, target, submitted, events, seen,
                  misses, recreated, current, alone, crossing, lost, overlap>>
  BY Zenon DEF ClientEvent, Cached, GcEmptyCacheChannels, store, dispatching, outcome
<1>2. /\ PlacesOK'
      /\ \A x \in Client : at'[x] = at[x] /\ Joining(x)' = Joining(x)
      /\ \A p \in Publisher : at'[p] = at[p]
      /\ AtWork' = AtWork
  <2>1. CASE at' = at
    BY Zenon, <2>1 DEF PlacesOK, Joining, AtWork
  <2>2. CASE at' = [at EXCEPT !["gc"] = "reap"]
    BY Zenon, <2>2, GcMoves DEF ClientPlaces
  <2> QED
    BY Zenon, <2>1, <2>2 DEF ClientEvent, GcEmptyCacheChannels
<1>3. CacheTypeOK'
  BY Zenon, <1>1 DEF CacheTypeOK
<1>4. MembersAreInMap' /\ MissIsRemembered' /\ PublishersHaveWork'
  BY Zenon, <1>1, <1>2 DEF MembersAreInMap, MissIsRemembered, PublishersHaveWork
<1>5. Histories'
  BY Zenon, <1>1, <1>2 DEF Histories
<1>6. Undisturbed' = Undisturbed
  BY Zenon, <1>1, <1>2 DEF Undisturbed
<1>7. KeptForLateSubscribers'
  BY Zenon, <1>1, <1>6 DEF KeptForLateSubscribers
<1>8. SentReachesMembers'
  BY Zenon, <1>1, <1>2, SentStays
<1>9. JoinersFindCurrent' /\ SubscribersAreCurrent'
  BY Zenon, <1>1, <1>2, <1>6 DEF JoinersFindCurrent, SubscribersAreCurrent
<1> QED
  BY Zenon, <1>2, <1>3, <1>4, <1>5, <1>7, <1>8, <1>9

\* remove_if drops only a channel without members and without a fresh payload,
\* and forgets only an expired payload.
LEMMA ReapStep ==
    ASSUME CacheInv, NEW t \in Client \cup {"gc"}, Reap(t)
    PROVE  CacheInv'
<1> USE DEF CacheInv
<1>1. /\ UNCHANGED <<member, notified, hit, target, submitted, events, seen,
                     misses, recreated, current, alone, crossing, lost, overlap>>
      /\ at[t] \in {"reap", "reapExpired"}
  BY Zenon DEF Reap, dispatching, outcome
<1>2. PICK v \in {"reapExpired", "idle", "out"} :
          at' = [at EXCEPT ![t] = v] /\ (t # "gc" => v # "idle")
  BY Zenon DEF Reap
<1>3. /\ PlacesOK'
      /\ \A x \in Client : /\ at'[x] = at[x] \/ {at[x], at'[x]} \subseteq {"reap", "reapExpired", "out"}
                           /\ Joining(x)' = Joining(x)
      /\ \A p \in Publisher : at'[p] = at[p]
      /\ AtWork' = AtWork
  <2>1. CASE t = "gc"
    BY Zenon, <1>2, <2>1, GcMoves DEF ClientPlaces, PublisherPlaces
  <2>2. CASE t # "gc"
    <3>1. t \in Client /\ v \in ClientPlaces
      BY Zenon, <1>2, <2>2 DEF ClientPlaces
    <3>2. /\ PlacesOK' /\ at'[t] = v
          /\ \A x \in Client : x # t => at'[x] = at[x] /\ Joining(x)' = Joining(x)
          /\ \A p \in Publisher : at'[p] = at[p]
          /\ AtWork' = AtWork
      BY Zenon, <1>2, <3>1, ClientMoves
    <3>3. /\ Joining(t)' = Joining(t)
          /\ {at[t], at'[t]} \subseteq {"reap", "reapExpired", "out"}
      BY <1>1, <1>2, <2>2, <3>2 DEF Joining
    <3> QED
      BY Zenon, <3>2, <3>3
  <2> QED
    BY Zenon, <2>1, <2>2
<1>4. /\ \/ chanOf' = chanOf
         \/ /\ chanOf \in Object /\ chanOf' = NoObject
            /\ member[chanOf] = {} /\ payload[chanOf].age # "fresh"
      /\ \/ payload' = payload
         \/ /\ chanOf \in Object /\ payload[chanOf].age = "stale"
            /\ payload' = [payload EXCEPT ![chanOf] = NoPayload]
  <2>1. CASE chanOf = NoObject \/ member[chanOf] # {}
    BY Zenon, <2>1 DEF Reap
  <2>2. CASE ~(chanOf = NoObject \/ member[chanOf] # {}) /\ Stale(chanOf, TRUE) /\ at[t] # "reapExpired"
    BY Zenon, <2>2 DEF Reap, Stale
  <2>3. CASE ~(chanOf = NoObject \/ member[chanOf] # {}) /\ ~(Stale(chanOf, TRUE) /\ at[t] # "reapExpired")
    <3>1. /\ payload' = IF Stale(chanOf, TRUE) THEN [payload EXCEPT ![chanOf] = NoPayload] ELSE payload
          /\ chanOf' = IF Keeps(chanOf, Stale(chanOf, TRUE)) THEN chanOf ELSE NoObject
      BY Zenon, <2>3 DEF Reap, Stale
    <3> QED
      BY Zenon, <2>3, <3>1 DEF CacheTypeOK, Stale, Keeps
  <2> QED
    BY Zenon, <2>1, <2>2, <2>3
<1>5. CacheTypeOK'
  <2>1. NoPayload \in [event : Nat, age : {"none", "fresh", "stale"}]
    BY Zenon DEF NoPayload
  <2>2. payload' \in [Object -> [event : Nat, age : {"none", "fresh", "stale"}]]
    BY Zenon, <1>4, <2>1 DEF CacheTypeOK
  <2>3. chanOf' \in Object \cup {NoObject}
    BY Zenon, <1>4 DEF CacheTypeOK
  <2> QED
    BY Zenon, <1>1, <2>2, <2>3 DEF CacheTypeOK
<1>6. MembersAreInMap'
  BY Zenon, <1>1, <1>3, <1>4 DEF MembersAreInMap
<1>7. MissIsRemembered'
  BY Zenon, <1>1, <1>4, CacheConstants DEF MissIsRemembered
<1>8. PublishersHaveWork' /\ Histories'
  BY Zenon, <1>1, <1>3 DEF PublishersHaveWork, Histories
<1>9. Undisturbed' = Undisturbed
  BY Zenon, <1>1, <1>3 DEF Undisturbed
<1>10. KeptForLateSubscribers'
  BY <1>1, <1>4, <1>9 DEF KeptForLateSubscribers
<1>11. SentReachesMembers'
  <2>1. CASE chanOf' = chanOf
    BY Zenon, <1>1, <1>3, <2>1, SentStays
  <2>2. CASE chanOf' = NoObject
    <3> SUFFICES ASSUME NEW p \in alone, at'[p] = "sent", target[p] = NoObject
                 PROVE  FALSE
      BY Zenon, <1>1, <2>2 DEF SentReachesMembers
    <3>1. p \in Publisher /\ at[p] = "sent"
      BY Zenon, <1>3 DEF CacheTypeOK
    <3> QED
      BY Zenon, <3>1, CacheConstants DEF PublishersHaveWork
  <2> QED
    BY Zenon, <1>4, <2>1, <2>2
<1>12. JoinersFindCurrent' /\ SubscribersAreCurrent'
  BY Zenon, <1>1, <1>3, <1>9 DEF JoinersFindCurrent, SubscribersAreCurrent
<1> QED
  BY Zenon, <1>3, <1>5, <1>6, <1>7, <1>8, <1>10, <1>11, <1>12
\* The events of a request, or of a message of the bus, are handed to a publisher
\* that is not yet at work.
LEMMA RequestStep ==
    ASSUME CacheInv, (\E b \in Batches : Request(b)) \/ BusMessage
    PROVE  CacheInv'
<1> USE DEF CacheInv
<1>1. UNCHANGED <<chanOf, member, payload, notified, hit, target, seen,
                  misses, recreated, current, alone, crossing, lost, overlap>>
  BY Zenon DEF Request, BusMessage, store, outcome
<1>2. /\ events' \in Nat
      /\ \/ UNCHANGED <<at, submitted>>
         \/ \E p \in Publisher, new \in Seq(Nat) :
              /\ at[p] = "idle" /\ at' = [at EXCEPT ![p] = "next"]
              /\ new # <<>> /\ submitted' = [submitted EXCEPT ![p] = new]
  <2>1. ASSUME NEW b \in Batches, Request(b)
        PROVE  <1>2!:
    <3> DEFINE numbers == [i \in DOMAIN b |-> events + i]
    <3>1. b \in Seq(BOOLEAN) /\ b # <<>> /\ events \in Nat
      BY Zenon, CacheConstants DEF CacheTypeOK
    <3>2. numbers \in Seq(Nat) /\ numbers # <<>>
      <4>1. Len(b) \in Nat /\ DOMAIN b = 1..Len(b) /\ Len(b) # 0
        BY <3>1
      <4>2. numbers \in [1..Len(b) -> Nat]
        BY <3>1, <4>1
      <4> QED
        BY <4>1, <4>2
    <3>3. /\ events' = events + Len(b)
          /\ at["api"] = "idle"
          /\ \/ UNCHANGED <<at, submitted>>
             \/ submitted' = [submitted EXCEPT !["api"] = numbers] /\ at' = [at EXCEPT !["api"] = "next"]
      BY Zenon, <2>1 DEF Request
    <3>4. events' \in Nat
      BY <3>1, <3>3
    <3> HIDE DEF numbers
    <3> QED
      BY Zenon, <3>2, <3>3, <3>4 DEF Publisher
  <2>2. CASE BusMessage
    <3>1. events \in Nat
      BY Zenon DEF CacheTypeOK
    <3>2. <<events + 1>> \in Seq(Nat) /\ <<events + 1>> # <<>> /\ events + 1 \in Nat
      BY <3>1
    <3> QED
      BY Zenon, <2>2, <3>2 DEF BusMessage, Publisher
  <2> QED
    BY Zenon, <2>1, <2>2
<1>3. CASE UNCHANGED <<at, submitted>>
  <2>1. AtWork' = AtWork /\ Undisturbed' = Undisturbed /\ \A x \in Client : Joining(x)' = Joining(x)
    BY Zenon, <1>1, <1>3 DEF AtWork, Undisturbed, Joining
  <2>2. CacheTypeOK' /\ PlacesOK'
    BY Zenon, <1>1, <1>2, <1>3 DEF CacheTypeOK, PlacesOK
  <2>3. MembersAreInMap' /\ MissIsRemembered' /\ PublishersHaveWork' /\ Histories'
    BY Zenon, <1>1, <1>3, <2>1 DEF MembersAreInMap, MissIsRemembered, PublishersHaveWork, Histories
  <2>4. KeptForLateSubscribers' /\ JoinersFindCurrent' /\ SubscribersAreCurrent'
    BY Zenon, <1>1, <1>3, <2>1 DEF KeptForLateSubscribers, JoinersFindCurrent, SubscribersAreCurrent
  <2>5. SentReachesMembers'
    BY Zenon, <1>1, <1>3, SentStays
  <2> QED
    BY Zenon, <2>2, <2>3, <2>4, <2>5
<1>4. ASSUME NEW p \in Publisher, NEW new \in Seq(Nat),
             at[p] = "idle", at' = [at EXCEPT ![p] = "next"],
             new # <<>>, submitted' = [submitted EXCEPT ![p] = new]
      PROVE  CacheInv'
  <2>1. /\ PlacesOK'
        /\ at'[p] = "next"
        /\ \A x \in Client : at'[x] = at[x] /\ Joining(x)' = Joining(x)
        /\ \A q \in Publisher : q # p => at'[q] = at[q]
        /\ AtWork' = AtWork \ {p}
    BY Zenon, <1>4, PublisherMoves DEF PublisherPlaces
  <2>2. AtWork' = AtWork
    BY Zenon, <1>4, <2>1 DEF AtWork
  <2>3. Undisturbed' = Undisturbed
    BY Zenon, <1>1, <2>2 DEF Undisturbed
  <2>4. CacheTypeOK'
    BY Zenon, <1>1, <1>2, <1>4 DEF CacheTypeOK
  <2>5. MembersAreInMap' /\ MissIsRemembered' /\ Histories'
    BY Zenon, <1>1, <2>1, <2>2 DEF MembersAreInMap, MissIsRemembered, Histories
  <2>6. PublishersHaveWork'
    BY Zenon, <1>1, <1>4, <2>1 DEF PublishersHaveWork, CacheTypeOK
  <2>7. KeptForLateSubscribers' /\ JoinersFindCurrent' /\ SubscribersAreCurrent'
    BY Zenon, <1>1, <2>1, <2>3 DEF KeptForLateSubscribers, JoinersFindCurrent, SubscribersAreCurrent
  <2>8. SentReachesMembers'
    <3> SUFFICES ASSUME NEW q \in alone, at'[q] = "sent", target[q] = chanOf,
                        NEW x \in Client \ overlap, at'[x] = "in"
                 PROVE  seen[x] = Head(submitted'[q])
      BY Zenon, <1>1 DEF SentReachesMembers
    <3>1. q \in Publisher /\ q # p /\ at[q] = "sent" /\ at[x] = "in"
      BY Zenon, <2>1 DEF CacheTypeOK
    <3>2. submitted'[q] = submitted[q]
      BY Zenon, <1>4, <3>1 DEF CacheTypeOK
    <3> QED
      BY Zenon, <3>1, <3>2 DEF SentReachesMembers
  <2> QED
    BY Zenon, <2>1, <2>4, <2>5, <2>6, <2>7, <2>8
<1> QED
  BY Zenon, <1>2, <1>3, <1>4

\* A publisher that looks the channel up is at work from here on: those who are
\* joining are marked, and it is alone if no other is at work.
LEMMA FindChannelStep ==
    ASSUME CacheInv, NEW p \in Publisher, FindChannel(p)
    PROVE  CacheInv'
<1> DEFINE o == OrInsert
<1> USE DEF CacheInv
<1>1. /\ o \in Object
      /\ chanOf \in Object => o = chanOf
  BY Zenon, OrInsertProperties DEF FindChannel
<1>2. /\ chanOf' = o
      /\ target' = [target EXCEPT ![p] = o]
      /\ member' = IF chanOf \in Object THEN member ELSE [member EXCEPT ![o] = {}]
      /\ payload' = IF chanOf \in Object THEN payload ELSE [payload EXCEPT ![o] = NoPayload]
      /\ notified' = IF chanOf \in Object THEN notified ELSE [notified EXCEPT ![o] = "never"]
      /\ recreated' = (recreated \/ (chanOf \notin Object /\ misses > 0))
      /\ alone' = IF AtWork = {} THEN {p} ELSE {}
      /\ overlap' = overlap \cup {s \in Client : Joining(s)}
      /\ at[p] = "next" /\ at' = [at EXCEPT ![p] = "found"]
      /\ UNCHANGED <<hit, submitted, events, seen, misses, current, crossing, lost>>
  BY Zenon, CacheConstants DEF FindChannel, Renewed, CacheTypeOK, Joining
<1> HIDE DEF o
<1>3. /\ PlacesOK'
      /\ at'[p] = "found"
      /\ \A x \in Client : at'[x] = at[x] /\ Joining(x)' = Joining(x)
      /\ \A q \in Publisher : q # p => at'[q] = at[q]
      /\ AtWork' = AtWork \cup {p}
  BY Zenon, <1>2, PublisherMoves DEF PublisherPlaces
<1>4. CacheTypeOK'
  <2>1. NoPayload \in [event : Nat, age : {"none", "fresh", "stale"}]
    BY Zenon DEF NoPayload
  <2> QED
    BY Zenon, <1>1, <1>2, <2>1 DEF CacheTypeOK
<1>5. MembersAreInMap'
  BY Zenon, <1>1, <1>2, <1>3 DEF MembersAreInMap
<1>6. MissIsRemembered'
  <2>1. CASE chanOf \in Object
    BY Zenon, <1>1, <1>2, <2>1 DEF MissIsRemembered
  <2>2. CASE chanOf \notin Object
    <3>1. misses > 0 \/ (misses = 0 /\ misses <= 1)
      <4>1. misses \in Nat
        BY Zenon DEF CacheTypeOK
      <4> QED
        BY <4>1
    <3> QED
      BY Zenon, <1>2, <2>2, <3>1 DEF MissIsRemembered
  <2> QED
    BY Zenon, <2>1, <2>2
<1>7. PublishersHaveWork'
  BY Zenon, <1>1, <1>2, <1>3 DEF PublishersHaveWork, CacheTypeOK
<1>8. Histories'
  BY Zenon, <1>2, <1>3 DEF Histories
<1>9. ~Undisturbed'
  BY Zenon, <1>3 DEF Undisturbed
<1>10. KeptForLateSubscribers' /\ JoinersFindCurrent' /\ SubscribersAreCurrent'
  BY Zenon, <1>9 DEF KeptForLateSubscribers, JoinersFindCurrent, SubscribersAreCurrent
<1>11. SentReachesMembers'
  BY Zenon, <1>2, <1>3 DEF SentReachesMembers
<1> QED
  BY Zenon, <1>3, <1>4, <1>5, <1>6, <1>7, <1>8, <1>10, <1>11
\* A publisher at work sends its event to the members of its channel; one that it
\* leaves out is marked.
LEMMA SendToMembersStep ==
    ASSUME CacheInv, NEW p \in Publisher, NEW except \in Excepted, SendToMembers(p, except)
    PROVE  CacheInv'
<1> USE DEF CacheInv
<1>1. /\ at[p] = "found" /\ at' = [at EXCEPT ![p] = "sent"]
      /\ seen' = [s \in Client |-> IF s \in member[target[p]] \ except THEN Head(submitted[p]) ELSE seen[s]]
      /\ overlap' = overlap \cup (member[target[p]] \cap except)
      /\ UNCHANGED <<chanOf, member, payload, notified, hit, target, submitted, events,
                     misses, recreated, current, alone, crossing, lost>>
  BY Zenon DEF SendToMembers, store, dispatching
<1>2. /\ PlacesOK'
      /\ at'[p] = "sent"
      /\ \A x \in Client : at'[x] = at[x] /\ Joining(x)' = Joining(x)
      /\ \A q \in Publisher : q # p => at'[q] = at[q]
      /\ AtWork' = AtWork \cup {p}
  BY Zenon, <1>1, PublisherMoves DEF PublisherPlaces
<1>3. p \in AtWork /\ AtWork' = AtWork
  BY Zenon, <1>1, <1>2 DEF AtWork
<1>4. Head(submitted[p]) \in Nat
  <2>1. submitted[p] \in Seq(Nat) /\ submitted[p] # <<>>
    BY Zenon, <1>1 DEF CacheTypeOK, PublishersHaveWork
  <2> QED
    BY <2>1
<1>5. CacheTypeOK'
  <2>1. target[p] \in Object
    BY Zenon, <1>1 DEF PublishersHaveWork
  <2>2. overlap' \subseteq Client
    BY Zenon, <1>1, <2>1 DEF CacheTypeOK
  <2> QED
    BY Zenon, <1>1, <1>4, <2>2 DEF CacheTypeOK
<1>6. MembersAreInMap' /\ MissIsRemembered' /\ PublishersHaveWork' /\ Histories'
  BY Zenon, <1>1, <1>2, <1>3 DEF MembersAreInMap, MissIsRemembered, PublishersHaveWork, Histories
<1>7. ~Undisturbed'
  BY Zenon, <1>3 DEF Undisturbed
<1>8. KeptForLateSubscribers' /\ JoinersFindCurrent' /\ SubscribersAreCurrent'
  BY Zenon, <1>7 DEF KeptForLateSubscribers, JoinersFindCurrent, SubscribersAreCurrent
<1>9. SentReachesMembers'
  <2> SUFFICES ASSUME NEW q \in alone', (target[q] = chanOf)',
                      NEW x \in Client \ overlap', at'[x] = "in"
               PROVE  seen'[x] = Head(submitted'[q])
    BY Zenon DEF SentReachesMembers
  <2>0. q \in alone /\ target[q] = chanOf /\ submitted' = submitted
    BY Zenon, <1>1
  <2>1. q = p
    BY Zenon, <1>3, <2>0 DEF Histories
  <2>2. x \in member[target[p]]
    BY Zenon, <1>2, <2>0, <2>1 DEF MembersAreInMap
  <2>3. x \notin except
    BY Zenon, <1>1, <2>2
  <2> QED
    BY Zenon, <1>1, <2>0, <2>1, <2>2, <2>3
<1> QED
  BY Zenon, <1>2, <1>5, <1>6, <1>8, <1>9

\* set_cached_payload: what every subscriber was sent is now also what a later
\* one will find, unless the channel was dropped or another publisher was there.
LEMMA SetCachedPayloadStep ==
    ASSUME CacheInv, NEW p \in Publisher, SetCachedPayload(p)
    PROVE  CacheInv'
<1> USE DEF CacheInv
<1> DEFINE o == target[p]
           event == Head(submitted[p])
<1>1. at[p] = "sent" /\ o \in Object /\ event \in Nat /\ Tail(submitted[p]) \in Seq(Nat)
      /\ (Len(submitted[p]) # 1 => Tail(submitted[p]) # <<>>)
  <2>1. at[p] = "sent"
    BY Zenon DEF SetCachedPayload
  <2>2. submitted[p] \in Seq(Nat) /\ submitted[p] # <<>> /\ o \in Object
    BY Zenon, <2>1 DEF CacheTypeOK, PublishersHaveWork
  <2>3. Head(submitted[p]) \in Nat /\ Tail(submitted[p]) \in Seq(Nat)
    BY <2>2
  <2>4. Tail(submitted[p]) = <<>> => Len(submitted[p]) = 1
    <3> DEFINE rest == Tail(submitted[p])
    <3>1. Len(rest) = Len(submitted[p]) - 1 /\ Len(submitted[p]) \in Nat
      BY <2>2
    <3>2. Len(<<>>) = 0
      OBVIOUS
    <3> HIDE DEF rest
    <3>3. rest = <<>> => Len(submitted[p]) = 1
      BY <3>1, <3>2
    <3> QED
      BY Zenon, <3>3 DEF rest
  <2> QED
    BY Zenon, <2>1, <2>2, <2>3, <2>4
<1>2. /\ payload' = [payload EXCEPT ![o] = [event |-> event, age |-> "fresh"]]
      /\ notified' = [notified EXCEPT ![o] = "never"]
      /\ misses' = 0
      /\ recreated' = FALSE
      /\ current' = event
      /\ lost' = (o # chanOf)
      /\ crossing' = (p \notin alone)
      /\ overlap' = IF p \in alone THEN overlap \ {s \in Client : at[s] = "in" /\ seen[s] = event} ELSE overlap
      /\ submitted' = [submitted EXCEPT ![p] = Tail(@)]
      /\ target' = [target EXCEPT ![p] = NoObject]
      /\ UNCHANGED <<chanOf, member, hit, events, seen, alone>>
  BY Zenon DEF SetCachedPayload
<1>3. PICK v \in {"idle", "next"} :
        /\ at' = [at EXCEPT ![p] = v]
        /\ v = "next" => Len(submitted[p]) # 1
  BY Zenon DEF SetCachedPayload
<1>4. /\ PlacesOK'
      /\ at'[p] = v
      /\ \A x \in Client : at'[x] = at[x] /\ Joining(x)' = Joining(x)
      /\ \A q \in Publisher : q # p => at'[q] = at[q]
      /\ AtWork' = AtWork \ {p}
  BY Zenon, <1>3, PublisherMoves DEF PublisherPlaces
<1>5. p \in AtWork
  BY Zenon, <1>1 DEF AtWork
<1> HIDE DEF event, o
<1>6. CacheTypeOK'
  <2>1. payload' \in [Object -> [event : Nat, age : {"none", "fresh", "stale"}]]
    BY Zenon, <1>1, <1>2 DEF CacheTypeOK
  <2>2. submitted' \in [Publisher -> Seq(Nat)] /\ target' \in [Publisher -> Object \cup {NoObject}]
    BY Zenon, <1>1, <1>2 DEF CacheTypeOK
  <2>3. notified' \in [Object -> {"never", "recent", "long ago"}]
    BY Zenon, <1>1, <1>2 DEF CacheTypeOK
  <2>4. overlap' \subseteq Client
    BY Zenon, <1>2 DEF CacheTypeOK
  <2> QED
    BY Zenon, <1>1, <1>2, <2>1, <2>2, <2>3, <2>4 DEF CacheTypeOK
<1>7. MembersAreInMap'
  BY Zenon, <1>2, <1>4 DEF MembersAreInMap
<1>8. MissIsRemembered'
  BY SMTT(30), <1>2 DEF MissIsRemembered
<1>9. PublishersHaveWork'
  <2>1. \A q \in Publisher : q # p => submitted'[q] = submitted[q] /\ target'[q] = target[q]
    BY Zenon, <1>2 DEF CacheTypeOK
  <2>2. submitted'[p] = Tail(submitted[p])
    BY Zenon, <1>2 DEF CacheTypeOK
  <2> QED
    BY Zenon, <1>1, <1>3, <1>4, <2>1, <2>2 DEF PublishersHaveWork
<1>10. Histories'
  <2>1. \A q \in alone : AtWork' \subseteq {q}
    BY Zenon, <1>4 DEF Histories
  <2>2. ASSUME AtWork' # {}, NEW s \in Client, Joining(s)' PROVE s \in overlap'
    <3>1. s \in overlap
      BY Zenon, <1>4, <2>2 DEF Histories
    <3>2. p \notin alone
      BY Zenon, <1>4, <2>2 DEF Histories
    <3> QED
      BY Zenon, <1>2, <3>1, <3>2
  <2> QED
    BY Zenon, <1>2, <2>1, <2>2 DEF Histories
<1>11. KeptForLateSubscribers'
  <2> SUFFICES ASSUME Undisturbed'
               PROVE  chanOf # NoObject /\ payload'[chanOf] = [event |-> event, age |-> "fresh"]
    BY Zenon, <1>2 DEF KeptForLateSubscribers
  <2>1. o = chanOf
    BY Zenon, <1>2 DEF Undisturbed
  <2> QED
    BY Zenon, <1>1, <1>2, <2>1, CacheConstants DEF CacheTypeOK
<1>12. SentReachesMembers'
  <2> SUFFICES ASSUME NEW q \in alone, at'[q] = "sent" PROVE FALSE
    BY Zenon, <1>2 DEF SentReachesMembers
  <2>1. q \in Publisher /\ q # p /\ at[q] = "sent"
    BY Zenon, <1>3, <1>4 DEF CacheTypeOK
  <2> QED
    BY Zenon, <1>5, <2>1 DEF AtWork, Histories
<1>13. JoinersFindCurrent' /\ SubscribersAreCurrent'
  <2> SUFFICES ASSUME Undisturbed', NEW s \in Client \ overlap'
               PROVE  /\ at'[s] \notin {"expired", "miss", "replay"}
                      /\ at'[s] = "in" => seen[s] = event
    BY Zenon, <1>2 DEF JoinersFindCurrent, SubscribersAreCurrent
  <2>1. p \in alone /\ o = chanOf
    BY Zenon, <1>2 DEF Undisturbed
  <2>2. ASSUME Joining(s) PROVE FALSE
    <3>1. s \in overlap /\ at[s] # "in"
      BY Zenon, <1>5, <2>2 DEF Histories, Joining
    <3> QED
      BY Zenon, <1>2, <2>1, <3>1
  <2>3. ASSUME at[s] = "in" PROVE seen[s] = event
    <3>1. CASE s \in overlap
      BY Zenon, <1>2, <2>1, <2>3, <3>1
    <3>2. CASE s \notin overlap
      BY Zenon, <1>1, <2>1, <2>3, <3>2 DEF SentReachesMembers, o, event
    <3> QED
      BY Zenon, <3>1, <3>2
  <2> QED
    BY Zenon, <1>4, <2>2, <2>3 DEF Joining
<1> QED
  BY Zenon, <1>4, <1>6, <1>7, <1>8, <1>9, <1>10, <1>11, <1>12, <1>13

\* Time passes: an event that expires is no longer current.
LEMMA ClockStep ==
    ASSUME CacheInv, NEW o \in Object, ExpirePayload(o) \/ Rearm(o)
    PROVE  CacheInv'
<1> USE DEF CacheInv
<1>1. UNCHANGED <<chanOf, member, at, hit, target, submitted, events, seen,
                  alone, crossing, lost, overlap>>
  BY Zenon DEF ExpirePayload, Rearm, dispatching
<1>2. AtWork' = AtWork /\ Undisturbed' = Undisturbed /\ \A x \in Client : Joining(x)' = Joining(x)
  BY Zenon, <1>1 DEF AtWork, Undisturbed, Joining
<1>3. current' \in {current, 0}
  BY Zenon DEF ExpirePayload, Rearm
<1>4. /\ notified' \in [Object -> {"never", "recent", "long ago"}]
      /\ misses' \in Nat
      /\ MissIsRemembered'
  <2>1. CASE ExpirePayload(o)
    BY Zenon, <2>1 DEF ExpirePayload, CacheTypeOK, MissIsRemembered
  <2>2. CASE Rearm(o)
    <3> DEFINE later == chanOf \in Object \ {o} /\ notified[chanOf] = "recent"
    <3>1. /\ notified' = [notified EXCEPT ![o] = "long ago"]
          /\ misses' = IF later THEN misses ELSE 0
          /\ recreated' = (recreated /\ later)
      BY Zenon, <2>2 DEF Rearm
    <3>2. notified' \in [Object -> {"never", "recent", "long ago"}] /\ misses' \in Nat
      BY Zenon, <3>1 DEF CacheTypeOK
    <3>3. CASE later
      <4>1. misses' = misses /\ (recreated => recreated')
        BY Zenon, <3>1, <3>3
      <4>2. notified'[chanOf] = "recent"
        BY Zenon, <3>1, <3>3 DEF CacheTypeOK
      <4> QED
        BY Zenon, <1>1, <3>2, <4>1, <4>2 DEF MissIsRemembered
    <3>4. CASE ~later
      <4>1. misses' = 0
        BY Zenon, <3>1, <3>4
      <4>2. misses' <= 1
        BY <4>1
      <4> QED
        BY Zenon, <3>2, <4>1, <4>2 DEF MissIsRemembered
    <3> HIDE DEF later
    <3> QED
      BY Zenon, <3>2, <3>3, <3>4
  <2> QED
    BY Zenon, <2>1, <2>2
<1>5. payload' \in [Object -> [event : Nat, age : {"none", "fresh", "stale"}]]
  <2>1. CASE ExpirePayload(o)
    <3>1. payload' = [payload EXCEPT ![o].age = "stale"]
      BY Zenon, <2>1 DEF ExpirePayload
    <3> QED
      BY Zenon, <3>1 DEF CacheTypeOK
  <2>2. CASE Rearm(o)
    BY Zenon, <2>2 DEF CacheTypeOK, Rearm
  <2> QED
    BY Zenon, <2>1, <2>2
<1>6. CacheTypeOK' /\ PlacesOK'
  <2>1. current' \in Nat
    <3>1. current \in Nat
      BY Zenon DEF CacheTypeOK
    <3> QED
      BY <1>3, <3>1
  <2> QED
    BY Zenon, <1>1, <1>4, <1>5, <2>1 DEF CacheTypeOK, PlacesOK
<1>7. MembersAreInMap' /\ PublishersHaveWork' /\ Histories'
  BY Zenon, <1>1, <1>2 DEF MembersAreInMap, PublishersHaveWork, Histories
<1>8. KeptForLateSubscribers'
  <2>1. CASE Rearm(o)
    BY Zenon, <1>1, <1>2, <2>1 DEF KeptForLateSubscribers, Rearm
  <2>2. CASE ExpirePayload(o)
    <3> SUFFICES ASSUME Undisturbed, current' # 0
                 PROVE  chanOf # NoObject /\ payload'[chanOf] = [event |-> current', age |-> "fresh"]
      BY Zenon, <1>1, <1>2 DEF KeptForLateSubscribers
    <3>1. current' = current /\ current # payload[o].event
      BY Zenon, <2>2 DEF ExpirePayload
    <3>2. chanOf # NoObject /\ payload[chanOf] = [event |-> current, age |-> "fresh"]
      BY Zenon, <3>1 DEF KeptForLateSubscribers
    <3>3. o # chanOf
      BY <3>1, <3>2
    <3> QED
      BY Zenon, <2>2, <3>1, <3>2, <3>3 DEF ExpirePayload, CacheTypeOK
  <2> QED
    BY Zenon, <2>1, <2>2
<1>9. SentReachesMembers'
  BY Zenon, <1>1, SentStays
<1>10. JoinersFindCurrent' /\ SubscribersAreCurrent'
  BY Zenon, <1>1, <1>2, <1>3 DEF JoinersFindCurrent, SubscribersAreCurrent
<1> QED
  BY Zenon, <1>4, <1>6, <1>7, <1>8, <1>9, <1>10

(***************************************************************************)
(* The theorems                                                            *)
(***************************************************************************)

\* Subscribers, publishers, the reaping of empty channels and the clock, in any
\* order of their steps, keep the invariant.
THEOREM CacheInvariance == CacheSpec => []CacheInv
<1>1. CacheInit => CacheInv
  <2> SUFFICES ASSUME CacheInit PROVE CacheInv
    OBVIOUS
  <2> USE DEF CacheInit
  <2>1. CacheTypeOK
    BY DEF CacheTypeOK, NoPayload
  <2>2. PlacesOK /\ (\A s \in Client : at[s] = "out") /\ (\A p \in Publisher : at[p] = "idle")
    BY Zenon, CacheConstants DEF PlacesOK, Publisher, ClientPlaces, PublisherPlaces
  <2>3. MembersAreInMap /\ MissIsRemembered /\ PublishersHaveWork /\ Histories
    BY <2>2, CacheConstants DEF MembersAreInMap, MissIsRemembered, PublishersHaveWork, Histories, Joining, AtWork
  <2>4. KeptForLateSubscribers /\ SentReachesMembers /\ JoinersFindCurrent /\ SubscribersAreCurrent
    BY Zenon DEF KeptForLateSubscribers, SentReachesMembers, JoinersFindCurrent, SubscribersAreCurrent
  <2> QED
    BY Zenon, <2>1, <2>2, <2>3, <2>4 DEF CacheInv
<1>2. CacheInv /\ [CacheNext]_cacheVars => CacheInv'
  <2> SUFFICES ASSUME CacheInv, [CacheNext]_cacheVars
               PROVE  CacheInv'
    OBVIOUS
  <2>1. CASE CacheNext
    BY Zenon, <2>1, SubscribeStep, CachedPayloadStep, AnswerStep, UnsubscribeStep, IdleStep, ReapStep,
       RequestStep, FindChannelStep, SendToMembersStep, SetCachedPayloadStep, ClockStep DEF CacheNext
  <2>2. CASE UNCHANGED cacheVars
    <3>1. UNCHANGED <<chanOf, member, payload, notified, at, hit, target, submitted, events, seen,
                      misses, recreated, current, alone, crossing, lost, overlap>>
      BY Zenon, <2>2 DEF cacheVars, store, dispatching, outcome
    <3>2. AtWork' = AtWork /\ Undisturbed' = Undisturbed /\ \A x \in Client : Joining(x)' = Joining(x)
      BY Zenon, <3>1 DEF AtWork, Undisturbed, Joining
    <3>3. CacheTypeOK' /\ PlacesOK' /\ MembersAreInMap' /\ MissIsRemembered' /\ PublishersHaveWork' /\ Histories'
      BY Zenon, <3>1, <3>2 DEF CacheInv, CacheTypeOK, PlacesOK, MembersAreInMap, MissIsRemembered, PublishersHaveWork, Histories
    <3>4. KeptForLateSubscribers' /\ JoinersFindCurrent' /\ SubscribersAreCurrent'
      BY Zenon, <3>1, <3>2 DEF CacheInv, KeptForLateSubscribers, JoinersFindCurrent, SubscribersAreCurrent
    <3>5. SentReachesMembers'
      BY Zenon, <3>1, SentStays
    <3> QED
      BY Zenon, <3>3, <3>4, <3>5 DEF CacheInv
  <2> QED
    BY Zenon, <2>1, <2>2
<1> QED
  BY <1>1, <1>2, PTL DEF CacheSpec

\* A published event stays available to late subscribers until it expires,
\* whoever leaves, whatever is reaped and whichever older payload is dropped.
THEOREM EventsAreKept == CacheSpec => []KeptForLateSubscribers
<1>1. CacheInv => KeptForLateSubscribers
  BY Zenon DEF CacheInv
<1> QED
  BY <1>1, CacheInvariance, PTL

\* A client that subscribed while nothing was being published has the current
\* event: no order of replay, broadcast and set_cached_payload loses it.
THEOREM NoSubscriberMissesEvent == CacheSpec => []SubscribersAreCurrent
<1>1. CacheInv => SubscribersAreCurrent
  BY Zenon DEF CacheInv
<1> QED
  BY <1>1, CacheInvariance, PTL

\* However many clients find the channel empty, claim_cache_miss_notification lets
\* one webhook through until a publish or the interval re-arms it, or the channel
\* is created again: what makes a second webhook possible is nothing else.
THEOREM MissesReportedOnce == CacheSpec => []MissIsReportedOnce
<1>1. CacheInv => MissIsReportedOnce
  BY Zenon DEF CacheInv, MissIsRemembered, MissIsReportedOnce
<1> QED
  BY <1>1, CacheInvariance, PTL
=============================================================================
