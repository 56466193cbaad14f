----------------------------- MODULE Keepalive ------------------------------
(***************************************************************************)
(* The keepalive of one connection: connection_maintenance pings a         *)
(* connection that is silent for longer than ping_interval and closes one  *)
(* that stays silent for PONG_GRACE_SECONDS more, while the connection     *)
(* task records the client's frames.  Connections do not interact here.    *)
(***************************************************************************)
EXTENDS Naturals

CONSTANTS
    PingInterval,   \* in maintenance periods of 15 s
    PongGrace       \* likewise: 30 s

ASSUME KeepaliveConstants == PingInterval \in Nat \ {0} /\ PongGrace \in Nat \ {0, 1}

VARIABLES
    quiet,      \* periods since the client's last frame (capped past both limits)
    due,        \* the maintenance of this period is still to come
    hasPing,    \* has_been_pinged
    touching,   \* the task has stored last_seen_at, not yet has_been_pinged
    plan,       \* what maintenance is about to do
    ending,     \* the connection was told to close
    warned,     \* history: a ping was sent since the last frame
    unwarned    \* history: declared stale without such a ping

keepVars == <<quiet, due, hasPing, touching, plan, ending, warned, unwarned>>

\* Beyond this the exact silence makes no difference.
QuietCap == PingInterval + PongGrace + 1

KeepInit ==
    /\ quiet = 0
    /\ due = FALSE
    /\ hasPing = FALSE
    /\ touching = FALSE
    /\ plan = "none"
    /\ ending = FALSE
    /\ warned = FALSE
    /\ unwarned = FALSE

\* A period passes; maintenance has finished the last one, and the task does
\* not take that long between two stores.
Period ==
    /\ ~due /\ plan = "none" /\ ~touching /\ ~ending
    /\ quiet' = IF quiet < QuietCap THEN quiet + 1 ELSE quiet
    /\ due' = TRUE
    /\ UNCHANGED <<hasPing, touching, plan, ending, warned, unwarned>>

\* Connection::touch: the time, then the flag.
TouchTime ==
    /\ ~touching /\ ~ending
    /\ touching' = TRUE
    /\ quiet' = 0
    /\ warned' = FALSE
    /\ UNCHANGED <<due, hasPing, plan, ending, unwarned>>

TouchFlag ==
    /\ touching
    /\ touching' = FALSE
    /\ hasPing' = FALSE
    /\ UNCHANGED <<quiet, due, plan, ending, warned, unwarned>>

\* Mutant of IsInactive: a connection marked as pinged is not pinged again.
IsInactiveOnce == quiet > PingInterval /\ ~hasPing

IsInactive == quiet > PingInterval

IsStale == hasPing /\ quiet > PingInterval + PongGrace

\* connection_maintenance looks at the connection...
Visit ==
    /\ due /\ plan = "none"
    /\ plan' = IF IsStale THEN "close" ELSE IF IsInactive THEN "ping" ELSE "none"
    /\ due' = FALSE
    /\ unwarned' = (unwarned \/ (IsStale /\ ~warned))
    /\ UNCHANGED <<quiet, hasPing, touching, ending, warned>>

\* ... closes it or sends the ping (a full queue kicks the connection) ...
VisitSend ==
    /\ plan \in {"close", "ping"}
    /\ \/ ending' = TRUE
       \/ plan = "ping" /\ UNCHANGED ending
    /\ warned' = (warned \/ plan = "ping")
    /\ plan' = IF plan = "ping" THEN "mark" ELSE "none"
    /\ UNCHANGED <<quiet, due, hasPing, touching, unwarned>>

\* Mutant of MarkPinged: the mark is forgotten.
MarkNothing ==
    /\ plan = "mark"
    /\ plan' = "none"
    /\ UNCHANGED <<quiet, due, hasPing, touching, ending, warned, unwarned>>

\* ... and marks it as pinged.
MarkPinged ==
    /\ plan = "mark"
    /\ hasPing' = TRUE
    /\ plan' = "none"
    /\ UNCHANGED <<quiet, due, touching, ending, warned, unwarned>>

KeepNext == Period \/ TouchTime \/ TouchFlag \/ Visit \/ VisitSend \/ MarkPinged

KeepSpec == KeepInit /\ [][KeepNext]_keepVars

\* What the server does by itself.  tokio's interval fires again and again and
\* its tasks run, so that weak fairness of this step is justified.
ServerStep == Period \/ TouchFlag \/ Visit \/ VisitSend \/ MarkPinged

(***************************************************************************)
(* Properties                                                              *)
(***************************************************************************)

\* A connection is declared stale only after a ping that it did not answer,
\* although the flag and the time are separate (touch, mark_pinged) and a frame
\* can arrive between the ping and the mark.
StaleWasPinged == ~unwarned

\* A client that falls silent for good is told to close.
SilentClientIsClosed == <>ending \/ []<>(quiet = 0)
=============================================================================
