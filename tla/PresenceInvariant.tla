------------------------- MODULE PresenceInvariant --------------------------
(***************************************************************************)
(* The inductive invariant of PresenceChannel.                             *)
(*                                                                         *)
(* None of the safety properties is inductive alone: that no member is     *)
(* stranded on a dropped object rests on who holds the map entry and on    *)
(* what a task knows at each point of its handler, the reference counts    *)
(* rest on the transition lock, and what was published on the bus rests on *)
(* all of them. CoreInv is everything but the counts.                      *)
(***************************************************************************)
EXTENDS PresenceChannel

Joining == {"sub_lock", "admit", "subscribe", "announce"}
Leaving == {"leave_lock", "unsubscribe", "announce_leave"}
Critical == {"admit", "subscribe", "announce", "unsubscribe", "announce_leave",
             "apply", "diff", "gc_decide"}

\* What a task holds and remembers at each point of its handler.
SocketInv ==
    \A s \in Sockets :
        /\ pc[s] \in Joining \union Leaving \union {"idle", "reap", "close"}
        /\ pc[s] \in Joining => chan # None /\ obj[s] = chan /\ join[s].user \in Users
        /\ pc[s] \in Leaving => obj[s] \in Objects
        /\ join[s].changed => /\ pc[s] \in {"announce", "announce_leave"}
                              /\ join[s].user \in Users
        /\ s \in closing => pc[s] \in Leaving \union {"reap"}

BackgroundInv ==
    /\ pc["bus"] \in {"idle", "bus_lock", "apply", "diff"}
    /\ pc["bus"] \in {"bus_lock", "diff"} => obj["bus"] \in Objects
    /\ pc["bus"] # "idle" => event \in Events
    /\ pc["gc"] \in {"idle", "gc_lock", "gc_decide"}
    /\ pc["gc"] # "idle" => obj["gc"] \in Objects

\* The two locks are held exactly inside the code they protect.
EntryInv == \A s \in Sockets : entryLock = s <=> pc[s] \in Joining

TransInv ==
    \A t \in Tasks, o \in Objects :
        transLock[o] = t <=> pc[t] \in Critical /\ obj[t] = o

\* Who is a member of what.
MemberInv ==
    \A s \in Sockets :
        /\ \A o \in Objects : IsMember(o, s) => o = chan
        /\ s \in subscribed => /\ chan # None /\ IsMember(chan, s)
                               /\ pc[s] \in Joining \union {"idle", "reap"}
                               /\ s \notin closing
        /\ chan # None /\ IsMember(chan, s) /\ s \notin subscribed =>
               \/ pc[s] = "announce"
               \/ pc[s] \in {"leave_lock", "unsubscribe"} /\ obj[s] = chan
        /\ pc[s] = "announce" => IsMember(chan, s)

\* Channel.user_refcounts counts the member sockets of each user.
RefInv ==
    \A o \in Objects, u \in Users :
        refs[o][u] = Cardinality({s \in Sockets : members[o][s] = u})

\* A change of the user set that a task inside the transition lock has made
\* and not published yet.
Arriving(s, u) == pc[s] = "announce" /\ join[s].changed /\ join[s].user = u
Departing(s, u) == pc[s] = "announce_leave" /\ join[s].changed /\ join[s].user = u

PendingInv ==
    \A s \in Sockets, u \in Users :
        /\ Arriving(s, u) => \A t \in Sockets : members[chan][t] = u <=> t = s
        /\ Departing(s, u) => \A t \in Sockets : members[obj[s]][t] # u

\* The bus is behind the membership only by such a change.
BusInv ==
    \A u \in Users \ late :
        /\ Here(u) => u \in busRoster \/ \E s \in Sockets : Arriving(s, u)
        /\ u \in busRoster => Here(u) \/ \E s \in Sockets : Departing(s, u)

\* What the counts are read for: whether a user has a socket in the channel,
\* and whether a socket is the user's only one.
CountInv ==
    \A o \in Objects, u \in Users :
        /\ refs[o][u] = 0 <=> \A s \in Sockets : members[o][s] # u
        /\ \A s \in Sockets : members[o][s] = u =>
              (refs[o][u] = 1 <=> \A t \in Sockets \ {s} : members[o][t] # u)

CoreInv ==
    /\ TypeOK /\ SocketInv /\ BackgroundInv /\ EntryInv /\ TransInv
    /\ MemberInv /\ EmptyChannelIsReaped /\ PendingInv /\ BusInv

IInv == CoreInv /\ RefInv
=============================================================================
