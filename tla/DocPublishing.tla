----------------------------- MODULE DocPublishing -----------------------------
(***************************************************************************)
(* Publishing documents over a plain-HTTP listener of their own             *)
(* (docs/listener.ts, grants.ts, publish.ts, route.ts, server.ts): bound    *)
(* by the first publish, released once nothing is published.                *)
(*                                                                         *)
(* What runs between two awaits is one step; awaits that only pass a        *)
(* settled promise on are part of the step that settles it.                 *)
(***************************************************************************)
EXTENDS Naturals, Sequences, FiniteSets, SequencesExt

CONSTANTS
    Devices,        \* each with one docs.publish at a time
    Ports,          \* what bind may get
    MaxLiveGrants,
    None

VARIABLES
    publish,    \* each device's publish: "none", "waiting" for a close, "binding", or the
                \* device whose bind it joined
    binding,    \* the publish whose bind others join (this.binding), or None
    server,     \* the port of this.server, or None
    closing,    \* the port of the server being closed (this.closing), or None
    bound,      \* the ports makit's doc servers listen on
    grants,     \* the store, least recently used first
    lapsed,     \* history: the last grant went without anyone asking for the list
    shared,     \* history: two publishes waited for one close
    leaked      \* history: the ports of servers that a second bind took the place of

vars == <<publish, binding, server, closing, bound, grants, lapsed, shared, leaked>>

Init ==
    /\ publish = [d \in Devices |-> "none"]
    /\ binding = None /\ server = None /\ closing = None
    /\ bound = {}
    /\ grants = <<>>
    /\ lapsed = FALSE
    /\ shared = FALSE /\ leaked = {}

\* leases is the number of withOrigin callbacks under way
Leases(p) == Cardinality({d \in Devices : p[d] # "none"})

-----------------------------------------------------------------------------
(* The grants: old is past the TTL or the idle time. *)

\* reap: those that are not old, in their order
Live(gs) ==
    LET kept[n \in 0 .. Len(gs)] ==
            IF n = 0 THEN <<>>
            ELSE IF gs[n].old THEN kept[n - 1] ELSE Append(kept[n - 1], gs[n])
    IN  kept[Len(gs)]

Grant(d, port) == [owner |-> d, port |-> port, old |-> FALSE]

\* mint: reap, make room by evicting the least recently used, add
Mint(gs, d, port) ==
    LET live == Live(gs) IN
    Append(IF Len(live) >= MaxLiveGrants THEN Tail(live) ELSE live, Grant(d, port))

\* mutant: only the caller's grants keep the port
StillPublishedByCaller(gs, d) == SelectSeq(gs, LAMBDA g : ~g.old /\ g.owner = d)

\* liveGrants, asked on behalf of device d
StillPublished(gs, d) == Live(gs)

\* releaseIfIdle, and close with the first part of doClose; nothing binds when no lease is held
ReleaseIfIdle(p, gs, d) ==
    /\ lapsed' = FALSE
    /\ IF Leases(p) > 0 \/ StillPublished(gs, d) # <<>> \/ closing # None
       THEN UNCHANGED <<server, closing, bound>> /\ grants' = IF Leases(p) > 0 THEN gs ELSE Live(gs)
       ELSE /\ server' = None
            /\ closing' = server
            /\ bound' = bound \ {server}
            /\ grants' = Live(gs)

\* the way out of withOrigin
LeaseEnds(p, gs, d) == ReleaseIfIdle(p, gs, d)

-----------------------------------------------------------------------------
(* docs.publish. *)

\* the listener has its origin: mint and end the lease
PublishAtOnce(d) ==
    /\ publish[d] = "none" /\ server # None
    /\ grants' = Mint(grants, d, server)
    /\ lapsed' = FALSE
    /\ UNCHANGED <<publish, binding, server, closing, bound, shared, leaked>>

\* ensureOrigin without an origin: join a bind, wait for a close, or bind
Publish(d) ==
    /\ publish[d] = "none" /\ server = None
    /\ \/ binding # None /\ publish' = [publish EXCEPT ![d] = binding] /\ UNCHANGED binding
       \/ binding = None /\ closing # None /\ publish' = [publish EXCEPT ![d] = "waiting"] /\ UNCHANGED binding
       \/ binding = None /\ closing = None /\ publish' = [publish EXCEPT ![d] = "binding"] /\ binding' = d
    /\ UNCHANGED <<server, closing, bound, grants, lapsed, shared, leaked>>

\* every publish that awaited the close goes on to a bind of its own: none looks at binding again
CloseDone ==
    /\ closing # None
    /\ closing' = None
    /\ LET waiting == {d \in Devices : publish[d] = "waiting"} IN
       /\ publish' = [d \in Devices |-> IF d \in waiting THEN "binding" ELSE publish[d]]
       /\ IF waiting = {} THEN UNCHANGED binding ELSE binding' \in waiting
       /\ IF \E d, e \in waiting : d # e THEN shared' = TRUE ELSE UNCHANGED shared
    /\ UNCHANGED <<server, bound, grants, lapsed, leaked>>

\* those whose promise is the one d's bind settles
Settled(d) == {d} \cup {e \in Devices : publish[e] = d}

\* each of them mints a grant, in any order
MintAll(who, port) ==
    \E order \in SetToSeqs(who) :
        LET minted[n \in 0 .. Len(order)] ==
                IF n = 0 THEN grants ELSE Mint(minted[n - 1], order[n], port)
        IN  grants' = minted[Len(order)]

\* the port of the last bind or another: anyone may have taken it meanwhile. A server that is there
\* already is forgotten, and listens on.
Bound(d) ==
    /\ publish[d] = "binding"
    /\ \E port \in Ports \ (bound \cup {closing}) :
          /\ server' = port
          /\ bound' = bound \cup {port}
          /\ MintAll(Settled(d), port)
    /\ leaked' = leaked \cup ({server} \ {None})
    /\ publish' = [e \in Devices |-> IF e \in Settled(d) THEN "none" ELSE publish[e]]
    /\ binding' = None      \* finally, whoever's bind it names
    /\ lapsed' = FALSE
    /\ UNCHANGED <<closing, shared>>

BindFailed(d) ==
    /\ publish[d] = "binding"
    /\ publish' = [e \in Devices |-> IF e \in Settled(d) THEN "none" ELSE publish[e]]
    /\ binding' = None
    /\ LeaseEnds(publish', grants, d)
    /\ UNCHANGED <<shared, leaked>>

-----------------------------------------------------------------------------
(* Fetching, expiry, docs.unpublish and docs.grants. *)

\* the route: a fetch makes its grant the most recently used, or drops it when it is old
Fetch ==
    /\ \E i \in DOMAIN grants :
          LET g == grants[i] rest == RemoveAt(grants, i) IN
          /\ grants' = IF g.old THEN rest ELSE Append(rest, g)
          /\ lapsed' = (lapsed \/ g.old)
    /\ UNCHANGED <<publish, binding, server, closing, bound, shared, leaked>>

GrantExpires ==
    /\ \E i \in DOMAIN grants : ~grants[i].old /\ grants' = [grants EXCEPT ![i].old = TRUE]
    /\ lapsed' = TRUE
    /\ UNCHANGED <<publish, binding, server, closing, bound, shared, leaked>>

\* only the owner's own grant goes; the release is tried either way
Unpublish(d) ==
    /\ \E i \in DOMAIN grants :
          LET left == IF grants[i].owner = d THEN RemoveAt(grants, i) ELSE grants IN
          ReleaseIfIdle(publish, left, d)
    /\ UNCHANGED <<publish, binding, shared, leaked>>

ListGrants(d) ==
    /\ ReleaseIfIdle(publish, Live(grants), d)
    /\ UNCHANGED <<publish, binding, shared, leaked>>

Next ==
    \/ \E d \in Devices : PublishAtOnce(d) \/ Publish(d) \/ Bound(d) \/ BindFailed(d)
    \/ \E d \in Devices : Unpublish(d) \/ ListGrants(d)
    \/ CloseDone \/ Fetch \/ GrantExpires

Spec == Init /\ [][Next]_vars

-----------------------------------------------------------------------------
\* A share that has not expired answers: nobody's unpublish, expiry, failed bind or overlap of
\* a release with a publish closes the port its URL names (publish.ts: "can never yield a
\* dead URL").
PublishedIsReachable == \A i \in DOMAIN grants : ~grants[i].old => grants[i].port \in bound

\* What listens is the listener in use: two live at a time are "the opposite of what `close` promises"
\* (listener.ts:54-60), but for the leak below.
OneListener == bound \subseteq leaked \cup {server}

\* No port stays open once nothing is published, even when the release was refused because a publish
\* was under way (listener.ts, withOrigin), but for grants that expired unnoticed until somebody asks,
\* and for the leak below.
ReleasedOnceUnpublished ==
    Leases(publish) = 0 /\ ~lapsed /\ Live(grants) = <<>> => bound \subseteq leaked

\* A leak: publishes that waited for the same close bind one server each, and only the last can ever be
\* closed (listener.ts:104-112). Nothing else leaks one, whatever joins, fails or binds again.
LeaksHaveACause == leaked # {} => shared

\* Makit listens for what is published and no longer, but for the leak of a shared close
\* (publish.ts, listener.ts).
PublishingSafety == PublishedIsReachable /\ OneListener /\ ReleasedOnceUnpublished /\ LeaksHaveACause
=============================================================================
