------------------------------- MODULE Devices -------------------------------
(***************************************************************************)
(* Pairing, hello, revocation and forwarded ports (pairing/registry.ts,     *)
(* ws/auth_gate.ts, daemon/backend.ts, ports/forward_grants.ts,             *)
(* forward_route.ts, forward_eligibility.ts and their wiring in server.ts). *)
(*                                                                         *)
(* A device is paired by a code and holds its bearer from then on; codes    *)
(* and grants are in memory, devices.json outlives the daemon.              *)
(***************************************************************************)
EXTENDS Naturals, FiniteSets

CONSTANTS
    Sockets,      \* WebSocket connections, reused after a close
    Codes,        \* pair tokens; the device a code paired is named by the code
    MaxGrants,    \* bound on forwards granted
    MaxRestarts,  \* bound on restarts of the daemon
    None

VARIABLES
    code,       \* per pair token: "unused", "pending", "expired", "spent" or "gone"
    shown,      \* lastMinted: the code pair.current gives, or None
    paired,     \* codes -> how many devices were made of it; what devices.json holds is kept
    kept,       \* the devices in the registry
    socket,     \* per socket: "closed", "unauthed", or the device it authenticated as
    asking,     \* per socket: the device whose ports.forward awaits its scan, or None
    late,       \* history, per socket: the device it asks a forward for was cut off since
    grants,     \* forward grants: id -> device, browser, old, late
    restarts

vars == <<code, shown, paired, kept, socket, asking, late, grants, restarts>>

Init ==
    /\ code = [c \in Codes |-> "unused"]
    /\ shown = None
    /\ paired = [c \in Codes |-> 0]
    /\ kept = {}
    /\ socket = [s \in Sockets |-> "closed"]
    /\ asking = [s \in Sockets |-> None]
    /\ late = [s \in Sockets |-> FALSE]
    /\ grants = <<>>
    /\ restarts = 0

-----------------------------------------------------------------------------
(* Pairing. *)

\* pair.mint: a new code, remembered for pair.current
PairMint(c) ==
    /\ code[c] = "unused"
    /\ code' = [code EXCEPT ![c] = "pending"]
    /\ shown' = c
    /\ UNCHANGED <<paired, kept, socket, asking, late, grants, restarts>>

CodeExpires(c) ==
    /\ code[c] = "pending"
    /\ code' = [code EXCEPT ![c] = "expired"]
    /\ shown' = IF shown = c THEN None ELSE shown     \* pairCurrent compares expiresAt
    /\ UNCHANGED <<paired, kept, socket, asking, late, grants, restarts>>

\* mutant: a code is spent when the phone comes back with its bearer
ConsumeLater(c) == code

\* consumePairToken deletes the code first
Consume(c) == [code EXCEPT ![c] = "spent"]

\* forwards whose scan the device of s waits for
Scans(s) == {t \in Sockets : asking[t] # None /\ asking[t] = socket[s]}

\* The socket is d from now on. A hello is taken on one that is a device already, too:
\* nobody drops the grants of the device it was.
Becomes(s, d) ==
    /\ socket' = [socket EXCEPT ![s] = d]
    /\ late' = [t \in Sockets |-> late[t] \/ (socket[s] # d /\ t \in Scans(s))]
    /\ grants' = [i \in DOMAIN grants |->
                    IF grants[i].device = socket[s] /\ socket[s] # d THEN [grants[i] EXCEPT !.late = TRUE]
                    ELSE grants[i]]

Without(gone) == [i \in DOMAIN grants \ gone |-> grants[i]]

\* dropDevice
DropDevice(d) == Without({i \in DOMAIN grants : grants[i].device = d})

\* the close handler; a scan the socket was waiting for goes on
Closed(s) ==
    /\ socket' = [socket EXCEPT ![s] = "closed"]
    /\ grants' = IF socket[s] \in Codes THEN DropDevice(socket[s]) ELSE grants
    /\ late' = [t \in Sockets |-> late[t] \/ t \in Scans(s)]

\* hello {pair}: a pending code makes a device, written to devices.json, and the socket is
\* that device; any other closes the socket
HelloPair(s, c) ==
    /\ socket[s] # "closed" /\ code[c] \in {"pending", "expired", "spent", "gone"}
    /\ IF code[c] = "pending"
       THEN /\ code' = Consume(c)
            /\ paired' = [paired EXCEPT ![c] = @ + 1]
            /\ kept' = kept \cup {c}
            /\ Becomes(s, c)
       ELSE Closed(s) /\ UNCHANGED <<code, paired, kept>>
    /\ UNCHANGED <<shown, asking, restarts>>

\* hello {bearer}
HelloBearer(s, d) ==
    /\ socket[s] # "closed" /\ paired[d] > 0
    /\ IF d \in kept THEN Becomes(s, d) ELSE Closed(s)
    /\ UNCHANGED <<code, shown, paired, kept, asking, restarts>>

Opens(s) ==
    /\ socket[s] = "closed" /\ asking[s] = None
    /\ socket' = [socket EXCEPT ![s] = "unauthed"]
    /\ UNCHANGED <<code, shown, paired, kept, asking, late, grants, restarts>>

\* devices.revoke: the bearer is refused from now on; open sockets and grants are left alone
DevicesRevoke(d) ==
    /\ d \in kept
    /\ kept' = kept \ {d}
    /\ UNCHANGED <<code, shown, paired, socket, asking, late, grants, restarts>>

-----------------------------------------------------------------------------
(* Forwards. *)

\* ports.forward awaits a scan of its own
ForwardPort(s) ==
    /\ socket[s] \in Codes /\ asking[s] = None
    /\ asking' = [asking EXCEPT ![s] = socket[s]]
    /\ late' = [late EXCEPT ![s] = FALSE]
    /\ UNCHANGED <<code, shown, paired, kept, socket, grants, restarts>>

Dead(g) == g.old

\* the scan is over: refused by classifyForward, or granted to whoever asked
ForwardDecided(s) ==
    /\ asking[s] # None
    /\ asking' = [asking EXCEPT ![s] = None]
    /\ \/ UNCHANGED grants
       \/ /\ Cardinality(DOMAIN grants) < MaxGrants
          /\ \E browser \in BOOLEAN :
                LET live == {i \in DOMAIN grants : ~Dead(grants[i])}
                    id == CHOOSE n \in 1 .. MaxGrants : n \notin live IN
                grants' = [i \in live \cup {id} |->
                             IF i = id THEN [device |-> asking[s], browser |-> browser, old |-> FALSE, late |-> late[s]]
                             ELSE grants[i]]
    /\ UNCHANGED <<code, shown, paired, kept, socket, late, restarts>>

Closes(s) ==
    /\ socket[s] # "closed" /\ Closed(s)
    /\ UNCHANGED <<code, shown, paired, kept, asking, restarts>>

\* ports.forward.stop: the holder's own grant
ForwardStop(s) ==
    /\ \E i \in DOMAIN grants : socket[s] = grants[i].device /\ grants' = Without({i})
    /\ UNCHANGED <<code, shown, paired, kept, socket, asking, late, restarts>>

\* a proxied request: a strict grant needs its device's bearer, a dead one is dropped
Request(caller) ==
    /\ \E i \in DOMAIN grants :
          /\ grants[i].browser \/ (caller = grants[i].device /\ caller \in kept)
          /\ Dead(grants[i])
          /\ grants' = Without({i})
    /\ UNCHANGED <<code, shown, paired, kept, socket, asking, late, restarts>>

GrantTimesOut ==
    /\ \E i \in DOMAIN grants : ~grants[i].old /\ grants' = [grants EXCEPT ![i].old = TRUE]
    /\ UNCHANGED <<code, shown, paired, kept, socket, asking, late, restarts>>

\* devices.json is read back; codes, grants and sockets are gone
DaemonRestarts ==
    /\ restarts < MaxRestarts
    /\ restarts' = restarts + 1
    /\ code' = [c \in Codes |-> IF code[c] = "unused" THEN "unused" ELSE "gone"]
    /\ shown' = None
    /\ socket' = [s \in Sockets |-> "closed"]
    /\ asking' = [s \in Sockets |-> None]
    /\ late' = [s \in Sockets |-> FALSE]
    /\ grants' = <<>>
    /\ UNCHANGED <<paired, kept>>

Next ==
    \/ \E c \in Codes : PairMint(c) \/ CodeExpires(c) \/ DevicesRevoke(c)
    \/ \E s \in Sockets : Opens(s) \/ Closes(s) \/ ForwardPort(s) \/ ForwardDecided(s) \/ ForwardStop(s)
    \/ \E s \in Sockets, c \in Codes : HelloPair(s, c) \/ HelloBearer(s, c)
    \/ \E caller \in Codes \cup {None} : Request(caller)
    \/ GrantTimesOut \/ DaemonRestarts

Spec == Init /\ [][Next]_vars

-----------------------------------------------------------------------------
\* A code makes one device, however many phones present it, and whatever expires, is revoked or
\* restarts between (registry.ts: "single-use").
CodePairsOnce == \A c \in Codes : paired[c] <= 1

\* A tunnel ends with the device that asked for it: a grant still usable belongs to a device
\* with an open socket, unless that device was cut off while the scan for it ran, or said
\* hello as another on the same socket (server.ts, close handler: "without this the URL
\* would keep working").
GrantHasALiveOwner ==
    \A i \in DOMAIN grants :
        Dead(grants[i]) \/ grants[i].late \/ \E s \in Sockets : socket[s] = grants[i].device

\* Pairing admits one device a code, and what a device was granted goes with it (registry.ts, server.ts).
PairingSafety == CodePairsOnce /\ GrantHasALiveOwner
=============================================================================
