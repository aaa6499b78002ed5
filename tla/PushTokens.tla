------------------------------- MODULE PushTokens -------------------------------
(***************************************************************************)
(* The push tokens of paired devices: registered over a socket (push/          *)
(* register_cmd.ts), kept by the registry (pairing/registry.ts), used to wake    *)
(* devices that have no socket (push/wake_coordinator.ts) and to tell all of them *)
(* that a port is down (server.ts), and dropped when APNs calls one dead (push/   *)
(* apns.ts). A push is not awaited, so its answer may come after the device has   *)
(* registered another token. Tokens are numbered as the platform issues them.     *)
(***************************************************************************)
EXTENDS Naturals

CONSTANTS
    Phones,             \* paired devices
    Foreign,            \* those whose app is of the other environment than the server's config
    MaxTokens           \* bound: tokens the platform issues to a device

VARIABLES
    paired, online,     \* devices in the registry, and with an authenticated socket
    issued,             \* the token the platform gave a device last; the others are dead
    token,              \* what the registry keeps of it, 0 for none
    sent,               \* the token the app has registered on this connection, 0 for none
    flying,             \* pushes in flight: [to, token, about]
    announced,          \* history: devices that registered the token they have now
    overtaken,          \* history: and did so while a push to an earlier token was in flight
    dead                \* history: tokens APNs called dead

vars == <<paired, online, issued, token, sent, flying, announced, overtaken, dead>>

Init ==
    /\ paired = Phones /\ online = {}
    /\ issued = [d \in Phones |-> 1]
    /\ token = [d \in Phones |-> 0] /\ sent = [d \in Phones |-> 0]
    /\ flying = {} /\ announced = {} /\ overtaken = {}
    /\ dead = [d \in Phones |-> {}]

Connect(d) ==
    /\ d \in paired \ online
    /\ online' = online \cup {d}
    /\ UNCHANGED <<paired, issued, token, sent, flying, announced, overtaken, dead>>

Disconnect(d) ==
    /\ d \in online
    /\ online' = online \ {d}
    /\ sent' = [sent EXCEPT ![d] = 0]
    /\ UNCHANGED <<paired, issued, token, flying, announced, overtaken, dead>>

\* the app: on every connection and when another token comes, but once per token
MaySend(d) == d \in online /\ sent[d] # issued[d]

\* setPushToken: what the registry keeps when d registers
Stored(d) == IF d \in paired THEN [token EXCEPT ![d] = issued[d]] ELSE token

\* push.register
Register(d) ==
    /\ MaySend(d)
    /\ sent' = [sent EXCEPT ![d] = issued[d]]
    /\ token' = Stored(d)
    /\ announced' = announced \cup {d}
    /\ overtaken' = IF \E p \in flying : p.to = d /\ p.token # issued[d] THEN overtaken \cup {d} ELSE overtaken
    /\ UNCHANGED <<paired, online, issued, flying, dead>>

\* the platform replaces the token: the app was restored, or installed again
Reissue(d) ==
    /\ issued[d] < MaxTokens
    /\ issued' = [issued EXCEPT ![d] = @ + 1]
    /\ announced' = announced \ {d} /\ overtaken' = overtaken \ {d}
    /\ UNCHANGED <<paired, online, token, sent, flying, dead>>

Revoke(d) ==
    /\ d \in paired
    /\ paired' = paired \ {d} /\ online' = online \ {d}
    /\ token' = [token EXCEPT ![d] = 0] /\ sent' = [sent EXCEPT ![d] = 0]
    /\ announced' = announced \ {d}
    /\ UNCHANGED <<issued, flying, overtaken, dead>>

Push(targets, about) == {[to |-> d, token |-> token[d], about |-> about] : d \in targets}

WithToken == {d \in paired : token[d] # 0}

\* wake: devicesToWake; the answer to its caller is whether there are any
Wake ==
    /\ WithToken \ online # {}
    /\ flying' = flying \cup Push(WithToken \ online, "wake")
    /\ UNCHANGED <<paired, online, issued, token, sent, announced, overtaken, dead>>

\* notifyPortDown, whether they have a socket or not
PortDown ==
    /\ WithToken # {}
    /\ flying' = flying \cup Push(WithToken, "port")
    /\ UNCHANGED <<paired, online, issued, token, sent, announced, overtaken, dead>>

Clears(result) == result = "dead"

\* apnsDisposition: a token that was replaced is dead, and BadDeviceToken is said of one
\* of the other environment too, for the host is the config's; an error says nothing
Results(p) ==
    IF p.token # issued[p.to] \/ p.to \in Foreign THEN {"dead", "error"} ELSE {"ok", "error"}

\* the answer clears what the registry keeps now, not the token it is about
Answered(p) ==
    /\ p \in flying
    /\ flying' = flying \ {p}
    /\ \E result \in Results(p) :
         /\ token' = IF Clears(result) /\ p.to \in paired THEN [token EXCEPT ![p.to] = 0] ELSE token
         /\ dead' = IF result = "dead" THEN [dead EXCEPT ![p.to] = @ \cup {p.token}] ELSE dead
    /\ UNCHANGED <<paired, online, issued, sent, announced, overtaken>>

\* devices.json has the tokens; sockets and pushes go with the process
Restart ==
    /\ online' = {} /\ flying' = {} /\ sent' = [d \in Phones |-> 0]
    /\ UNCHANGED <<paired, issued, token, announced, overtaken, dead>>

Next ==
    \/ \E d \in Phones : Connect(d) \/ Disconnect(d) \/ Register(d) \/ Reissue(d) \/ Revoke(d)
    \/ Wake \/ PortDown \/ Restart
    \/ \E p \in flying : Answered(p)

Spec == Init /\ [][Next]_vars

-----------------------------------------------------------------------------
(* Properties. *)

(* A device that registered the token it has can be woken, whatever answers    *)
(* come late, unless a push to an earlier token was in flight when it did: the *)
(* verdict on that one clears the new one. A token of the other environment    *)
(* than the server's is called dead while it is good, and is cleared.          *)
RegisteredIsKept == \A d \in (paired \cap announced) \ Foreign : token[d] # issued[d] => d \in overtaken

\* A token that APNs called dead is never pushed to again, but for one of the other
\* environment, which the app registers again on its next connection.
DeadIsForgotten == \A d \in paired \ Foreign : token[d] \notin dead[d]
=============================================================================
