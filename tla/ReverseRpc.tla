----------------------------- MODULE ReverseRpc -----------------------------
(***************************************************************************)
(* How a session's prompt reaches a human and comes back: ReverseRpc       *)
(* (server/src/ws/reverse_rpc.ts) climbs an audience ladder, stores who    *)
(* may answer, replays what is pending to a client that authenticates or   *)
(* subscribes, and takes the first authorized answer; the app              *)
(* (app/lib/store/connection.dart) shows a prompt and answers it at most   *)
(* once, over a socket that may be down.                                   *)
(*                                                                         *)
(* A client is a device or a command line; `c` stands for its connection   *)
(* on the server, a new one each time it connects.  The server's handlers  *)
(* run to completion.  No client in the repository sends `unsub`, and it   *)
(* is left out.  A definition whose comment starts with "Mutant:" is not   *)
(* part of the specification: it is a plausible bug in the definition that *)
(* follows, and shows that a property is sensitive to that code.           *)
(***************************************************************************)
EXTENDS Integers, SequencesExt

CONSTANTS
  Clients,    \* devices and command lines
  Agents,     \* the clients that hold an agent-scoped session token
  Sessions,
  Requests,   \* prompts that may be asked
  MaxDrops,   \* bound: lost connections
  MaxOpens    \* bound: sessions opened, over all clients

ASSUME AgentsAssumption == Agents \subseteq Clients
ASSUME SessionsAssumption == IsFiniteSet(Sessions) /\ "none" \notin Sessions
ASSUME RequestsAssumption == IsFiniteSet(Requests)
ASSUME BoundsAssumption == MaxDrops \in Nat /\ MaxOpens \in Nat

VARIABLES
  parent,       \* the session's lineage: parentId, or NoSession
  (* the server, per connection *)
  authed,       \* clients that said hello
  subscribed,   \* WsClient.subscribed
  (* ReverseRpc.pending, and what became of a request *)
  state,        \* "new", "pending", "answered" or "refused"
  sessionOf,    \* the session a request was asked for, or NoSession
  eligible,     \* eligibleSessions, Everyone for undefined
  deliveredTo,
  copies,       \* history: how often a connection was sent a request
  (* the sockets *)
  connected, up, down,
  (* the apps *)
  opened,       \* sessions the app subscribes to whenever it connects
  shown,        \* prompts the app has shown
  responded,    \* _respondedRequests
  drops

server == <<parent, authed, subscribed>>
rpc == <<state, sessionOf, eligible, deliveredTo, copies>>
app == <<opened, shown, responded>>
vars == <<server, rpc, connected, up, down, app, drops>>

NoSession == "none"
Everyone == {NoSession}   \* stands for `undefined`: no set of sessions holds it
Humans == Clients \ Agents

Hello == [type |-> "hello"]
Sub(s) == [type |-> "sub", session |-> s]
Response(r) == [type |-> "response", request |-> r]

(* A session is created with a parent that exists already, or without one. *)
Acyclic(p) == \A S \in (SUBSET Sessions) \ {{}} : \E s \in S : p[s] \notin S

Init ==
  /\ parent \in {p \in [Sessions -> Sessions \cup {NoSession}] : Acyclic(p)}
  /\ authed = {} /\ subscribed = [c \in Clients |-> {}]
  /\ state = [r \in Requests |-> "new"]
  /\ sessionOf = [r \in Requests |-> NoSession]
  /\ eligible = [r \in Requests |-> {}]
  /\ deliveredTo = [r \in Requests |-> {}]
  /\ copies = [r \in Requests |-> [c \in Clients |-> 0]]
  /\ connected = {}
  /\ up = [c \in Clients |-> <<>>] /\ down = [c \in Clients |-> <<>>]
  /\ opened = [c \in Clients |-> {}]
  /\ shown = [c \in Clients |-> {}] /\ responded = [c \in Clients |-> {}]
  /\ drops = 0

-----------------------------------------------------------------------------
(* ReverseRpc *)

Watchers(s) == {c \in authed \cap Humans : s \in subscribed[c]}

(* The session and its ancestors: the least set with s that holds parents. *)
Line(s) ==
  {t \in Sessions : \A S \in SUBSET Sessions :
                      s \in S /\ (\A u \in S : parent[u] \in S \cup {NoSession}) => t \in S}

Watched(s) == {t \in Line(s) : Watchers(t) # {}}

(* Mutant: the climb forgets to look at the session it starts from. *)
NearestWatchedFromParent(s) ==
  LET above == Watched(s) \ {s} IN {t \in above : above \subseteq Line(t)}

(* The session itself or its first ancestor that a human has open: at most *)
(* one, the one that all the others are above.                             *)
NearestWatched(s) == {t \in Watched(s) : Watched(s) \subseteq Line(t)}

AskEverybody == [targets |-> authed \cap Humans, eligible |-> Everyone]

(* resolveAudience: who is asked now, and who may answer. *)
Audience(s) ==
  LET near == NearestWatched(s)
  IN  IF s = NoSession \/ near = {} THEN AskEverybody
      ELSE [targets |-> UNION {Watchers(at) : at \in near}, eligible |-> {s} \cup near]

(* isEligible, for an authenticated client with subscriptions subs. *)
Eligible(c, r, subs) ==
  c \notin Agents /\ (eligible[r] = Everyone \/ eligible[r] \cap subs # {})

(* Requests rs go down to client c. *)
Deliver(c, rs) ==
  /\ down' = [down EXCEPT ![c] = @ \o SetToSeq(rs)]
  /\ deliveredTo' = [r \in Requests |-> deliveredTo[r] \cup IF r \in rs THEN {c} ELSE {}]
  /\ copies' = [r \in Requests |->
                  [copies[r] EXCEPT ![c] = @ + IF r \in rs THEN 1 ELSE 0]]

ReplayPendingTo(c, subs) ==
  Deliver(c, {r \in Requests : /\ state[r] = "pending"
                               /\ c \notin deliveredTo[r]
                               /\ Eligible(c, r, subs)})

(* askDevice; with nobody to ask, the wake push decides whether to keep it. *)
AskDevice(r, s) ==
  /\ state[r] = "new"
  /\ LET a == Audience(s)
     IN  /\ sessionOf' = [sessionOf EXCEPT ![r] = s]
         /\ eligible' = [eligible EXCEPT ![r] = a.eligible]
         /\ down' = [c \in Clients |-> down[c] \o IF c \in a.targets THEN <<r>> ELSE <<>>]
         /\ deliveredTo' = [deliveredTo EXCEPT ![r] = a.targets]
         /\ copies' = [copies EXCEPT ![r] = [c \in Clients |-> IF c \in a.targets THEN 1 ELSE 0]]
         /\ \E woken \in BOOLEAN :
              state' = [state EXCEPT
                          ![r] = IF a.targets # {} \/ woken THEN "pending" ELSE "refused"]
  /\ UNCHANGED <<server, connected, up, app, drops>>

(* The timer fires: the asker is refused, and a later answer is ignored. *)
Timeout(r) ==
  /\ state[r] = "pending"
  /\ state' = [state EXCEPT ![r] = "refused"]
  /\ UNCHANGED <<server, sessionOf, eligible, deliveredTo, copies, connected, up, down,
                 app, drops>>

(* Mutant: a subscription replays nothing that is pending. *)
HandleSubOnly(c) ==
  /\ up[c] # <<>> /\ Head(up[c]).type = "sub"
  /\ subscribed' = [subscribed EXCEPT ![c] = @ \cup {Head(up[c]).session}]
  /\ up' = [up EXCEPT ![c] = Tail(@)]
  /\ UNCHANGED <<parent, authed, rpc, connected, down, app, drops>>

(* `sub`: subscribe, then replay what the client became eligible for. *)
HandleSub(c) ==
  /\ up[c] # <<>> /\ Head(up[c]).type = "sub"
  /\ subscribed' = [subscribed EXCEPT ![c] = @ \cup {Head(up[c]).session}]
  /\ ReplayPendingTo(c, subscribed'[c])
  /\ up' = [up EXCEPT ![c] = Tail(@)]
  /\ UNCHANGED <<parent, authed, state, sessionOf, eligible, connected, app, drops>>

(* `hello` of a known device or agent: authenticate, then replay. *)
HandleHello(c) ==
  /\ up[c] # <<>> /\ Head(up[c]) = Hello
  /\ authed' = authed \cup {c}
  /\ ReplayPendingTo(c, subscribed[c])
  /\ up' = [up EXCEPT ![c] = Tail(@)]
  /\ UNCHANGED <<parent, subscribed, state, sessionOf, eligible, connected, app, drops>>

(* `srv.response`: the first authorized one wins, any other is dropped. *)
HandleResponse(c) ==
  /\ up[c] # <<>> /\ Head(up[c]).type = "response"
  /\ LET r == Head(up[c]).request
     IN  state' = IF state[r] = "pending" /\ Eligible(c, r, subscribed[c])
                  THEN [state EXCEPT ![r] = "answered"]
                  ELSE state
  /\ up' = [up EXCEPT ![c] = Tail(@)]
  /\ UNCHANGED <<server, sessionOf, eligible, deliveredTo, copies, connected, down,
                 app, drops>>

(* The server takes a client's frames in the order they were sent. *)
HandleEnvelope(c) == HandleHello(c) \/ HandleSub(c) \/ HandleResponse(c)

-----------------------------------------------------------------------------
(* Sockets and apps *)

(* hello, and every open session again. *)
Connect(c) ==
  /\ c \notin connected
  /\ connected' = connected \cup {c}
  /\ up' = [up EXCEPT ![c] = <<Hello>> \o
              LET subs == SetToSeq(opened[c]) IN [i \in DOMAIN subs |-> Sub(subs[i])]]
  /\ UNCHANGED <<server, rpc, down, app, drops>>

(* Both ends forget the connection and all it carried. *)
Disconnect(c) ==
  /\ c \in connected /\ drops < MaxDrops
  /\ connected' = connected \ {c} /\ drops' = drops + 1
  /\ authed' = authed \ {c}
  /\ subscribed' = [subscribed EXCEPT ![c] = {}]
  /\ deliveredTo' = [r \in Requests |-> deliveredTo[r] \ {c}]
  /\ copies' = [r \in Requests |-> [copies[r] EXCEPT ![c] = 0]]
  /\ up' = [up EXCEPT ![c] = <<>>] /\ down' = [down EXCEPT ![c] = <<>>]
  /\ UNCHANGED <<parent, state, sessionOf, eligible, app>>

(* A frame for a channel that is down is swallowed (WsClient._send). *)
Send(c, frame) == up' = IF c \in connected THEN [up EXCEPT ![c] = Append(@, frame)] ELSE up

OpenSession(c, s) ==
  /\ s \notin opened[c]
  /\ Cardinality({o \in Clients \X Sessions : o[2] \in opened[o[1]]}) < MaxOpens
  /\ opened' = [opened EXCEPT ![c] = @ \cup {s}]
  /\ Send(c, Sub(s))
  /\ UNCHANGED <<server, rpc, connected, down, shown, responded, drops>>

ReceiveRequest(c) ==
  /\ down[c] # <<>>
  /\ shown' = [shown EXCEPT ![c] = @ \cup {Head(down[c])}]
  /\ down' = [down EXCEPT ![c] = Tail(@)]
  /\ UNCHANGED <<server, rpc, connected, up, opened, responded, drops>>

(* respondTo: a second response of this app to the same request is a no-op. *)
RespondTo(c, r) ==
  /\ r \in shown[c] \ responded[c]
  /\ responded' = [responded EXCEPT ![c] = @ \cup {r}]
  /\ Send(c, Response(r))
  /\ UNCHANGED <<server, rpc, connected, down, opened, shown, drops>>

-----------------------------------------------------------------------------
(* What the sockets and a reconnecting app do by themselves. *)
Serve(c) == HandleEnvelope(c) \/ Connect(c) \/ ReceiveRequest(c)

Next ==
  \/ \E r \in Requests :
       \/ \E s \in Sessions \cup {NoSession} : AskDevice(r, s)
       \/ Timeout(r)
  \/ \E c \in Clients :
       \/ Serve(c) \/ Disconnect(c)
       \/ \E s \in Sessions : OpenSession(c, s)
       \/ \E r \in Requests : RespondTo(c, r)

(* The sockets deliver, and an app that lost its connection reconnects:    *)
(* while there is such work for a client, some of it gets done.  Nobody is *)
(* obliged to answer, or to open a session.                                *)
Fairness == \A c \in Clients : WF_vars(Serve(c))

Spec == Init /\ [][Next]_vars
FairSpec == Spec /\ Fairness

-----------------------------------------------------------------------------
(* Properties *)

States == {"new", "pending", "answered", "refused"}
Frames == {Hello} \cup {Sub(s) : s \in Sessions} \cup {Response(r) : r \in Requests}

(* Every variable has its type, and no connection is sent a prompt twice:  *)
(* "the same request is never delivered twice to one client"               *)
(* (replayPendingTo).                                                      *)
TypeOK ==
  /\ parent \in [Sessions -> Sessions \cup {NoSession}]
  /\ authed \subseteq Clients /\ subscribed \in [Clients -> SUBSET Sessions]
  /\ state \in [Requests -> States]
  /\ sessionOf \in [Requests -> Sessions \cup {NoSession}]
  /\ eligible \in [Requests -> {Everyone} \cup SUBSET Sessions]
  /\ deliveredTo \in [Requests -> SUBSET Clients]
  /\ copies \in [Requests -> [Clients -> 0..1]]
  /\ connected \subseteq Clients
  /\ up \in [Clients -> Seq(Frames)] /\ down \in [Clients -> Seq(Requests)]
  /\ opened \in [Clients -> SUBSET Sessions]
  /\ shown \in [Clients -> SUBSET Requests] /\ responded \in [Clients -> SUBSET Requests]
  /\ drops \in 0..MaxDrops

Pending(r) == state[r] = "pending"

(* Whoever may answer a pending prompt has been sent it: a device that     *)
(* comes back, or opens the session later, is not left out (the replay on  *)
(* hello and on sub).                                                      *)
EligibleWereAsked ==
  \A r \in Requests, c \in authed :
    Pending(r) /\ Eligible(c, r, subscribed[c]) => c \in deliveredTo[r]

(* Whoever was sent a pending prompt may answer it: the audience that was  *)
(* stored is the one that was asked (resolveAudience, isEligible).         *)
AskedMayAnswer ==
  \A r \in Requests, c \in Clients :
    Pending(r) /\ c \in deliveredTo[r] => c \in authed /\ Eligible(c, r, subscribed[c])

(* A prompt is a question for a human: it never goes to an agent, on any   *)
(* rung and on no replay (D13c, D17).                                      *)
AgentsAreNeverAsked ==
  \A c \in Agents : shown[c] = {} /\ down[c] = <<>>

(* Where the climb from s along parentId is after k steps (D13a).           *)
Climb(s) ==
  LET at[k \in 0..Cardinality(Sessions)] ==
        IF k = 0 THEN s ELSE IF at[k - 1] = NoSession THEN NoSession ELSE parent[at[k - 1]]
  IN at

(* The consequence belongs to the nearest watcher: a prompt goes to the    *)
(* humans who watch its session or, when nobody does, its nearest ancestor *)
(* somebody watches, and to everybody only when there is none (D13a).      *)
AsksNearest(r) ==
  LET at == Climb(sessionOf'[r])
      watched == {k \in DOMAIN at : at[k] # NoSession /\ Watchers(at[k]) # {}}
  IN deliveredTo'[r] =
       IF watched = {} THEN authed \cap Humans
       ELSE Watchers(at[CHOOSE k \in watched : \A j \in watched : k <= j])

NearestWatchersAreAsked ==
  [][\A r \in Requests : state[r] = "new" /\ state'[r] # "new" => AsksNearest(r)]_vars

(* Whoever has a session open is shown its prompts while they can still be *)
(* answered, however often the connection was lost (A6).                   *)
WatcherIsShown ==
  \A c \in Humans, r \in Requests :
    (Pending(r) /\ sessionOf[r] \in opened[c]) ~> (~Pending(r) \/ r \in shown[c])

(* Those asked and those who may answer are the same, and all human        *)
(* (ReverseRpc.pending, isEligible).                                       *)
PromptSafety == TypeOK /\ EligibleWereAsked /\ AskedMayAnswer /\ AgentsAreNeverAsked

(* A prompt is asked of the nearest watchers, and from then until it is     *)
(* answered everybody who may answer it has been asked, and nobody else.    *)
PromptRouting == []PromptSafety /\ NearestWatchersAreAsked
=============================================================================
