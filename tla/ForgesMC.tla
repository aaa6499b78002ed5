------------------------------ MODULE ForgesMC ------------------------------
(* The GitHub gateway with its poller, the Forgejo gateway and the router  *)
(* between them, each on its own: `part` says which of the three runs, and *)
(* the state spaces add up instead of multiplying.                         *)
EXTENDS PullRequests

CONSTANTS broadcast, picker,              \* askers of the gateway
          Callers, Requests, MaxForgejo,  \* the Forgejo gateway's bounds
          Routes, MaxChoices, MaxForgets  \* the router's

(* A request or a route is never taken for the absence of one. *)
ASSUME NamesAssumption == "none" \notin Requests /\ "none yet" \notin Routes

VARIABLES
  part,
  fjRemote, fjAcked, fjCache, fjInflight, fjRequest, fjCaller, fjPaused, fjMutation,
  fjOverlapped,
  frHost, frSoftware, frGated, frChoice, frChosen, frDecided, frHasRemote, frMemo,
  frSettled, frProbing, frRoute, frCaller, frChanges, frForgets

fjVars == <<fjRemote, fjAcked, fjCache, fjInflight, fjRequest, fjCaller, fjPaused,
            fjMutation, fjOverlapped>>
frVars == <<frHost, frSoftware, frGated, frChoice, frChosen, frDecided, frHasRemote, frMemo,
            frSettled, frProbing, frRoute, frCaller, frChanges, frForgets>>

Fj == INSTANCE ForgejoGateway WITH
  MaxMutations <- MaxForgejo,
  remote <- fjRemote, acked <- fjAcked, cache <- fjCache, inflight <- fjInflight,
  request <- fjRequest, caller <- fjCaller, paused <- fjPaused, mutation <- fjMutation,
  overlapped <- fjOverlapped

Fr == INSTANCE ForgeRouting WITH
  host <- frHost, software <- frSoftware, gated <- frGated, choice <- frChoice,
  chosen <- frChosen, decided <- frDecided, hasRemote <- frHasRemote, memo <- frMemo,
  settled <- frSettled, probing <- frProbing, route <- frRoute, caller <- frCaller,
  changes <- frChanges, forgets <- frForgets

(* One behaviour changes pull requests and polls, the other opens pickers. *)
TestCasts == {{"mutator", broadcast}, {picker, broadcast}}

(* A part that does not run starts where one of its behaviours starts.     *)
PartsInit ==
  /\ part \in {"github", "forgejo", "router"}
  /\ Init /\ Fj!Init /\ Fr!Init
  /\ part # "github" => cast = {picker, broadcast}
  /\ part # "router" => frHost = "github" /\ frSoftware = "gitea" /\ ~frGated

PartsNext ==
  \/ part = "github" /\ Next /\ UNCHANGED <<fjVars, frVars>>
  \/ part = "forgejo" /\ Fj!Next /\ UNCHANGED <<vars, frVars>>
  \/ part = "router" /\ Fr!Next /\ UNCHANGED <<vars, fjVars>>
PartsSpec == PartsInit /\ [][PartsNext /\ UNCHANGED part]_<<part, vars, fjVars, frVars>>

StaleOnlyIfOverlapped == Fj!StaleOnlyIfOverlapped
RoutingSafety == Fr!RoutingSafety
=============================================================================
