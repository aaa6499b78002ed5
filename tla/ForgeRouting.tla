---------------------------- MODULE ForgeRouting ----------------------------
(***************************************************************************)
(* Which provider answers for a repository: the router                     *)
(* (server/src/forge/router.ts) follows the user's choice or reads the     *)
(* remote and probes the instance (forge/detect.ts), keeps the route per   *)
(* repository while the choice stands, and shares the reads and probes of  *)
(* callers that come at once.                                              *)
(*                                                                         *)
(* There is one repository, whose remote is on GitHub or on an instance    *)
(* that runs `Software`.  What a read or a probe will answer is drawn when *)
(* it is sent: nothing looks at it before it arrives.                      *)
(***************************************************************************)
EXTENDS Integers, FiniteSets

CONSTANTS
  Callers,
  Routes,       \* bound: routes in flight at once
  MaxChoices,   \* bound: changes of the setting
  MaxForgets    \* bound: re-pointings of the project

VARIABLES
  host, software, gated, \* the truth: the remote's host, what runs there, and
                         \* whether a gate answers for it
  choice,        \* providerFor(repoPath)
  chosen,        \* the cached promise: its choice, its route, its gateway
  decided,       \* RepoForge, or Undecided
  hasRemote,     \* remotes: "unset", "yes" or "no"
  memo,          \* remoteUrls: the read shared, and what it answers
  settled,       \* the detector's cache
  probing,       \* ... and its probe in flight
  route,         \* the routes' continuations
  caller,        \* what each caller asked under, and the gateway it got
  changes, forgets

vars == <<host, software, gated, choice, chosen, decided, hasRemote, memo, settled,
          probing, route, caller, changes, forgets>>

None == "none yet"
Choices == {"auto", "github", "forgejo", "none"}
Softwares == {"forgejo", "gitea", "gitlab"}
Undecided == [software |-> None, source |-> None]
NoMemo == [by |-> None, answer |-> None]
NotChosen == [choice |-> None, by |-> None, gateway |-> None]
NoRoute == [pc |-> "free", choice |-> "auto", inst |-> None, reader |-> None, probe |-> None]
NoProbe == [by |-> None, answer |-> None]

Init ==
  /\ host \in {"github", "instance"} /\ software \in Softwares /\ gated \in BOOLEAN
  /\ choice = "auto"
  /\ chosen = NotChosen /\ decided = Undecided /\ hasRemote = "unset"
  /\ memo = NoMemo /\ settled = None /\ probing = NoProbe
  /\ route = [r \in Routes |-> NoRoute]
  /\ caller = [c \in Callers |-> [pc |-> "idle", choice |-> "auto", on |-> None, gateway |-> None]]
  /\ changes = 0 /\ forgets = 0

-----------------------------------------------------------------------------
(* The detector.  Three endpoints are asked in turn; a probe that gets no  *)
(* answer is "down", a gate in front of the instance says "auth" to all.   *)

ProbeAnswers(endpoint) ==
  {"down"} \union
    (CASE gated -> {"auth"}
       [] ~gated /\ endpoint = "forgejo" -> IF software = "forgejo" THEN {"version"} ELSE {"missing"}
       [] ~gated /\ endpoint = "gitea" ->
            CASE software = "forgejo" -> {"version+gitea"}
              [] software = "gitea" -> {"version"}
              [] OTHER -> {"missing"}
       [] OTHER -> IF software = "gitlab" THEN {"version", "auth"} ELSE {"missing"})

(* classify: what the three answers say together.                          *)
Classify(fj, gt, gl) ==
  CASE fj = "version" -> "forgejo"
    [] fj # "version" /\ gt \in {"version", "version+gitea"} ->
         IF gt = "version+gitea" THEN "forgejo" ELSE "gitea"
    [] OTHER ->
         IF gl = "version" \/ (gl = "auth" /\ ~(fj = "auth" /\ gt = "auth"))
         THEN "gitlab" ELSE "unknown"

(* What detection may say, and whether every probe was answered.           *)
Detections ==
  {<<Classify(fj, gt, gl), "down" \notin {fj, gt, gl}>> :
     fj \in ProbeAnswers("forgejo"), gt \in ProbeAnswers("gitea"), gl \in ProbeAnswers("gitlab")}

-----------------------------------------------------------------------------
(* Routing *)

GatewayOf(name) ==
  CASE name \in {"forgejo", "gitea"} -> "forgejo"
    [] name = "github" -> "github"
    [] name = "none" -> "none"
    [] OTHER -> "unsupported"

(* The route's promise resolves: callers go on to the gateway, and a route *)
(* that was not decided leaves the cache, unless another took its place.   *)
Resolve(r, gateway, cacheable) ==
  /\ chosen' = CASE chosen.by # r -> chosen
                 [] chosen.by = r /\ cacheable -> [chosen EXCEPT !.gateway = gateway]
                 [] OTHER -> NotChosen
  /\ caller' = [c \in Callers |-> IF caller[c].on # r THEN caller[c]
                  ELSE [caller[c] EXCEPT !.pc = "answered", !.on = None, !.gateway = gateway]]
  /\ route' = [route EXCEPT ![r] = NoRoute]

(* readRemote: join the read kept or in flight, or start one that finds    *)
(* the remote or fails.                                                    *)
ReadRemote(r) ==
  \E answer \in IF memo.by # None THEN {memo.answer} ELSE {host, "unreadable"} :
    /\ memo' = IF memo.by # None THEN memo ELSE [by |-> r, answer |-> answer]
    /\ route' = [route EXCEPT ![r] =
         [NoRoute EXCEPT !.pc = "remote", !.choice = choice, !.inst = answer, !.reader = memo'.by]]

(* Mutant: the promise cached is used whatever the choice was. *)
HitWhateverChosen == chosen.by # None

(* pick: the cached promise stands as long as the choice does.             *)
Hit == chosen.by # None /\ chosen.choice = choice

Pick(c) ==
  /\ caller[c].pc \in {"idle", "answered"}
  /\ LET asked == [pc |-> "waiting", choice |-> choice, on |-> None, gateway |-> None]
     IN \/ /\ Hit
           /\ caller' = [caller EXCEPT ![c] =
                IF chosen.gateway = None THEN [asked EXCEPT !.on = chosen.by]
                ELSE [asked EXCEPT !.pc = "answered", !.gateway = chosen.gateway]]
           /\ UNCHANGED <<chosen, decided, hasRemote, memo, route>>
        \/ /\ ~Hit /\ choice = "none"   \* not even the remote is read
           /\ \E r \in {x \in Routes : route[x].pc = "free"} :
                chosen' = [choice |-> "none", by |-> r, gateway |-> "none"]
           /\ caller' = [caller EXCEPT ![c] = [asked EXCEPT !.pc = "answered", !.gateway = "none"]]
           /\ decided' = Undecided /\ hasRemote' = "unset"
           /\ UNCHANGED <<memo, route>>
        \/ /\ ~Hit /\ choice # "none"
           /\ \E r \in {x \in Routes : route[x].pc = "free"} :
                /\ ReadRemote(r)
                /\ chosen' = [choice |-> choice, by |-> r, gateway |-> None]
                /\ caller' = [caller EXCEPT ![c] = [asked EXCEPT !.on = r]]
           /\ UNCHANGED <<decided, hasRemote>>
  /\ UNCHANGED <<host, software, gated, choice, settled, probing, changes, forgets>>

(* The remote's read ends.  A failed one is not kept.                      *)
MemoAfter(r) ==
  IF route[r].inst = "unreadable" /\ memo.by = route[r].reader /\ route[r].reader # None
  THEN NoMemo ELSE memo

(* With an override, the answer is at hand: the instance is not probed.    *)
RouteByChoice(r) ==
  /\ route[r].pc = "remote" /\ route[r].choice # "auto"
  /\ memo' = MemoAfter(r)
  /\ hasRemote' = IF route[r].inst = "unreadable" THEN "no" ELSE "yes"
  /\ decided' = IF route[r].inst = "unreadable" THEN decided
                ELSE [software |-> route[r].choice, source |-> "override"]
  /\ Resolve(r, GatewayOf(route[r].choice), TRUE)
  /\ UNCHANGED <<host, software, gated, choice, settled, probing, changes, forgets>>

(* An unreadable remote falls back to gh without having decided so.        *)
Cacheable(r) == route[r].inst # "unreadable"

RouteToGithub(r) ==
  /\ route[r].pc = "remote" /\ route[r].choice = "auto"
  /\ route[r].inst \in {"github", "unreadable"}
  /\ memo' = MemoAfter(r)
  /\ hasRemote' = IF route[r].inst = "unreadable" THEN "no" ELSE "yes"
  /\ decided' = IF route[r].inst = "unreadable" THEN decided
                ELSE [software |-> "github", source |-> "detected"]
  /\ Resolve(r, "github", Cacheable(r))
  /\ UNCHANGED <<host, software, gated, choice, settled, probing, changes, forgets>>

(* Otherwise detection: known, under way, or begun now.                    *)
Detect(r) ==
  /\ route[r].pc = "remote" /\ route[r].choice = "auto" /\ route[r].inst = "instance"
  /\ memo' = MemoAfter(r)
  /\ hasRemote' = "yes"
  /\ \E d \in CASE settled # None -> {<<settled, TRUE>>}
                [] settled = None /\ probing.by # None -> {probing.answer}
                [] OTHER -> Detections :
       /\ route' = [route EXCEPT ![r].pc = "detect", ![r].probe = d]
       /\ probing' = IF settled = None /\ probing.by = None THEN [by |-> r, answer |-> d] ELSE probing
  /\ UNCHANGED <<host, software, gated, choice, chosen, decided, settled, caller, changes, forgets>>

(* The probe ends: a positive answer is kept for ever, "unknown" for a     *)
(* minute, and is not a decision.                                          *)
Detected(r) ==
  /\ route[r].pc = "detect"
  /\ settled' = IF probing.by = r THEN route[r].probe[1] ELSE settled
  /\ probing' = IF probing.by = r THEN NoProbe ELSE probing
  /\ decided' = [software |-> route[r].probe[1], source |-> "detected"]
  /\ Resolve(r, GatewayOf(route[r].probe[1]), route[r].probe[1] # "unknown")
  /\ UNCHANGED <<host, software, gated, choice, hasRemote, memo, changes, forgets>>

NegativeExpires ==
  /\ settled = "unknown" /\ settled' = None
  /\ UNCHANGED <<host, software, gated, choice, chosen, decided, hasRemote, memo, probing,
                 route, caller, changes, forgets>>

(* The user sets the provider; the route is re-picked on the next call.    *)
SetProvider ==
  /\ changes < MaxChoices /\ changes' = changes + 1
  /\ choice' \in Choices \ {choice}
  /\ UNCHANGED <<host, software, gated, chosen, decided, hasRemote, memo, settled, probing,
                 route, caller, forgets>>

(* The project is pointed at another directory, whose remote may differ,   *)
(* and forgetRepo drops what was learned.                                  *)
ForgetRepo ==
  /\ forgets < MaxForgets /\ forgets' = forgets + 1
  /\ host' \in {"github", "instance"}
  /\ chosen' = NotChosen /\ decided' = Undecided /\ hasRemote' = "unset" /\ memo' = NoMemo
  /\ UNCHANGED <<software, gated, choice, settled, probing, route, caller, changes>>

Next ==
  \/ \E c \in Callers : Pick(c)
  \/ \E r \in Routes : RouteByChoice(r) \/ RouteToGithub(r) \/ Detect(r) \/ Detected(r)
  \/ NegativeExpires \/ SetProvider \/ ForgetRepo

Spec == Init /\ [][Next]_vars

-----------------------------------------------------------------------------
(* A caller is answered by the provider the user had chosen when it asked, *)
(* also when the remote cannot be read, and by any but "none" on auto.     *)
ChoiceHonoured ==
  \A c \in Callers : caller[c].pc = "answered" =>
    IF caller[c].choice = "auto" THEN caller[c].gateway # "none"
    ELSE caller[c].gateway = GatewayOf(caller[c].choice)

(* A repository is not pinned to gh by a read that failed: as long as it   *)
(* was not re-pointed, a route kept for "auto" is the one its host or a    *)
(* probe that recognised the instance calls for.                           *)
NoFallbackIsPinned ==
  forgets = 0 /\ chosen.choice = "auto" /\ chosen.gateway # None =>
    IF host = "github" THEN chosen.gateway = "github"
    ELSE \E d \in Detections : d[1] # "unknown" /\ chosen.gateway = GatewayOf(d[1])

(* When every probe is answered, an instance is recognised for what it is, *)
(* and one behind a gate for nothing.                                      *)
AnsweredProbesAreRight ==
  \A d \in Detections : d[2] => d[1] = IF gated THEN "unknown" ELSE software

(* A repository goes to the forge it was put on, or to the right one       *)
(* (forge/router.ts, forge/detect.ts).                                     *)
RoutingSafety == ChoiceHonoured /\ NoFallbackIsPinned /\ AnsweredProbesAreRight
=============================================================================
