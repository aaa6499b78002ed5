---------------------------- MODULE PullRequests ----------------------------
(***************************************************************************)
(* How the state of a pull request reaches the app.  The GitHub gateway    *)
(* (server/src/github/gateway.ts) answers lookups from a cache, joins them *)
(* to lookups in flight, pays for them from one of two buckets and runs    *)
(* `gh` behind a gate; a mutation invalidates what it knew.  The poller    *)
(* (pr_watcher.ts) asks for it on a timer that the ladder may stop, and    *)
(* the repos broadcast (server.ts, repo_service.ts) puts the answer on the *)
(* worktree's pill.                                                        *)
(*                                                                         *)
(* There is one repository and one branch.  A definite answer ("pr" or     *)
(* "none") is the version of the pull request it describes; GitHub is a    *)
(* counter of versions.  Code between two awaits is one action.            *)
(***************************************************************************)
EXTENDS GithubBudget, Sequences

CONSTANTS
  Lookups,       \* bound: promises that may be in flight at once
  Pollers,       \* bound: polls that may overlap
  Snapshots,     \* bound: repos broadcasts that may overlap
  Users,         \* those who ask interactively
  Normal,        \* ConcurrencyGate's limit, 6 in the code
  Limited,       \* ... under a secondary limit, 2 in the code
  Measurements,  \* what a bucket may be found to have left
  MaxReads,      \* bound: measurements that change the budget
  MaxMutations,  \* bound: mutations of the pull request
  Casts,         \* bound: who asks, one of these sets in each behaviour
  UsersPause     \* whether github.pause is ever sent

ASSUME GatewayAssumption ==
  /\ Normal \in Nat \ {0} /\ Limited \in Nat \ {0} /\ Limited <= Normal
  /\ Measurements \subseteq Unmeasured .. MaxRemaining
  /\ MaxReads \in Nat /\ MaxMutations \in Nat /\ UsersPause \in BOOLEAN

(* A lookup is neither "no lookup" nor one of the other tasks at the gate. *)
ASSUME TasksAssumption == Lookups \cap {"none", "mutation", "periodic"} = {}

VARIABLES
  remote, acked,   \* the version at GitHub; the last one a mutation reported
  gen,             \* generation
  cache,           \* per kind of lookup, the version cached or Absent
  inflight,        \* per kind and interactive flag, the lookup registered
  lookup,          \* the lookups' continuations
  gate,            \* ConcurrencyGate
  bud,             \* the tracker
  routed,          \* previousChoice, per kind
  slug,            \* slugCache
  sig,             \* lastSignature
  timer, tracked,  \* the poller's timer is armed; it has branches to poll
  current,         \* the snapshot of the latest reposSnapshotGeneration
  pill, baseline,  \* the version shown; the poller's lastSig
  ask,             \* what each asker waits for
  mutation,        \* the mutation under way
  reads,
  cast             \* the askers of this behaviour

gateway == <<gen, cache, inflight, lookup, gate, bud, routed, slug, sig>>
screen == <<tracked, current, pill, baseline, cast>>
vars == <<remote, acked, gateway, timer, screen, ask, mutation, reads>>

None == "none"
Unknown == -1
Absent == -2
Kinds == {"pr", "list"}
Askers == Pollers \union Snapshots \union Users \union {"mutator"}
Tasks == Lookups \union {"mutation", "periodic"}

Idle == [pc |-> "idle", on |-> None, floor |-> 0, got |-> Unknown]
Free == [pc |-> "free", kind |-> "pr", interactive |-> FALSE, gen |-> 0,
         deep |-> FALSE, seen |-> 0, low |-> 0]

Init ==
  /\ remote = 0 /\ acked = 0
  /\ gen = [k \in Kinds |-> 0]
  /\ cache = [k \in Kinds |-> Absent]
  /\ inflight = [key \in Kinds \X BOOLEAN |-> None]
  /\ lookup = [l \in Lookups |-> Free]
  /\ gate = [active |-> 0, running |-> [t \in Tasks |-> 0], waiting |-> <<>>]
  /\ bud = Fresh
  /\ routed = [k \in Kinds |-> None]
  /\ slug = "unresolved" /\ sig = <<>>
  /\ timer = FALSE /\ tracked = FALSE /\ current = None
  /\ pill = 0 /\ baseline = 0
  /\ ask = [a \in Askers |-> Idle]
  /\ mutation = "idle" /\ reads = 0 /\ cast \in Casts

-----------------------------------------------------------------------------
(* The gate.  A waiter that is woken runs again before anything else can   *)
(* take the slot it was woken for, so waking it is giving it the slot.     *)

Limit(b) == IF b.secondary THEN Limited ELSE Normal
Least(m, n) == IF m < n THEN m ELSE n
Most(m, n) == IF m < n THEN n ELSE m

(* n acquires by task t.                                                   *)
Enter(g, b, t, n) ==
  LET go == Least(n, Most(0, Limit(b) - g.active))
  IN [active  |-> g.active + go,
      running |-> [g.running EXCEPT ![t] = @ + go],
      waiting |-> g.waiting \o [i \in 1 .. n - go |-> t]]

Woken(g, room) == Least(Most(0, room), Len(g.waiting))

(* A release by task t wakes as many waiters as the limit has room for.    *)
Leave(g, b, t) ==
  LET left == g.active - 1
      wake == Woken(g, Limit(b) - left)
  IN [active  |-> left + wake,
      running |-> [u \in Tasks |->
                     (IF u = t THEN g.running[u] - 1 ELSE g.running[u])
                       + Cardinality({i \in 1 .. wake : g.waiting[i] = u})],
      waiting |-> SubSeq(g.waiting, wake + 1, Len(g.waiting))]

Holds(t) == gate.running[t] > 0
Away(g, t) == g.running[t] = 0 /\ \A i \in 1 .. Len(g.waiting) : g.waiting[i] # t

-----------------------------------------------------------------------------
(* Who is told of a change of the budget: onBudgetChange pokes the poller  *)
(* when the level or the throttles differ from those last announced.       *)

Signature(b, r) == <<Level(b), Throttles(b), r["pr"] = "core">>

(* PrWatcher's schedule(): no timer on the stopped rung, none without      *)
(* branches.                                                               *)
Schedule(b, watched) == watched /\ PollRung(b) # "stopped"

EmitIfChanged(b, r) ==
  /\ sig' = Signature(b, r)
  /\ timer' = IF Signature(b, r) = sig THEN timer ELSE Schedule(b, tracked)

Silent == UNCHANGED <<sig, timer>>

(* commitRoute                                                             *)
CommitRoute(kind, bucket, b) ==
  /\ routed' = [routed EXCEPT ![kind] = bucket]
  /\ IF routed[kind] # bucket THEN EmitIfChanged(b, routed') ELSE Silent

-----------------------------------------------------------------------------
(* Lookups *)

Plan(kind) == IF kind = "pr" THEN PrForBranchPlan ELSE OpenPrsPlan

(* Spend is recorded before the gate is entered.                           *)
MainCall(l, rec, bucket, g) ==
  LET b == Spent(bud, Plan(rec.kind)[bucket])
  IN /\ bud' = b
     /\ CommitRoute(rec.kind, bucket, bud)
     /\ gate' = Enter(g, b, l, 1)
     /\ lookup' = [lookup EXCEPT ![l] =
                     [rec EXCEPT !.pc = IF bucket = "core" THEN "rest" ELSE "main",
                                 !.seen = remote, !.low = remote]]

(* The synchronous part of a lookup that the policy lets through.          *)
Begin(l, kind, interactive) ==
  LET rec == [Free EXCEPT !.kind = kind, !.interactive = interactive,
                          !.gen = gen[kind], !.deep = IncludeUnresolved(bud)]
  IN \E imminent \in BOOLEAN :
       LET bucket == Route(Plan(kind), bud, routed[kind], imminent)
       IN IF bucket = "core" /\ slug = "unresolved"
          THEN /\ lookup' = [lookup EXCEPT ![l] = [rec EXCEPT !.pc = "slug"]]
               /\ UNCHANGED <<bud, routed, gate>> /\ Silent
          ELSE MainCall(l, rec, IF slug = "github" THEN bucket ELSE "graphql", gate)

(* `git remote` names the repository, or there is no REST path; the answer *)
(* is kept for ever.                                                       *)
ResolveSlug(l) ==
  /\ lookup[l].pc = "slug"
  /\ slug' \in (IF slug = "unresolved" THEN {"github", "other"} ELSE {slug})
  /\ MainCall(l, lookup[l], IF slug' = "github" THEN "core" ELSE "graphql", gate)
  /\ UNCHANGED <<remote, acked, gen, cache, inflight, screen, ask, mutation, reads>>

Waiting(a, l) == [pc |-> "waiting", on |-> l, floor |-> acked, got |-> Unknown]
Answered(v) == [pc |-> "answered", on |-> None, floor |-> acked, got |-> v]

(* prForBranch and openPrs: cache, then the promise in flight, then a      *)
(* lookup of one's own.                                                    *)
Ask(a, kind, interactive) ==
  LET key == <<kind, interactive>>
  IN \/ /\ ~interactive /\ cache[kind] # Absent
        /\ ask' = [ask EXCEPT ![a] = Answered(cache[kind])]
        /\ UNCHANGED <<bud, routed, gate, lookup, inflight>> /\ Silent
     \/ /\ interactive \/ cache[kind] = Absent
        /\ inflight[key] # None
        /\ ask' = [ask EXCEPT ![a] = Waiting(a, inflight[key])]
        /\ UNCHANGED <<bud, routed, gate, lookup, inflight>> /\ Silent
     \/ /\ interactive \/ cache[kind] = Absent
        /\ inflight[key] = None
        /\ ~Allow(bud, interactive)
        /\ ask' = [ask EXCEPT ![a] = Answered(Unknown)]
        /\ UNCHANGED <<bud, routed, gate, lookup, inflight>> /\ Silent
     \/ /\ interactive \/ cache[kind] = Absent
        /\ inflight[key] = None
        /\ Allow(bud, interactive)
        /\ \E l \in {x \in Lookups : lookup[x].pc = "free"} :
             /\ inflight' = [inflight EXCEPT ![key] = l]
             /\ ask' = [ask EXCEPT ![a] = Waiting(a, l)]
             /\ Begin(l, kind, interactive)

(* Mutant: the answer is cached whatever happened meanwhile. *)
CacheAfterAnyway(l, v) ==
  IF v # Unknown THEN [cache EXCEPT ![lookup[l].kind] = v] ELSE cache

(* A lookup's promise settles.  Only a definite answer is cached, and only *)
(* if no mutation was reported since the lookup began.                     *)
CacheAfter(l, v) ==
  IF v # Unknown /\ lookup[l].gen = gen[lookup[l].kind]
  THEN [cache EXCEPT ![lookup[l].kind] = v] ELSE cache

Settle(l, v) ==
  /\ cache' = CacheAfter(l, v)
  /\ inflight' = [key \in DOMAIN inflight |-> IF inflight[key] = l THEN None ELSE inflight[key]]
  /\ lookup' = [lookup EXCEPT ![l] = Free]
  /\ ask' = [a \in Askers |-> IF ask[a].on # l THEN ask[a]
                              ELSE [ask[a] EXCEPT !.pc = "answered", !.on = None, !.got = v]]

Continues(l, rec) ==
  /\ lookup' = [lookup EXCEPT ![l] = rec]
  /\ UNCHANGED <<cache, inflight, ask>>

(* handleFailure: a secondary limit lowers the gate's limit, and any       *)
(* throttle re-reads the quota, through the gate as well.                  *)
HandleFailure(kind, t, g) ==
  LET b == [bud EXCEPT !.secondary = @ \/ kind = "secondary"]
  IN /\ bud' = b
     /\ gate' = Enter(g, b, t, 1)
     /\ IF kind = "secondary" THEN EmitIfChanged(b, routed) ELSE Silent
     /\ UNCHANGED routed

Throttled == {"throttled", "secondary"}

(* What `gh` read lies between the start of the call and its end.          *)
Read(l) == lookup[l].seen .. remote

(* The first call of a lookup fails.                                       *)
MainFails(l) ==
  /\ lookup[l].pc \in {"main", "rest", "detail"} /\ Holds(l)
  /\ LET g == Leave(gate, bud, l)
     IN /\ Away(g, l)   \* all three detail calls are awaited
        /\ \/ Settle(l, Unknown) /\ gate' = g /\ UNCHANGED <<bud, routed>> /\ Silent
           \/ \E kind \in Throttled :
                /\ HandleFailure(kind, l, g)
                /\ Continues(l, [lookup[l] EXCEPT !.pc = "refresh"])
  /\ UNCHANGED <<remote, acked, gen, slug, screen, mutation, reads>>

(* One of the parallel detail calls ends while others are out.             *)
DetailReturns(l) ==
  /\ lookup[l].pc = "detail" /\ Holds(l)
  /\ gate' = Leave(gate, bud, l)
  /\ ~Away(gate', l)
  /\ UNCHANGED <<remote, acked, gen, cache, inflight, lookup, bud, routed, slug, sig,
                 timer, screen, ask, mutation, reads>>

(* The list over REST names the pull request, and three calls follow.      *)
RestListed(l) ==
  /\ lookup[l].pc = "rest" /\ lookup[l].kind = "pr" /\ Holds(l)
  /\ gate' = Enter(Leave(gate, bud, l), bud, l, 3)
  /\ \E v \in Read(l) : Continues(l, [lookup[l] EXCEPT !.pc = "detail", !.low = v])
  /\ UNCHANGED <<remote, acked, gen, bud, routed, slug, sig, timer, screen, mutation, reads>>

(* The last answer a lookup needs.  An answer pieced together is as old as *)
(* its oldest piece.                                                       *)
MainReturns(l) ==
  /\ lookup[l].pc \in {"main", "rest", "detail"} /\ Holds(l)
  /\ LET g == Leave(gate, bud, l)
     IN /\ Away(g, l)
        /\ \/ /\ lookup[l].pc = "detail"
              /\ Settle(l, lookup[l].low) /\ gate' = g /\ UNCHANGED <<bud, routed>> /\ Silent
           \/ /\ lookup[l].pc = "main" \/ (lookup[l].pc = "rest" /\ lookup[l].kind = "list")
              /\ lookup[l].kind = "list" \/ ~lookup[l].deep \/ ~Allow(bud, lookup[l].interactive)
                   \/ OmitUnresolved(bud)
              /\ \E v \in Read(l) : Settle(l, v)
              /\ gate' = g /\ UNCHANGED <<bud, routed>> /\ Silent
           \/ /\ lookup[l].pc = "main" /\ lookup[l].kind = "pr" /\ lookup[l].deep
              /\ Allow(bud, lookup[l].interactive) /\ ~OmitUnresolved(bud)
              /\ bud' = Spent(bud, UnresolvedUnits)
              /\ gate' = Enter(g, bud, l, 1)
              /\ \E v \in Read(l) : Continues(l, [lookup[l] EXCEPT !.pc = "threads", !.low = v])
              /\ UNCHANGED routed /\ Silent
  /\ UNCHANGED <<remote, acked, gen, slug, screen, mutation, reads>>

(* fetchUnresolvedCount: pages of threads.  Its failure leaves the count   *)
(* unmeasured and the pull request definite.                               *)
ThreadsReturn(l) ==
  /\ lookup[l].pc = "threads" /\ Holds(l)
  /\ LET g == Leave(gate, bud, l)
     IN \/ Settle(l, lookup[l].low) /\ gate' = g /\ UNCHANGED <<bud, routed>> /\ Silent
        \/ \E kind \in Throttled :
             /\ HandleFailure(kind, l, g)
             /\ Continues(l, [lookup[l] EXCEPT !.pc = "threads refresh"])
  /\ UNCHANGED <<remote, acked, gen, slug, screen, mutation, reads>>

(* What `gh api rate_limit` may say.                                       *)
Replies ==
  IF reads < MaxReads THEN [Buckets -> Measurements] ELSE {[k \in Buckets |-> Unmeasured]}

(* refresh(): not charged, but behind the gate.                            *)
Refreshed(t) ==
  /\ gate' = Leave(gate, bud, t)
  /\ \E reply \in Replies :
       /\ bud' = Measured(bud, reply)
       /\ reads' = IF bud' = bud THEN reads ELSE reads + 1
  /\ EmitIfChanged(bud', routed)
  /\ UNCHANGED <<remote, acked, gen, routed, slug, screen>>

LookupRefreshed(l) ==
  /\ lookup[l].pc \in {"refresh", "threads refresh"} /\ Holds(l)
  /\ Refreshed(l)
  /\ Settle(l, IF lookup[l].pc = "refresh" THEN Unknown ELSE lookup[l].low)
  /\ UNCHANGED mutation

-----------------------------------------------------------------------------
(* The periodic refresh, the clock and the user's pause. *)

RefreshDue ==
  /\ Away(gate, "periodic")
  /\ gate' = Enter(gate, bud, "periodic", 1)
  /\ UNCHANGED <<remote, acked, gen, cache, inflight, lookup, bud, routed, slug, sig,
                 timer, screen, ask, mutation, reads>>

RefreshReturns ==
  /\ Holds("periodic") /\ Refreshed("periodic")
  /\ UNCHANGED <<cache, inflight, lookup, ask, mutation>>

TimePasses ==
  /\ bud' \in {bud, Cooled(bud)}
  /\ \E gone \in SUBSET Kinds : cache' = [k \in Kinds |-> IF k \in gone THEN Absent ELSE cache[k]]
  /\ UNCHANGED <<remote, acked, gen, inflight, lookup, gate, routed, slug, sig,
                 timer, screen, ask, mutation, reads>>

SetPaused ==
  /\ UsersPause
  /\ bud' = [bud EXCEPT !.paused = ~@]
  /\ EmitIfChanged(bud', routed)
  /\ UNCHANGED <<remote, acked, gen, cache, inflight, lookup, gate, routed, slug, screen,
                 ask, mutation, reads>>

-----------------------------------------------------------------------------
(* Users open the picker of pull requests, or press a button that changes  *)
(* one.                                                                    *)

UserAsks(u) ==
  /\ u \in cast /\ ask[u].pc = "idle"
  /\ Ask(u, "list", TRUE)
  /\ UNCHANGED <<remote, acked, gen, cache, slug, screen, mutation, reads>>

(* _mutatePr looks the pull request up interactively first.                *)
MutationAsked ==
  /\ "mutator" \in cast /\ mutation = "idle" /\ remote < MaxMutations
  /\ mutation' = "find"
  /\ Ask("mutator", "pr", TRUE)
  /\ UNCHANGED <<remote, acked, gen, cache, slug, screen, reads>>

MutatePr ==
  /\ mutation = "find" /\ ask["mutator"].pc = "answered"
  /\ ask' = [ask EXCEPT !["mutator"] = Idle]
  /\ IF ask["mutator"].got = Unknown
     THEN mutation' = "idle" /\ UNCHANGED <<bud, gate>>
     ELSE /\ mutation' = "running"
          /\ bud' = Spent(bud, 1)
          /\ gate' = Enter(gate, bud, "mutation", 1)
  /\ UNCHANGED <<remote, acked, gen, cache, inflight, lookup, routed, slug, sig, timer,
                 screen, reads>>

(* GitHub applies it while `gh` runs ...                                   *)
MutationApplied ==
  /\ mutation = "running" /\ Holds("mutation")
  /\ remote' = remote + 1 /\ mutation' = "applied"
  /\ UNCHANGED <<acked, gateway, timer, screen, ask, reads>>

(* invalidate, for the pull request and for every list of its repository:  *)
(* the cache, the generation, and the promises in flight.                  *)
Invalidate ==
  /\ gen' = [k \in Kinds |-> gen[k] + 1]
  /\ cache' = [k \in Kinds |-> Absent]
  /\ inflight' = [key \in DOMAIN inflight |-> None]

(* ... and `gh` reports success,                                           *)
MutationSucceeds ==
  /\ mutation = "applied" /\ Holds("mutation")
  /\ mutation' = "idle"
  /\ acked' = remote
  /\ gate' = Leave(gate, bud, "mutation")
  /\ Invalidate
  /\ UNCHANGED <<remote, lookup, bud, routed, slug, sig, timer, screen, ask, reads>>

(* or fails, or times out and GitHub has applied it or still will.         *)
MutationFails ==
  /\ mutation \in {"running", "applied"} /\ Holds("mutation")
  /\ remote' \in (IF mutation = "running" THEN {remote, remote + 1} ELSE {remote})
  /\ LET g == Leave(gate, bud, "mutation")
     IN \/ mutation' = "idle" /\ gate' = g /\ UNCHANGED <<bud, routed>> /\ Silent
        \/ \E kind \in Throttled : HandleFailure(kind, "mutation", g) /\ mutation' = "refresh"
  /\ UNCHANGED <<acked, gen, cache, inflight, lookup, slug, screen, ask, reads>>

MutationRefreshed ==
  /\ mutation = "refresh" /\ Holds("mutation")
  /\ Refreshed("mutation")
  /\ mutation' = "idle"
  /\ UNCHANGED <<cache, inflight, lookup, ask>>

-----------------------------------------------------------------------------
(* The poller and the broadcast of the repositories. *)

PollFires(p) ==
  /\ timer /\ ask[p].pc = "idle"
  /\ timer' = FALSE
  /\ ask' = [ask EXCEPT ![p] = [Idle EXCEPT !.pc = "due"]]
  /\ UNCHANGED <<remote, acked, gateway, screen, mutation, reads>>

PollAsks(p) ==
  /\ ask[p].pc = "due"
  /\ Ask(p, "pr", FALSE)
  /\ UNCHANGED <<remote, acked, gen, cache, slug, screen, mutation, reads>>

(* A snapshot starts with the git-only phase; being the latest is having   *)
(* the current generation.                                                 *)
Starts(s) == s \in cast /\ ask[s].pc = "idle"
InGit == [Idle EXCEPT !.pc = "git"]

SnapshotAsked(s) ==
  /\ Starts(s)
  /\ current' = s /\ ask' = [ask EXCEPT ![s] = InGit]
  /\ UNCHANGED <<remote, acked, gateway, timer, tracked, pill, baseline, cast, mutation, reads>>

(* pollOnce's end: an unknown answer is skipped, a changed one broadcast,  *)
(* and the next tick scheduled.                                            *)
PollReturns(p) ==
  /\ ask[p].pc = "answered"
  /\ IF ask[p].got \in {Unknown, baseline}
     THEN ask' = [ask EXCEPT ![p] = Idle] /\ UNCHANGED <<baseline, current>>
     ELSE /\ baseline' = ask[p].got
          /\ \E s \in Snapshots :
               /\ Starts(s)
               /\ current' = s /\ ask' = [ask EXCEPT ![p] = Idle, ![s] = InGit]
  /\ UNCHANGED <<tracked, pill, cast>>
  /\ timer' = Schedule(bud, tracked)
  /\ UNCHANGED <<remote, acked, gateway, mutation, reads>>

(* The git-only snapshot is sent with the pills as they were, unless a     *)
(* later one has begun; then the pills are asked for.                      *)
SnapshotListed(s) ==
  /\ ask[s].pc = "git"
  /\ IF current = s
     THEN Ask(s, "pr", FALSE)
     ELSE /\ ask' = [ask EXCEPT ![s] = Idle]
          /\ UNCHANGED <<bud, routed, gate, lookup, inflight>> /\ Silent
  /\ UNCHANGED <<remote, acked, gen, cache, slug, screen, mutation, reads>>

(* enrichPrs: an unknown answer keeps the pill (and dims it).  The poller  *)
(* takes its branches and its baseline from what is shown.                 *)
SnapshotEnriched(s) ==
  /\ ask[s].pc = "answered"
  /\ ask' = [ask EXCEPT ![s] = Idle]
  /\ IF current = s
     THEN /\ pill' = IF ask[s].got = Unknown THEN pill ELSE ask[s].got
          /\ baseline' = pill' /\ tracked' = TRUE
          /\ timer' = Schedule(bud, TRUE)
     ELSE UNCHANGED <<pill, baseline, tracked, timer>>
  /\ UNCHANGED <<current, cast, remote, acked, gateway, mutation, reads>>

-----------------------------------------------------------------------------
LookupStep(l) ==
  \/ ResolveSlug(l) \/ MainFails(l) \/ DetailReturns(l) \/ RestListed(l)
  \/ MainReturns(l) \/ ThreadsReturn(l) \/ LookupRefreshed(l)

MutationStep ==
  \/ MutatePr \/ MutationApplied \/ MutationSucceeds \/ MutationFails \/ MutationRefreshed

Next ==
  \/ \E l \in Lookups : LookupStep(l)
  \/ RefreshDue \/ RefreshReturns \/ TimePasses \/ SetPaused
  \/ \E u \in Users : UserAsks(u)
  \/ MutationAsked \/ MutationStep
  \/ \E p \in Pollers : PollFires(p) \/ PollAsks(p) \/ PollReturns(p)
  \/ \E s \in Snapshots : SnapshotAsked(s) \/ SnapshotListed(s) \/ SnapshotEnriched(s)

Spec == Init /\ [][Next]_vars

(* `gh` and `git` run under timeouts, timers fire, and continuations run.  *)
FairSpec ==
  /\ Spec
  /\ \A l \in Lookups : WF_vars(LookupStep(l))
  /\ WF_vars(MutatePr) /\ WF_vars(MutationSucceeds \/ MutationFails \/ MutationRefreshed)
  /\ WF_vars(RefreshDue) /\ WF_vars(RefreshReturns)
  /\ \A p \in Pollers : WF_vars(PollFires(p)) /\ WF_vars(PollAsks(p)) /\ WF_vars(PollReturns(p))
  /\ \A s \in Snapshots : WF_vars(SnapshotListed(s)) /\ WF_vars(SnapshotEnriched(s))

-----------------------------------------------------------------------------
(* Nothing cached describes a pull request from before a mutation that was *)
(* reported done: the invalidation is not undone by a lookup that was in   *)
(* flight (gateway.ts, generation).                                        *)
NoStaleCache == \A k \in Kinds : cache[k] # Absent => cache[k] >= acked

(* Whoever asks after a mutation was reported is told of the state the     *)
(* mutation left or a later one, whether from the cache, from a promise    *)
(* joined or from a lookup of one's own.                                   *)
FreshAnswers ==
  \A a \in Askers : ask[a].pc = "answered" /\ ask[a].got # Unknown => ask[a].got >= ask[a].floor

(* Nobody waits for ever: whoever waits, waits for a lookup that is still  *)
(* registered with git or the gate, and calls queued at the gate have      *)
(* somebody before them who will release it, even when the limit drops     *)
(* while they are queued.                                                  *)
NobodyWaitsForNothing ==
  /\ \A a \in Askers : ask[a].pc = "waiting" =>
       \/ lookup[ask[a].on].pc = "slug"
       \/ lookup[ask[a].on].pc # "free" /\ ~Away(gate, ask[a].on)
  /\ gate.waiting # <<>> => gate.active > 0

(* The gateway tells nothing stale and leaves nobody waiting.              *)
GatewaySafety == NoStaleCache /\ FreshAnswers /\ NobodyWaitsForNothing
=============================================================================
