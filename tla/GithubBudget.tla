---------------------------- MODULE GithubBudget ----------------------------
(***************************************************************************)
(* How much GitHub quota the server believes is left, and what it does     *)
(* about it: BudgetTracker (server/src/github/budget.ts) derives a level,  *)
(* the ladder (github/policy.ts) a polling rung and a verdict on each      *)
(* request, and the router (github/router.ts) the bucket that pays.        *)
(*                                                                         *)
(* A budget b is a record of the tracker's fields.  Quantities are scaled  *)
(* down: Reserve stands for 300 requests and Crawl for 900.                *)
(***************************************************************************)
EXTENDS Integers, FiniteSets

CONSTANTS
  Reserve,      \* requests withheld from background work
  Crawl,        \* below this the poller crawls
  MaxRemaining, \* bound: the largest quota a measurement reports
  MaxBurn       \* bound: requests counted over ten minutes

ASSUME BudgetAssumption ==
  /\ Reserve \in Nat \ {0} /\ Crawl \in Nat /\ Reserve <= Crawl
  /\ MaxRemaining \in Nat /\ MaxBurn \in Nat

Unmeasured == -1
Buckets == {"core", "graphql"}   \* the hourly ones; search governs nothing

Fresh == [remaining |-> [k \in Buckets |-> Unmeasured],
          burn |-> 0, secondary |-> FALSE, paused |-> FALSE]

(* recordSpend counts in the minute ring; only a measurement changes what  *)
(* remains.                                                                *)
Spent(b, units) ==
  [b EXCEPT !.burn = IF @ + units > MaxBurn THEN MaxBurn ELSE @ + units]

(* The ring moves on: spend leaves the ten-minute window.                  *)
Cooled(b) == [b EXCEPT !.burn = 0]

(* applyRateLimit: a bucket missing from the reply keeps its last state.   *)
Measured(b, reply) ==
  [b EXCEPT !.remaining =
     [k \in Buckets |-> IF reply[k] = Unmeasured THEN b.remaining[k] ELSE reply[k]]]

(* Headroom is what the better bucket has: the router can spend from it.   *)
Governing(b) ==
  IF b.remaining["core"] > b.remaining["graphql"]
  THEN b.remaining["core"] ELSE b.remaining["graphql"]

Level(b) ==
  LET left == Governing(b)
  IN CASE left = Unmeasured -> "unknown"
       [] left # Unmeasured /\ (b.paused \/ left = 0) -> "paused"
       [] left > 0 /\ ~b.paused /\ 2 * left < b.burn -> "critical"
       [] left > 0 /\ ~b.paused /\ 2 * left >= b.burn /\ left < 3 * b.burn -> "warm"
       [] OTHER -> "healthy"

Dry(b) == {k \in Buckets : b.remaining[k] = 0}

(* computeThrottles, as the set of what it names.                          *)
Throttles(b) ==
  {t \in {"secondary", "paused", "failover"} \union Buckets :
     \/ t = "secondary" /\ b.secondary
     \/ t = "paused" /\ b.paused
     \/ t \in Dry(b)
     \/ t = "failover" /\ Dry(b) # {} /\ \E k \in Buckets : b.remaining[k] > 0}

-----------------------------------------------------------------------------
(* The ladder *)

(* pollIntervalFor: the slowest rung that applies.                         *)
PollRung(b) ==
  LET left == Governing(b)
      short == left # Unmeasured
  IN CASE b.paused \/ Level(b) = "paused" \/ (short /\ left < Reserve) -> "stopped"
       [] short /\ left >= Reserve /\ left < Crawl /\ ~b.paused -> "crawl"
       [] OTHER -> IF Level(b) \in {"warm", "critical", "unknown"} THEN "slow" ELSE "fast"

IncludeUnresolved(b) == PollRung(b) = "fast"

Allow(b, interactive) ==
  interactive \/ Governing(b) = Unmeasured \/ Governing(b) >= Reserve

-----------------------------------------------------------------------------
(* The router.  A plan is what a request costs in each bucket, 0 for none. *)

PrForBranchPlan == [graphql |-> 1, core |-> 4]
OpenPrsPlan == [graphql |-> 1, core |-> 1]
UnresolvedUnits == 1

Left(b, k) == IF b.remaining[k] > 1 THEN b.remaining[k] ELSE 1

(* score(p) < score(q), without dividing.                                  *)
Cheaper(plan, b, p, q) == plan[p] * Left(b, q) < plan[q] * Left(b, p)

(* Not 20% better: 0.8 * score(q) < score(p).                              *)
NotMuchCheaper(plan, b, p, q) ==
  4 * plan[q] * Left(b, p) < 5 * plan[p] * Left(b, q)

(* route for a plan with a fallback: graphql is the primary, core the      *)
(* fallback.  `previous` is the bucket used last, or "none"; `imminent`    *)
(* says that graphql's window resets within two minutes.                   *)
Route(plan, b, previous, imminent) ==
  LET best == IF Cheaper(plan, b, "core", "graphql") THEN "core" ELSE "graphql"
  IN CASE b.secondary
            \/ (imminent /\ b.remaining["graphql"] # Unmeasured /\ plan["core"] >= 3 * plan["graphql"])
              -> "graphql"
       [] OTHER ->
            IF previous # "none" /\ best # previous /\ NotMuchCheaper(plan, b, best, previous)
            THEN previous ELSE best

(* A field only GraphQL has is dropped when its bucket cannot pay.         *)
OmitUnresolved(b) == ~b.secondary /\ b.remaining["graphql"] < UnresolvedUnits
=============================================================================
