--------------------------- MODULE ForgejoGateway ---------------------------
(***************************************************************************)
(* The gateway to a Forgejo instance (server/src/forge/forgejo/gateway.ts):*)
(* a cache, requests in flight that callers share, a pause the server may  *)
(* ask for, and mutations that drop what was cached.  Unlike the GitHub    *)
(* gateway it keeps no generation, so a lookup that overlaps a mutation    *)
(* may cache what it read before.                                          *)
(*                                                                         *)
(* One repository, one branch: an answer is the version it describes.      *)
(***************************************************************************)
EXTENDS Integers

CONSTANTS
  Callers,
  Requests,     \* bound: shared requests in flight at once
  MaxMutations  \* bound

VARIABLES
  remote, acked,  \* the instance's version; the last one a mutation reported
  cache,          \* per kind, the version cached or Absent
  inflight,       \* per kind, the request callers join
  request,        \* the requests: their kind and what they may have read
  caller,         \* the callers' continuations
  paused,         \* backoffUntil lies in the future
  mutation,
  overlapped      \* history: lookups were under way when a mutation was reported

vars == <<remote, acked, cache, inflight, request, caller, paused, mutation, overlapped>>

Absent == -2
Unknown == -1
None == "none"
Kinds == {"pr", "open"}

NoRequest == [kind |-> None, seen |-> 0]
Out(k) == [kind |-> k, seen |-> remote]
Rest == [pc |-> "idle", kind |-> "pr", on |-> None, v |-> Unknown, floor |-> 0]

Init ==
  /\ remote = 0 /\ acked = 0
  /\ cache = [k \in Kinds |-> Absent]
  /\ inflight = [k \in Kinds |-> None]
  /\ request = [q \in Requests |-> NoRequest]
  /\ caller = [c \in Callers |-> Rest]
  /\ paused = FALSE /\ mutation = "idle"
  /\ overlapped = [k \in Kinds |-> FALSE]

Answer(c, v) == [caller EXCEPT ![c].pc = "answered", ![c].on = None, ![c].v = v]

(* prForBranch and openPrs.  A background caller takes the cached answer,  *)
(* and sends nothing during a pause; the rest share a request per key.     *)
Lookup(c, k, interactive) ==
  /\ caller[c].pc \in {"idle", "answered"}
  /\ LET asked == [Rest EXCEPT !.kind = k, !.floor = acked]
     IN \/ /\ ~interactive /\ (cache[k] # Absent \/ paused)
           /\ caller' = [caller EXCEPT ![c] =
                [asked EXCEPT !.pc = "answered",
                              !.v = IF cache[k] # Absent THEN cache[k] ELSE Unknown]]
           /\ UNCHANGED <<inflight, request>>
        \/ /\ interactive \/ (cache[k] = Absent /\ ~paused)
           /\ \E q \in Requests :
                /\ IF inflight[k] # None
                   THEN q = inflight[k] /\ UNCHANGED request
                   ELSE request[q] = NoRequest /\ request' = [request EXCEPT ![q] = Out(k)]
                /\ inflight' = [inflight EXCEPT ![k] = q]
                /\ caller' = [caller EXCEPT ![c] = [asked EXCEPT !.pc = "waiting", !.on = q]]
  /\ UNCHANGED <<remote, acked, cache, paused, mutation, overlapped>>

(* noteThrottle, or the end of a pause when the server answers.            *)
PausedAfter(status) ==
  CASE status = "throttled" -> TRUE [] status = "ok" -> FALSE [] status = "down" -> paused

Waiting(q) == {c \in Callers : caller[c].on = q}

(* The list arrives; every caller that joined goes on by itself: a lookup  *)
(* of one branch reads the checks before it caches, a list is cached now.  *)
ListArrives(q) ==
  /\ request[q] # NoRequest
  /\ LET k == request[q].kind
     IN \/ \E status \in {"throttled", "down"} :
             /\ paused' = PausedAfter(status)
             /\ caller' = [c \in Callers |-> IF c \in Waiting(q) THEN Answer(c, Unknown)[c] ELSE caller[c]]
             /\ UNCHANGED cache
        \/ \E v \in request[q].seen .. remote :
             /\ paused' = PausedAfter("ok")
             /\ caller' = [c \in Callers |->
                  CASE c \notin Waiting(q) -> caller[c]
                    [] c \in Waiting(q) /\ k = "open" -> Answer(c, v)[c]
                    [] OTHER -> [caller[c] EXCEPT !.pc = "checks", !.on = None, !.v = v]]
             /\ cache' = IF k = "open" /\ Waiting(q) # {} THEN [cache EXCEPT ![k] = v] ELSE cache
  /\ inflight' = [k \in Kinds |-> IF inflight[k] = q THEN None ELSE inflight[k]]
  /\ request' = [request EXCEPT ![q] = NoRequest]
  /\ UNCHANGED <<remote, acked, mutation, overlapped>>

(* The checks of the pull request found; without them it is still found.   *)
ChecksArrive(c) ==
  /\ caller[c].pc = "checks"
  /\ caller' = Answer(c, caller[c].v)
  /\ cache' = [cache EXCEPT !["pr"] = caller[c].v]
  /\ \E status \in {"ok", "throttled", "down"} : paused' = PausedAfter(status)
  /\ UNCHANGED <<remote, acked, inflight, request, mutation, overlapped>>

(* A cached answer reaches its age, or a pause its end.                    *)
TimePasses ==
  /\ \E gone \in SUBSET Kinds :
       cache' = [k \in Kinds |-> IF k \in gone THEN Absent ELSE cache[k]]
  /\ paused' \in {paused, FALSE}
  /\ UNCHANGED <<remote, acked, inflight, request, caller, mutation, overlapped>>

(* mutatePr.  Taking a pull request out of draft reads its title first;    *)
(* the other verbs are one request.                                        *)
MutatePr ==
  /\ mutation = "idle" /\ remote < MaxMutations
  /\ mutation' \in {"title", "sent"}
  /\ UNCHANGED <<remote, acked, cache, inflight, request, caller, paused, overlapped>>

MarkReady ==
  /\ mutation = "title"
  /\ mutation' \in {"sent", "idle"}
  /\ \E status \in {"ok", "throttled", "down"} : paused' = PausedAfter(status)
  /\ UNCHANGED <<remote, acked, cache, inflight, request, caller, overlapped>>

MutationApplied ==
  /\ mutation = "sent"
  /\ remote' = remote + 1 /\ mutation' = "applied"
  /\ UNCHANGED <<acked, cache, inflight, request, caller, paused, overlapped>>

(* A request that some caller is still to cache the answer of.             *)
UnderWay(k) == \E c \in Callers : caller[c].kind = k /\ caller[c].pc \in {"waiting", "checks"}

(* Mutant: only the answer for the branch is dropped. *)
DroppedForBranch == [cache EXCEPT !["pr"] = Absent]

(* What a success drops: the branch's answer and every list.               *)
Dropped == [k \in Kinds |-> Absent]

MutationSucceeds ==
  /\ mutation = "applied"
  /\ mutation' = "idle" /\ acked' = remote
  /\ cache' = Dropped
  /\ paused' = PausedAfter("ok")
  /\ overlapped' = [k \in Kinds |-> UnderWay(k)]
  /\ UNCHANGED <<remote, inflight, request, caller>>

(* A failure drops nothing, even when the instance applied the change.     *)
MutationFails ==
  /\ mutation \in {"sent", "applied"}
  /\ mutation' = "idle"
  /\ \E status \in {"ok", "throttled", "down"} : paused' = PausedAfter(status)
  /\ UNCHANGED <<remote, acked, cache, inflight, request, caller, overlapped>>

Next ==
  \/ \E c \in Callers, k \in Kinds, interactive \in BOOLEAN : Lookup(c, k, interactive)
  \/ \E q \in Requests : ListArrives(q)
  \/ \E c \in Callers : ChecksArrive(c)
  \/ TimePasses \/ MutatePr \/ MarkReady
  \/ MutationApplied \/ MutationSucceeds \/ MutationFails

Spec == Init /\ [][Next]_vars

(* After a mutation was reported, the state from before it is cached or    *)
(* told to a new caller only when a lookup of that kind was under way at   *)
(* that moment: the mutation itself drops the branch and every list.       *)
StaleOnlyIfOverlapped ==
  /\ \A k \in Kinds : cache[k] # Absent /\ cache[k] < acked => overlapped[k]
  /\ \A c \in Callers :
       /\ caller[c].pc = "answered" /\ caller[c].floor = acked
       /\ caller[c].v # Unknown /\ caller[c].v < acked
       => overlapped[caller[c].kind]
=============================================================================
