------------------------------ MODULE ForgesProofs ------------------------------
(* Proofs about ForgesMC for any callers, requests, routes and bounds: the  *)
(* GitHub gateway, the Forgejo gateway's cache, and the router.             *)
EXTENDS ForgesMC, TLAPS, FiniteSetTheorems

allVars == <<part, vars, fjVars, frVars>>

-----------------------------------------------------------------------------
(* The GitHub gateway's gate *)

Gates == [active : Int, running : [Tasks -> Nat], waiting : Seq(Tasks)]

(* Calls wait only while the gate has been entered. *)
GateOk(g) == g \in Gates /\ (g.waiting # <<>> => g.active > 0)

(* Whoever holds or awaits a slot at g still does at h. *)
Stays(g, h, T) == \A u \in T : ~Away(g, u) => ~Away(h, u)

(* The limit is positive, whatever was throttled. *)
LEMMA LimitIsPositive == ASSUME NEW b PROVE Limit(b) \in Nat /\ Limit(b) > 0
BY GatewayAssumption DEF GatewayAssumption, Limit

(* Entering leaves everybody at the gate and adds the caller. *)
LEMMA EnterIsSafe ==
  ASSUME NEW g, GateOk(g), NEW b, NEW t \in Tasks, NEW n \in Nat \ {0}
  PROVE  /\ GateOk(Enter(g, b, t, n)) /\ ~Away(Enter(g, b, t, n), t)
         /\ Stays(g, Enter(g, b, t, n), Tasks)
<1>. DEFINE lim == Limit(b)
            go == Least(n, Most(0, lim - g.active))
            more == [i \in 1 .. n - go |-> t]
            h == Enter(g, b, t, n)
<1>1. lim \in Nat /\ lim > 0
  BY LimitIsPositive
<1>2. g.active \in Int /\ g.running \in [Tasks -> Nat] /\ g.waiting \in Seq(Tasks)
  BY DEF GateOk, Gates
<1>. HIDE DEF lim
<1>3. /\ go \in Nat /\ go <= n
      /\ go < n => g.active + go >= lim
  BY <1>1, <1>2 DEF Least, Most
<1>4. h = [active |-> g.active + go, running |-> [g.running EXCEPT ![t] = @ + go],
           waiting |-> g.waiting \o more]
  BY DEF Enter, lim
<1>. HIDE DEF go, h
<1>5. more \in Seq(Tasks) /\ Len(more) = n - go
  BY <1>3
<1>6. \A i \in 1 .. Len(more) : more[i] = t
  BY <1>3
<1>. HIDE DEF more
<1>7. /\ h.active = g.active + go
      /\ h.running = [g.running EXCEPT ![t] = @ + go]
      /\ h.waiting = g.waiting \o more
      /\ h.active \in Int /\ h.running \in [Tasks -> Nat] /\ h.waiting \in Seq(Tasks)
      /\ Len(h.waiting) = Len(g.waiting) + Len(more)
  <2>1. /\ h.active = g.active + go
        /\ h.running = [g.running EXCEPT ![t] = @ + go]
        /\ h.waiting = g.waiting \o more
    BY <1>4
  <2>2. g.active + go \in Int /\ [g.running EXCEPT ![t] = @ + go] \in [Tasks -> Nat]
    BY <1>2, <1>3
  <2>. DEFINE w == g.waiting
  <2>3. w \in Seq(Tasks) /\ more \in Seq(Tasks)
    BY <1>2, <1>5
  <2>. HIDE DEF w
  <2>4. w \o more \in Seq(Tasks) /\ Len(w \o more) = Len(w) + Len(more)
    BY <2>3
  <2>. QED BY <2>1, <2>2, <2>4 DEF w
<1>8. h \in Gates
  BY <1>4, <1>7 DEF Gates
<1>9. \A i \in 1 .. Len(g.waiting) : i \in 1 .. Len(h.waiting) /\ h.waiting[i] = g.waiting[i]
  BY <1>2, <1>5, <1>7
<1>10. Stays(g, h, Tasks)
  <2>. SUFFICES ASSUME NEW u \in Tasks, ~Away(g, u) PROVE ~Away(h, u)
    BY DEF Stays
  <2>1. CASE g.running[u] # 0
    <3>1. h.running[u] = g.running[u] \/ h.running[u] = g.running[u] + go
      BY <1>2, <1>7
    <3>2. g.running[u] \in Nat
      BY <1>2
    <3>. QED BY <1>3, <2>1, <3>1, <3>2 DEF Away
  <2>2. CASE \E i \in 1 .. Len(g.waiting) : g.waiting[i] = u
    BY <1>9, <2>2 DEF Away
  <2>. QED BY <2>1, <2>2 DEF Away
<1>11. ~Away(h, t)
  <2>1. CASE go = 0
    <3>1. 1 \in 1 .. Len(more)
      BY <1>3, <1>5, <2>1
    <3>2. h.waiting[Len(g.waiting) + 1] = more[1] /\ Len(g.waiting) + 1 \in 1 .. Len(h.waiting)
      BY <1>2, <1>5, <1>7, <3>1
    <3>. QED BY <1>6, <3>1, <3>2 DEF Away
  <2>2. CASE go # 0
    <3>1. h.running[t] = g.running[t] + go /\ g.running[t] \in Nat
      BY <1>2, <1>7
    <3>. QED BY <1>3, <2>2, <3>1 DEF Away
  <2>. QED BY <2>1, <2>2
<1>12. h.waiting # <<>> => h.active > 0
  <2>1. CASE go < n
    BY <1>1, <1>2, <1>3, <1>7, <2>1
  <2>2. CASE go = n
    <3>1. Len(more) = 0
      BY <1>5, <2>2
    <3>2. h.waiting # <<>> => g.waiting # <<>>
      BY <1>2, <1>5, <1>7, <3>1
    <3>. QED BY <1>2, <1>3, <1>7, <2>2, <3>2 DEF GateOk
  <2>. QED BY <1>3, <2>1, <2>2
<1>. QED BY <1>8, <1>10, <1>11, <1>12 DEF GateOk, h

(* Leaving wakes the first who wait; nobody else leaves the gate. *)
LEMMA LeaveIsSafe ==
  ASSUME NEW g, GateOk(g), NEW b, NEW t \in Tasks, g.running[t] > 0
  PROVE  /\ GateOk(Leave(g, b, t))
         /\ Stays(g, Leave(g, b, t), Tasks \ {t})
<1>. DEFINE lim == Limit(b)
            left == g.active - 1
            wake == Woken(g, lim - left)
            woken(u) == {i \in 1 .. wake : g.waiting[i] = u}
            base(u) == IF u = t THEN g.running[u] - 1 ELSE g.running[u]
            h == Leave(g, b, t)
<1>1. lim \in Nat /\ lim > 0
  BY LimitIsPositive
<1>2. g.active \in Int /\ g.running \in [Tasks -> Nat] /\ g.waiting \in Seq(Tasks)
  BY DEF GateOk, Gates
<1>3. Len(g.waiting) \in Nat
  BY <1>2
<1>4. h = [active |-> left + wake,
           running |-> [u \in Tasks |-> base(u) + Cardinality(woken(u))],
           waiting |-> SubSeq(g.waiting, wake + 1, Len(g.waiting))]
  BY DEF Leave
<1>. HIDE DEF lim, h
<1>5. /\ wake \in Nat /\ wake <= Len(g.waiting)
      /\ wake < Len(g.waiting) => left + wake > 0
  BY <1>1, <1>2, <1>3 DEF Woken, Least, Most
<1>. HIDE DEF wake
<1>6. \A u \in Tasks : IsFiniteSet(woken(u)) /\ Cardinality(woken(u)) \in Nat
                         /\ (woken(u) # {} => Cardinality(woken(u)) > 0)
  <2>1. IsFiniteSet(1 .. wake)
    BY <1>5, FS_Interval
  <2>. SUFFICES ASSUME NEW u \in Tasks
                PROVE  IsFiniteSet(woken(u)) /\ Cardinality(woken(u)) \in Nat
                         /\ (woken(u) # {} => Cardinality(woken(u)) > 0)
    OBVIOUS
  <2>2. woken(u) \subseteq 1 .. wake
    OBVIOUS
  <2>. DEFINE W == woken(u)
  <2>. HIDE DEF W
  <2>3. IsFiniteSet(W)
    BY <2>1, <2>2, FS_Subset DEF W
  <2>4. Cardinality(W) \in Nat /\ (Cardinality(W) = 0 <=> W = {})
    BY <2>3, FS_CardinalityType, FS_EmptySet
  <2>. QED BY <2>3, <2>4 DEF W
<1>. HIDE DEF woken
<1>7. \A u \in Tasks : base(u) \in Nat
  BY <1>2
<1>8. /\ h.active = left + wake
      /\ h.running = [u \in Tasks |-> base(u) + Cardinality(woken(u))]
      /\ h.waiting = SubSeq(g.waiting, wake + 1, Len(g.waiting))
  BY <1>4
<1>9. h.running \in [Tasks -> Nat]
  BY <1>6, <1>7, <1>8
<1>. HIDE DEF base
<1>10. /\ h.waiting \in Seq(Tasks) /\ Len(h.waiting) = Len(g.waiting) - wake
       /\ \A i \in 1 .. Len(h.waiting) : h.waiting[i] = g.waiting[i + wake]
  BY <1>2, <1>3, <1>5, <1>8
<1>11. h \in Gates
  BY <1>2, <1>4, <1>5, <1>8, <1>9, <1>10 DEF Gates
<1>12. h.waiting # <<>> => h.active > 0
  BY <1>2, <1>3, <1>5, <1>8, <1>10
<1>13. ASSUME NEW u \in Tasks \ {t}, ~Away(g, u) PROVE ~Away(h, u)
  <2>1. h.running[u] = base(u) + Cardinality(woken(u)) /\ base(u) = g.running[u]
    BY <1>8 DEF base
  <2>2. g.running[u] \in Nat /\ Cardinality(woken(u)) \in Nat
    BY <1>2, <1>6
  <2>3. CASE g.running[u] # 0
    BY <2>1, <2>2, <2>3 DEF Away
  <2>4. CASE \E i \in 1 .. Len(g.waiting) : g.waiting[i] = u
    <3>1. PICK i \in 1 .. Len(g.waiting) : g.waiting[i] = u
      BY <2>4
    <3>2. CASE i <= wake
      <4>1. i \in woken(u)
        BY <1>3, <1>5, <3>1, <3>2 DEF woken
      <4>2. Cardinality(woken(u)) > 0
        BY <1>6, <4>1
      <4>. QED BY <2>1, <2>2, <4>2 DEF Away
    <3>3. CASE i > wake
      <4>1. i - wake \in 1 .. Len(h.waiting) /\ (i - wake) + wake = i
        BY <1>3, <1>5, <1>10, <3>1, <3>3
      <4>2. h.waiting[i - wake] = u
        BY <1>10, <3>1, <4>1
      <4>. QED BY <4>1, <4>2 DEF Away
    <3>. QED BY <1>5, <1>3, <3>2, <3>3
  <2>. QED BY <1>13, <2>3, <2>4 DEF Away
<1>. QED BY <1>11, <1>12, <1>13 DEF GateOk, Stays, h

-----------------------------------------------------------------------------
(* The GitHub gateway's lookups *)

Reading == {"main", "rest", "detail", "refresh", "threads", "threads refresh"}
Promises == [pc : {"free", "slug"} \cup Reading, kind : Kinds, interactive : BOOLEAN,
             gen : Nat, deep : BOOLEAN, seen : Nat, low : Nat]
Asks == [pc : {"idle", "due", "git", "waiting", "answered"}, on : Lookups \cup {None}, floor : Nat, got : Int]

(* A lookup reads GitHub no earlier than the last mutation that was reported *)
(* before it read, unless its generation is over; and it is at the gate.     *)
LookupInv(l) ==
  /\ lookup[l].gen <= gen[lookup[l].kind]
  /\ lookup[l].pc \in Reading =>
       /\ lookup[l].seen <= lookup[l].low /\ lookup[l].low <= remote
       /\ lookup[l].gen = gen[lookup[l].kind] => acked <= lookup[l].seen
       /\ ~Away(gate, l)

(* Who waits for a lookup asked before it read. *)
AskInv(a) ==
  /\ ask[a].floor <= acked
  /\ ask[a].on # None <=> ask[a].pc = "waiting"
  /\ ask[a].pc = "waiting" =>
       /\ lookup[ask[a].on].pc # "free"
       /\ lookup[ask[a].on].pc # "slug" => ask[a].floor <= lookup[ask[a].on].seen
  /\ ask[a].pc = "answered" /\ ask[a].got # Unknown => ask[a].got >= ask[a].floor

(* A promise that may be joined is of the current generation. *)
JoinInv(key) ==
  inflight[key] # None =>
    /\ lookup[inflight[key]].pc # "free"
    /\ lookup[inflight[key]].kind = key[1] /\ lookup[inflight[key]].gen = gen[key[1]]

GithubTypes ==
  /\ remote \in Nat /\ acked \in 0 .. remote
  /\ gen \in [Kinds -> Nat] /\ cache \in [Kinds -> Int]
  /\ inflight \in [Kinds \X BOOLEAN -> Lookups \cup {None}]
  /\ lookup \in [Lookups -> Promises]
  /\ ask \in [Askers -> Asks]

GithubInv ==
  /\ GithubTypes /\ GateOk(gate) /\ NoStaleCache
  /\ \A l \in Lookups : LookupInv(l)
  /\ \A a \in Askers : AskInv(a)
  /\ \A key \in Kinds \X BOOLEAN : JoinInv(key)

(* A lookup is a task at the gate, and no other task. *)
LEMMA LookupsAreTasks ==
  /\ \A l \in Lookups : l \in Tasks /\ l \notin {"none", "mutation", "periodic"}
  /\ "mutation" \in Tasks /\ "periodic" \in Tasks
BY TasksAssumption DEF TasksAssumption, Tasks

(* What the invariant is for. *)
LEMMA GithubInvIsSafe == GithubInv => GatewaySafety
<1>. SUFFICES ASSUME GithubInv PROVE GatewaySafety
  OBVIOUS
<1>1. FreshAnswers
  BY DEF GithubInv, AskInv, FreshAnswers
<1>2. ASSUME NEW a \in Askers, ask[a].pc = "waiting"
      PROVE  \/ lookup[ask[a].on].pc = "slug"
             \/ lookup[ask[a].on].pc # "free" /\ ~Away(gate, ask[a].on)
  <2>1. ask[a].on \in Lookups /\ lookup[ask[a].on].pc # "free"
    BY <1>2 DEF GithubInv, GithubTypes, AskInv, Asks
  <2>2. lookup[ask[a].on].pc \in {"free", "slug"} \cup Reading
    BY <2>1 DEF GithubInv, GithubTypes, Promises
  <2>. QED BY <2>1, <2>2 DEF GithubInv, LookupInv
<1>. QED BY <1>1, <1>2 DEF GithubInv, GateOk, GatewaySafety, NobodyWaitsForNothing

(* A step of the gate by task t: all others stay. *)
GateStep(t) == GateOk(gate') /\ Stays(gate, gate', Tasks \ {t})

(* An asker that waits for nothing, and was told nothing stale. *)
Quiet(r) ==
  /\ r \in Asks /\ r.on = None /\ r.pc # "waiting" /\ r.floor <= acked
  /\ r.pc = "answered" /\ r.got # Unknown => r.got >= r.floor

(* A step that leaves lookups and promises alone. *)
LEMMA OutsideKept ==
  ASSUME GithubInv, NEW t \in Tasks \ Lookups, GateStep(t),
         UNCHANGED <<acked, gen, inflight, lookup>>,
         remote' \in Nat, remote <= remote',
         cache' \in [Kinds -> Int], \A k \in Kinds : cache'[k] \in {cache[k], Absent},
         ask' \in [Askers -> Asks], \A a \in Askers : ask'[a] = ask[a] \/ Quiet(ask'[a])
  PROVE  GithubInv'
<1>1. \A l \in Lookups : ~Away(gate, l) => ~Away(gate', l)
  BY LookupsAreTasks DEF GateStep, Stays
<1>2. ASSUME NEW l \in Lookups PROVE LookupInv(l)'
  <2>1. LookupInv(l) /\ lookup[l] \in Promises
    BY DEF GithubInv, GithubTypes
  <2>2. lookup[l].low \in Nat /\ remote \in Nat
    BY <2>1 DEF GithubInv, GithubTypes, Promises
  <2>. QED BY <1>1, <2>1, <2>2 DEF LookupInv
<1>3. \A a \in Askers : AskInv(a)'
  BY DEF GithubInv, AskInv, Quiet
<1>4. \A key \in Kinds \X BOOLEAN : JoinInv(key)'
  BY DEF GithubInv, JoinInv
<1>5. NoStaleCache'
  BY DEF GithubInv, GithubTypes, NoStaleCache, Absent
<1>6. GithubTypes'
  BY DEF GithubInv, GithubTypes
<1>. QED BY <1>2, <1>3, <1>4, <1>5, <1>6 DEF GithubInv, GateStep

(* A lookup ends, with nothing definite or with what it read. *)
LEMMA SettleKept ==
  ASSUME GithubInv, NEW l \in Lookups, lookup[l].pc \in Reading, GateStep(l),
         NEW v \in Int, v = Unknown \/ lookup[l].seen <= v,
         Settle(l, v), UNCHANGED <<remote, acked, gen>>
  PROVE  GithubInv'
<1>1. lookup[l] \in Promises /\ LookupInv(l) /\ l # None
  BY LookupsAreTasks DEF GithubInv, GithubTypes, None
<1>2. /\ lookup' = [lookup EXCEPT ![l] = Free]
      /\ inflight' = [key \in DOMAIN inflight |-> IF inflight[key] = l THEN None ELSE inflight[key]]
      /\ ask' = [a \in Askers |-> IF ask[a].on # l THEN ask[a]
                              ELSE [ask[a] EXCEPT !.pc = "answered", !.on = None, !.got = v]]
      /\ cache' = CacheAfter(l, v)
  BY DEF Settle
<1>3. Free \in Promises /\ Free.pc = "free" /\ Free.gen = 0
  BY DEF Free, Promises, Kinds
<1>. HIDE DEF Free
<1>4. /\ lookup' \in [Lookups -> Promises] /\ lookup'[l] = Free
      /\ \A m \in Lookups \ {l} : lookup'[m] = lookup[m]
  BY <1>2, <1>3 DEF GithubInv, GithubTypes
<1>5. /\ inflight' \in [Kinds \X BOOLEAN -> Lookups \cup {None}]
      /\ \A key \in Kinds \X BOOLEAN : inflight'[key] # None =>
           inflight'[key] = inflight[key] /\ inflight[key] # l
  BY <1>2 DEF GithubInv, GithubTypes
<1>6. ASSUME NEW a \in Askers
      PROVE  /\ ask'[a] \in Asks /\ ask'[a].floor = ask[a].floor
             /\ ask[a].on # l => ask'[a] = ask[a]
             /\ ask[a].on = l => ask'[a].pc = "answered" /\ ask'[a].on = None /\ ask'[a].got = v
  <2>1. ask[a] \in Asks
    BY DEF GithubInv, GithubTypes
  <2>2. ask'[a] = IF ask[a].on # l THEN ask[a]
                  ELSE [ask[a] EXCEPT !.pc = "answered", !.on = None, !.got = v]
    BY <1>2
  <2>3. CASE ask[a].on # l
    BY <2>1, <2>2, <2>3
  <2>4. CASE ask[a].on = l
    <3>. DEFINE r == [ask[a] EXCEPT !.pc = "answered", !.on = None, !.got = v]
    <3>1. ask'[a] = r
      BY <2>2, <2>4
    <3>2. r \in Asks /\ r.floor = ask[a].floor /\ r.pc = "answered" /\ r.on = None /\ r.got = v
      BY <2>1 DEF Asks
    <3>. HIDE DEF r
    <3>. QED BY <2>4, <3>1, <3>2
  <2>. QED BY <2>3, <2>4
<1>7. ask' \in [Askers -> Asks]
  BY <1>2, <1>6
<1>8. /\ cache' \in [Kinds -> Int]
      /\ \A k \in Kinds : cache'[k] = cache[k] \/ (cache'[k] = v /\ lookup[l].kind = k
                             /\ v # Unknown /\ lookup[l].gen = gen[k])
  BY <1>1, <1>2 DEF CacheAfter, GithubInv, GithubTypes, Promises
<1>9. NoStaleCache'
  <2>. SUFFICES ASSUME NEW k \in Kinds, cache'[k] # Absent PROVE cache'[k] >= acked
    BY DEF NoStaleCache
  <2>1. CASE cache'[k] = cache[k]
    BY <2>1 DEF GithubInv, NoStaleCache
  <2>2. CASE cache'[k] # cache[k]
    <3>1. cache'[k] = v /\ lookup[l].kind = k /\ v # Unknown /\ lookup[l].gen = gen[k]
      BY <1>8, <2>2
    <3>2. acked <= lookup[l].seen /\ lookup[l].seen <= v
      BY <1>1, <3>1 DEF LookupInv
    <3>3. lookup[l].seen \in Nat /\ acked \in Nat
      BY <1>1 DEF Promises, GithubInv, GithubTypes
    <3>. QED BY <3>1, <3>2, <3>3
  <2>. QED BY <2>1, <2>2
<1>10. ASSUME NEW m \in Lookups PROVE LookupInv(m)'
  <2>1. CASE m = l
    <3>1. Free.pc \notin Reading /\ Free.kind \in Kinds
      BY <1>3 DEF Reading, Promises
    <3>2. gen[Free.kind] \in Nat
      BY <3>1 DEF GithubInv, GithubTypes
    <3>. QED BY <1>3, <1>4, <2>1, <3>1, <3>2 DEF LookupInv
  <2>2. CASE m # l
    <3>1. ~Away(gate, m) => ~Away(gate', m)
      BY <2>2, LookupsAreTasks DEF GateStep, Stays
    <3>2. LookupInv(m) /\ lookup'[m] = lookup[m]
      BY <1>4, <2>2 DEF GithubInv
    <3>. QED BY <3>1, <3>2 DEF LookupInv
  <2>. QED BY <2>1, <2>2
<1>11. ASSUME NEW a \in Askers PROVE AskInv(a)'
  <2>0. AskInv(a) /\ ask[a] \in Asks
    BY DEF GithubInv, GithubTypes
  <2>1. CASE ask[a].on = l
    <3>1. ask[a].floor <= lookup[l].seen /\ ask[a].floor <= acked
      BY <1>1, <2>0, <2>1 DEF AskInv, Reading
    <3>2. ask[a].floor \in Nat /\ lookup[l].seen \in Nat
      BY <1>1, <2>0 DEF Asks, Promises
    <3>3. v # Unknown => v >= ask[a].floor
      BY <3>1, <3>2
    <3>. QED BY <1>6, <2>1, <3>1, <3>3 DEF AskInv
  <2>2. CASE ask[a].on # l
    <3>1. ask'[a] = ask[a]
      BY <1>6, <2>2
    <3>2. ask[a].pc = "waiting" => lookup'[ask[a].on] = lookup[ask[a].on]
      BY <1>4, <2>0, <2>2 DEF AskInv, Asks
    <3>. QED BY <2>0, <3>1, <3>2 DEF AskInv
  <2>. QED BY <2>1, <2>2
<1>12. ASSUME NEW key \in Kinds \X BOOLEAN PROVE JoinInv(key)'
  <2>1. SUFFICES ASSUME inflight'[key] # None
                 PROVE  /\ lookup'[inflight'[key]].pc # "free"
                        /\ lookup'[inflight'[key]].kind = key[1]
                        /\ lookup'[inflight'[key]].gen = gen'[key[1]]
    BY DEF JoinInv
  <2>2. inflight'[key] = inflight[key] /\ inflight[key] # l /\ inflight[key] \in Lookups
    BY <1>5, <2>1
  <2>3. lookup'[inflight'[key]] = lookup[inflight[key]]
    BY <1>4, <2>2
  <2>. QED BY <2>1, <2>2, <2>3 DEF GithubInv, JoinInv
<1>13. GithubTypes'
  BY <1>4, <1>5, <1>7, <1>8 DEF GithubInv, GithubTypes
<1>. QED BY <1>9, <1>10, <1>11, <1>12, <1>13 DEF GithubInv, GateStep

(* A lookup goes on, still at the gate, with what it read kept. *)
LEMMA ContinuesKept ==
  ASSUME GithubInv, NEW l \in Lookups, lookup[l].pc \in Reading, GateStep(l), ~Away(gate', l),
         NEW rec \in Promises, rec.pc \in Reading, rec.kind = lookup[l].kind, rec.gen = lookup[l].gen,
         rec.seen = lookup[l].seen, rec.seen <= rec.low, rec.low <= remote,
         Continues(l, rec), UNCHANGED <<remote, acked, gen>>
  PROVE  GithubInv'
<1>1. lookup[l] \in Promises /\ LookupInv(l)
  BY DEF GithubInv, GithubTypes
<1>2. /\ lookup' \in [Lookups -> Promises] /\ lookup'[l] = rec
      /\ \A m \in Lookups \ {l} : lookup'[m] = lookup[m]
      /\ UNCHANGED <<cache, inflight, ask>>
  BY DEF Continues, GithubInv, GithubTypes
<1>3. ASSUME NEW m \in Lookups PROVE LookupInv(m)'
  <2>1. CASE m = l
    BY <1>1, <1>2, <2>1 DEF LookupInv
  <2>2. CASE m # l
    <3>1. ~Away(gate, m) => ~Away(gate', m)
      BY <2>2, LookupsAreTasks DEF GateStep, Stays
    <3>2. LookupInv(m) /\ lookup'[m] = lookup[m]
      BY <1>2, <2>2 DEF GithubInv
    <3>. QED BY <3>1, <3>2 DEF LookupInv
  <2>. QED BY <2>1, <2>2
<1>4. \A m \in Lookups : /\ lookup'[m].kind = lookup[m].kind /\ lookup'[m].gen = lookup[m].gen
                         /\ lookup'[m].seen = lookup[m].seen
                         /\ lookup'[m].pc = "free" <=> lookup[m].pc = "free"
                         /\ lookup'[m].pc = "slug" <=> lookup[m].pc = "slug"
  BY <1>2 DEF Reading
<1>5. ASSUME NEW a \in Askers PROVE AskInv(a)'
  <2>0. AskInv(a) /\ ask[a] \in Asks
    BY DEF GithubInv, GithubTypes
  <2>1. ask[a].pc = "waiting" => ask[a].on \in Lookups
    BY <2>0 DEF AskInv, Asks
  <2>. QED BY <1>2, <1>4, <2>0, <2>1 DEF AskInv
<1>6. ASSUME NEW key \in Kinds \X BOOLEAN PROVE JoinInv(key)'
  <2>1. inflight[key] \in Lookups \cup {None} /\ JoinInv(key)
    BY DEF GithubInv, GithubTypes
  <2>. QED BY <1>2, <1>4, <2>1 DEF JoinInv
<1>7. GithubTypes' /\ NoStaleCache'
  BY <1>2 DEF GithubInv, GithubTypes, NoStaleCache
<1>. QED BY <1>3, <1>5, <1>6, <1>7 DEF GithubInv, GateStep

(* A lookup that was free, or waited for its slug, is under way: unless git *)
(* is still asked for the slug, it reads from now on.                       *)
Began(l, kind) ==
  \E r \in Promises :
    /\ lookup' = [lookup EXCEPT ![l] = r]
    /\ r.kind = kind /\ r.gen = gen[kind] /\ r.pc \in {"slug"} \cup Reading
    /\ r.pc # "slug" => r.seen = remote /\ r.low = remote /\ ~Away(gate', l)
    /\ GateOk(gate') /\ Stays(gate, gate', Tasks)

(* The call that reads GitHub is paid, and its lookup is at the gate. *)
LEMMA MainCallBegins ==
  ASSUME GithubInv, NEW l \in Lookups, NEW rec \in Promises, NEW bucket,
         MainCall(l, rec, bucket, gate)
  PROVE  \E r \in Promises :
           /\ lookup' = [lookup EXCEPT ![l] = r]
           /\ r.kind = rec.kind /\ r.gen = rec.gen /\ r.pc \in Reading
           /\ r.seen = remote /\ r.low = remote /\ ~Away(gate', l)
           /\ GateOk(gate') /\ Stays(gate, gate', Tasks)
<1>. DEFINE b == Spent(bud, Plan(rec.kind)[bucket])
            r == [rec EXCEPT !.pc = IF bucket = "core" THEN "rest" ELSE "main",
                             !.seen = remote, !.low = remote]
<1>1. gate' = Enter(gate, b, l, 1) /\ lookup' = [lookup EXCEPT ![l] = r]
  BY DEF MainCall
<1>. HIDE DEF b
<1>2. /\ GateOk(gate') /\ Stays(gate, gate', Tasks) /\ ~Away(gate', l)
  BY <1>1, EnterIsSafe, LookupsAreTasks DEF GithubInv
<1>3. remote \in Nat
  BY DEF GithubInv, GithubTypes
<1>4. /\ r \in Promises /\ r.kind = rec.kind /\ r.gen = rec.gen /\ r.pc \in Reading
      /\ r.seen = remote /\ r.low = remote
  BY <1>3 DEF Promises, Reading
<1>. HIDE DEF r
<1>. QED BY <1>1, <1>2, <1>4

(* The synchronous part of a lookup registers it. *)
LEMMA BeginBegins ==
  ASSUME GithubInv, NEW l \in Lookups, NEW kind \in Kinds, NEW interactive \in BOOLEAN,
         Begin(l, kind, interactive)
  PROVE  Began(l, kind)
<1>. DEFINE rec == [Free EXCEPT !.kind = kind, !.interactive = interactive,
                                !.gen = gen[kind], !.deep = IncludeUnresolved(bud)]
<1>1. gen[kind] \in Nat /\ IncludeUnresolved(bud) \in BOOLEAN
  BY DEF GithubInv, GithubTypes, IncludeUnresolved
<1>2. rec \in Promises /\ rec.kind = kind /\ rec.gen = gen[kind]
  BY <1>1 DEF Free, Promises, Kinds
<1>3. \E imminent \in BOOLEAN :
       LET bucket == Route(Plan(kind), bud, routed[kind], imminent)
       IN IF bucket = "core" /\ slug = "unresolved"
          THEN /\ lookup' = [lookup EXCEPT ![l] = [rec EXCEPT !.pc = "slug"]]
               /\ UNCHANGED <<bud, routed, gate>> /\ Silent
          ELSE MainCall(l, rec, IF slug = "github" THEN bucket ELSE "graphql", gate)
  BY DEF Begin
<1>. HIDE DEF rec
<1>4. PICK imminent \in BOOLEAN :
       LET bucket == Route(Plan(kind), bud, routed[kind], imminent)
       IN IF bucket = "core" /\ slug = "unresolved"
          THEN /\ lookup' = [lookup EXCEPT ![l] = [rec EXCEPT !.pc = "slug"]]
               /\ UNCHANGED <<bud, routed, gate>> /\ Silent
          ELSE MainCall(l, rec, IF slug = "github" THEN bucket ELSE "graphql", gate)
  BY <1>3
<1>. DEFINE bucket == Route(Plan(kind), bud, routed[kind], imminent)
            paid == IF slug = "github" THEN bucket ELSE "graphql"
<1>5. CASE bucket = "core" /\ slug = "unresolved"
  <2>1. lookup' = [lookup EXCEPT ![l] = [rec EXCEPT !.pc = "slug"]] /\ gate' = gate
    BY <1>4, <1>5
  <2>. DEFINE r == [rec EXCEPT !.pc = "slug"]
  <2>2. r \in Promises /\ r.kind = kind /\ r.gen = gen[kind] /\ r.pc = "slug"
    BY <1>2 DEF Promises
  <2>3. lookup' = [lookup EXCEPT ![l] = r]
    BY <2>1
  <2>. HIDE DEF r
  <2>4. GateOk(gate') /\ Stays(gate, gate', Tasks)
    BY <2>1 DEF GithubInv, Stays
  <2>. QED BY <2>2, <2>3, <2>4 DEF Began
<1>6. CASE ~(bucket = "core" /\ slug = "unresolved")
  <2>1. MainCall(l, rec, paid, gate)
    BY <1>4, <1>6
  <2>. HIDE DEF paid
  <2>. QED BY <1>2, <2>1, MainCallBegins DEF Began
<1>. QED BY <1>5, <1>6

(* Everybody else's part when a lookup begins that was not out. *)
LEMMA BeganKept ==
  ASSUME GithubInv, NEW l \in Lookups, NEW kind \in Kinds, Began(l, kind),
         UNCHANGED <<remote, acked, gen>>
  PROVE  /\ \A m \in Lookups : LookupInv(m)'
         /\ lookup' \in [Lookups -> Promises] /\ GateOk(gate')
         /\ \A m \in Lookups \ {l} : lookup'[m] = lookup[m]
         /\ lookup'[l].pc # "free" /\ lookup'[l].kind = kind /\ lookup'[l].gen = gen[kind]
         /\ lookup'[l].pc # "slug" => lookup'[l].seen = remote
<1>1. PICK r \in Promises :
        /\ lookup' = [lookup EXCEPT ![l] = r]
        /\ r.kind = kind /\ r.gen = gen[kind] /\ r.pc \in {"slug"} \cup Reading
        /\ r.pc # "slug" => r.seen = remote /\ r.low = remote /\ ~Away(gate', l)
        /\ GateOk(gate') /\ Stays(gate, gate', Tasks)
  BY DEF Began
<1>2. /\ lookup' \in [Lookups -> Promises] /\ lookup'[l] = r
      /\ \A m \in Lookups \ {l} : lookup'[m] = lookup[m]
  BY <1>1 DEF GithubInv, GithubTypes
<1>3. /\ remote \in Nat /\ acked \in Nat /\ acked <= remote /\ gen[kind] \in Nat
  BY DEF GithubInv, GithubTypes
<1>4. ASSUME NEW m \in Lookups PROVE LookupInv(m)'
  <2>1. CASE m = l
    <3>1. lookup'[m] = r /\ UNCHANGED <<remote, acked, gen>>
      BY <1>2, <2>1
    <3>2. r.gen <= gen[r.kind] /\ r.gen = gen[r.kind]
      BY <1>1, <1>3
    <3>3. ASSUME r.pc \in Reading PROVE r.seen = remote /\ r.low = remote /\ ~Away(gate', m)
      BY <1>1, <2>1, <3>3 DEF Reading
    <3>4. r.pc \in Reading => r.seen <= r.low /\ r.low <= remote /\ acked <= r.seen
      BY <1>3, <3>3
    <3>. QED BY <3>1, <3>2, <3>3, <3>4 DEF LookupInv
  <2>2. CASE m # l
    <3>1. ~Away(gate, m) => ~Away(gate', m)
      BY <1>1, LookupsAreTasks DEF Stays
    <3>2. LookupInv(m) /\ lookup'[m] = lookup[m]
      BY <1>2, <2>2 DEF GithubInv
    <3>. QED BY <3>1, <3>2 DEF LookupInv
  <2>. QED BY <2>1, <2>2
<1>. QED BY <1>1, <1>2, <1>4 DEF Reading

(* The slug is known and the lookup reads. *)
LEMMA ResolveSlugKept ==
  ASSUME GithubInv, NEW l \in Lookups, ResolveSlug(l)
  PROVE  GithubInv'
<1>1. /\ lookup[l].pc = "slug" /\ UNCHANGED <<remote, acked, gen, cache, inflight, ask>>
      /\ MainCall(l, lookup[l], IF slug' = "github" THEN "core" ELSE "graphql", gate)
  BY DEF ResolveSlug
<1>2. lookup[l] \in Promises /\ LookupInv(l)
  BY DEF GithubInv, GithubTypes
<1>3. PICK r \in Promises :
           /\ lookup' = [lookup EXCEPT ![l] = r]
           /\ r.kind = lookup[l].kind /\ r.gen = lookup[l].gen /\ r.pc \in Reading
           /\ r.seen = remote /\ r.low = remote /\ ~Away(gate', l)
           /\ GateOk(gate') /\ Stays(gate, gate', Tasks)
  BY <1>1, <1>2, MainCallBegins
<1>4. /\ lookup' \in [Lookups -> Promises] /\ lookup'[l] = r
      /\ \A m \in Lookups \ {l} : lookup'[m] = lookup[m]
  BY <1>3 DEF GithubInv, GithubTypes
<1>5. /\ remote \in Nat /\ acked \in Nat /\ acked <= remote
  BY DEF GithubInv, GithubTypes
<1>6. ASSUME NEW m \in Lookups PROVE LookupInv(m)'
  <2>1. CASE m = l
    BY <1>1, <1>2, <1>3, <1>4, <1>5, <2>1 DEF LookupInv
  <2>2. CASE m # l
    <3>1. ~Away(gate, m) => ~Away(gate', m)
      BY <1>3, LookupsAreTasks DEF Stays
    <3>2. LookupInv(m) /\ lookup'[m] = lookup[m]
      BY <1>4, <2>2 DEF GithubInv
    <3>. QED BY <1>1, <3>1, <3>2 DEF LookupInv
  <2>. QED BY <2>1, <2>2
<1>7. ASSUME NEW a \in Askers PROVE AskInv(a)'
  <2>1. AskInv(a) /\ ask[a] \in Asks
    BY DEF GithubInv, GithubTypes
  <2>2. CASE ask[a].on = l
    <3>1. ask[a].floor <= acked /\ ask[a].floor \in Nat
      BY <2>1 DEF AskInv, Asks
    <3>2. lookup'[l].pc # "free" /\ ask[a].floor <= lookup'[l].seen
      <4>1. lookup'[l] = r /\ r.seen = remote /\ r.pc # "free"
        BY <1>3, <1>4 DEF Reading
      <4>2. ask[a].floor <= remote
        BY <1>5, <3>1
      <4>. QED BY <4>1, <4>2
    <3>. QED BY <1>1, <2>1, <2>2, <3>2 DEF AskInv
  <2>3. CASE ask[a].on # l
    <3>1. ask[a].pc = "waiting" => lookup'[ask[a].on] = lookup[ask[a].on]
      BY <1>4, <2>1, <2>3 DEF AskInv, Asks
    <3>. QED BY <1>1, <2>1, <3>1 DEF AskInv
  <2>. QED BY <2>2, <2>3
<1>8. ASSUME NEW key \in Kinds \X BOOLEAN PROVE JoinInv(key)'
  <2>1. JoinInv(key) /\ inflight[key] \in Lookups \cup {None}
    BY DEF GithubInv, GithubTypes
  <2>2. CASE inflight[key] = l
    BY <1>1, <1>3, <1>4, <2>1, <2>2, LookupsAreTasks DEF JoinInv, Reading, None
  <2>3. CASE inflight[key] # l
    BY <1>1, <1>4, <2>1, <2>3 DEF JoinInv
  <2>. QED BY <2>2, <2>3
<1>9. GithubTypes' /\ NoStaleCache'
  BY <1>1, <1>4 DEF GithubInv, GithubTypes, NoStaleCache
<1>. QED BY <1>3, <1>6, <1>7, <1>8, <1>9 DEF GithubInv

(* An answer that is given at once. *)
LEMMA AnsweredIsQuiet ==
  ASSUME GithubInv, NEW v \in Int, v = Unknown \/ v >= acked
  PROVE  Quiet(Answered(v))
BY DEF GithubInv, GithubTypes, Quiet, Answered, Asks

(* Every way to ask: the cache, a promise that is joined, the policy's refusal, a new lookup. *)
LEMMA AskKept ==
  ASSUME GithubInv, NEW a \in Askers, NEW kind \in Kinds, NEW interactive \in BOOLEAN,
         Ask(a, kind, interactive), UNCHANGED <<remote, acked, gen, cache>>
  PROVE  GithubInv'
<1>. DEFINE key == <<kind, interactive>>
<1>0. key \in Kinds \X BOOLEAN /\ key[1] = kind
  OBVIOUS
<1>1. acked \in Nat /\ remote \in Nat /\ cache[kind] \in Int /\ ask \in [Askers -> Asks] /\ acked <= remote
  BY DEF GithubInv, GithubTypes
<1>2. ASSUME NEW v \in Int, v = Unknown \/ v >= acked,
             ask' = [ask EXCEPT ![a] = Answered(v)], UNCHANGED <<gate, lookup, inflight>>
      PROVE  GithubInv'
  <2>1. Quiet(Answered(v))
    BY <1>2, AnsweredIsQuiet
  <2>2. /\ ask' \in [Askers -> Asks] /\ \A c \in Askers : ask'[c] = ask[c] \/ Quiet(ask'[c])
    BY <1>1, <1>2, <2>1 DEF Quiet
  <2>3. GateStep("periodic")
    BY <1>2 DEF GithubInv, GateStep, Stays
  <2>4. /\ cache' \in [Kinds -> Int] /\ \A k \in Kinds : cache'[k] \in {cache[k], Absent}
        /\ remote' \in Nat /\ remote <= remote'
    BY <1>1 DEF GithubInv, GithubTypes
  <2>5. "periodic" \in Tasks \ Lookups
    BY LookupsAreTasks
  <2>. QED BY <1>2, <2>2, <2>3, <2>4, <2>5, OutsideKept
<1>3. ASSUME NEW m \in Lookups, ask' = [ask EXCEPT ![a] = Waiting(a, m)],
             lookup'[m].pc # "free", lookup'[m].pc # "slug" => acked <= lookup'[m].seen,
             \A n \in Lookups : lookup[n].pc # "free" => lookup'[n] = lookup[n]
      PROVE  ask' \in [Askers -> Asks] /\ \A c \in Askers : AskInv(c)'
  <2>1. /\ Waiting(a, m) \in Asks /\ Waiting(a, m).pc = "waiting" /\ Waiting(a, m).on = m
        /\ Waiting(a, m).floor = acked
    BY <1>1 DEF Waiting, Asks, Unknown
  <2>2. ask' \in [Askers -> Asks]
    BY <1>1, <1>3, <2>1
  <2>3. ASSUME NEW c \in Askers PROVE AskInv(c)'
    <3>1. CASE c = a
      <4>1. ask'[c] = Waiting(a, m)
        BY <1>1, <1>3, <3>1
      <4>. QED BY <1>1, <1>3, <2>1, <4>1, LookupsAreTasks DEF AskInv, None
    <3>2. CASE c # a
      <4>1. ask'[c] = ask[c] /\ AskInv(c) /\ ask[c] \in Asks
        BY <1>1, <1>3, <3>2 DEF GithubInv
      <4>. QED BY <1>3, <4>1 DEF AskInv, Asks
    <3>. QED BY <3>1, <3>2
  <2>. QED BY <2>2, <2>3
<1>. HIDE DEF key
<1>4. CASE cache[kind] # Absent /\ ask' = [ask EXCEPT ![a] = Answered(cache[kind])]
           /\ UNCHANGED <<gate, lookup, inflight>>
  <2>1. cache[kind] >= acked
    BY <1>4 DEF GithubInv, NoStaleCache
  <2>. QED BY <1>1, <1>2, <1>4, <2>1
<1>5. CASE ask' = [ask EXCEPT ![a] = Answered(Unknown)] /\ UNCHANGED <<gate, lookup, inflight>>
  <2>1. Unknown \in Int
    BY DEF Unknown
  <2>. QED BY <1>2, <1>5, <2>1
<1>6. CASE inflight[key] # None /\ ask' = [ask EXCEPT ![a] = Waiting(a, inflight[key])]
           /\ UNCHANGED <<gate, lookup, inflight>>
  <2>1. inflight[key] \in Lookups /\ JoinInv(key)
    BY <1>0, <1>6 DEF GithubInv, GithubTypes
  <2>. DEFINE m == inflight[key]
  <2>2. /\ lookup[m].pc # "free" /\ lookup[m].gen = gen[lookup[m].kind] /\ lookup[m] \in Promises
        /\ LookupInv(m)
    BY <1>6, <2>1 DEF JoinInv, GithubInv, GithubTypes
  <2>3. lookup[m].pc # "slug" => acked <= lookup[m].seen
    BY <2>2 DEF LookupInv, Promises
  <2>4. ask' \in [Askers -> Asks] /\ \A c \in Askers : AskInv(c)'
    BY <1>3, <1>6, <2>1, <2>2, <2>3
  <2>5. \A l \in Lookups : LookupInv(l)'
    BY <1>6 DEF GithubInv, LookupInv
  <2>6. \A k \in Kinds \X BOOLEAN : JoinInv(k)'
    BY <1>6 DEF GithubInv, JoinInv
  <2>7. GithubTypes' /\ NoStaleCache' /\ GateOk(gate')
    BY <1>6, <2>4 DEF GithubInv, GithubTypes, NoStaleCache
  <2>. QED BY <2>4, <2>5, <2>6, <2>7 DEF GithubInv
<1>7. CASE inflight[key] = None /\ \E l \in {x \in Lookups : lookup[x].pc = "free"} :
             /\ inflight' = [inflight EXCEPT ![key] = l]
             /\ ask' = [ask EXCEPT ![a] = Waiting(a, l)]
             /\ Begin(l, kind, interactive)
  <2>1. PICK l \in Lookups :
             /\ lookup[l].pc = "free"
             /\ inflight' = [inflight EXCEPT ![key] = l]
             /\ ask' = [ask EXCEPT ![a] = Waiting(a, l)]
             /\ Begin(l, kind, interactive)
    BY <1>7
  <2>2. Began(l, kind)
    BY <2>1, BeginBegins
  <2>3. /\ \A m \in Lookups : LookupInv(m)'
        /\ lookup' \in [Lookups -> Promises] /\ GateOk(gate')
        /\ \A m \in Lookups \ {l} : lookup'[m] = lookup[m]
        /\ lookup'[l].pc # "free" /\ lookup'[l].kind = kind /\ lookup'[l].gen = gen[kind]
        /\ lookup'[l].pc # "slug" => lookup'[l].seen = remote
    BY <2>2, BeganKept
  <2>4. \A n \in Lookups : lookup[n].pc # "free" => lookup'[n] = lookup[n]
    BY <2>1, <2>3
  <2>5. ask' \in [Askers -> Asks] /\ \A c \in Askers : AskInv(c)'
    BY <1>1, <1>3, <2>1, <2>3, <2>4
  <2>6. inflight' \in [Kinds \X BOOLEAN -> Lookups \cup {None}]
    BY <1>0, <2>1 DEF GithubInv, GithubTypes
  <2>7. ASSUME NEW k \in Kinds \X BOOLEAN PROVE JoinInv(k)'
    <3>1. JoinInv(k) /\ inflight[k] \in Lookups \cup {None}
      BY DEF GithubInv, GithubTypes
    <3>2. CASE k = key
      <4>1. inflight'[k] = l
        BY <1>0, <2>1, <3>2 DEF GithubInv, GithubTypes
      <4>. QED BY <1>0, <2>3, <3>2, <4>1 DEF JoinInv
    <3>3. CASE k # key
      <4>1. inflight'[k] = inflight[k]
        BY <1>0, <2>1, <3>3 DEF GithubInv, GithubTypes
      <4>. QED BY <2>4, <3>1, <4>1 DEF JoinInv
    <3>. QED BY <3>2, <3>3
  <2>8. GithubTypes' /\ NoStaleCache'
    BY <2>3, <2>5, <2>6 DEF GithubInv, GithubTypes, NoStaleCache
  <2>. QED BY <2>3, <2>5, <2>7, <2>8 DEF GithubInv
<1>. QED BY <1>4, <1>5, <1>6, <1>7 DEF Ask, key

(* A task that is at the gate leaves it, and may come back. *)
LEMMA LeavesTheGate ==
  ASSUME GithubInv, NEW t \in Tasks, Holds(t)
  PROVE  /\ GateOk(Leave(gate, bud, t)) /\ Stays(gate, Leave(gate, bud, t), Tasks \ {t})
BY LeaveIsSafe DEF GithubInv, Holds

(* It enters once more before it is done, so that it never seems away. *)
LEMMA ComesBack ==
  ASSUME GithubInv, NEW t \in Tasks, Holds(t), NEW b, NEW n \in Nat \ {0},
         gate' = Enter(Leave(gate, bud, t), b, t, n)
  PROVE  GateStep(t) /\ ~Away(gate', t)
<1>. DEFINE g == Leave(gate, bud, t)
<1>1. GateOk(g) /\ Stays(gate, g, Tasks \ {t})
  BY LeavesTheGate
<1>2. gate' = Enter(g, b, t, n)
  OBVIOUS
<1>. HIDE DEF g
<1>3. GateOk(gate') /\ ~Away(gate', t) /\ Stays(g, gate', Tasks)
  BY <1>1, <1>2, EnterIsSafe
<1>. QED BY <1>1, <1>3 DEF GateStep, Stays

(* A task enters the gate. *)
LEMMA EntersTheGate ==
  ASSUME GithubInv, NEW t \in Tasks, NEW b, NEW n \in Nat \ {0}, gate' = Enter(gate, b, t, n)
  PROVE  GateStep(t)
<1>1. GateOk(gate') /\ Stays(gate, gate', Tasks)
  BY EnterIsSafe DEF GithubInv
<1>. QED BY <1>1 DEF GateStep, Stays

(* What is known of one lookup. *)
LEMMA LookupFacts ==
  ASSUME GithubInv, NEW l \in Lookups
  PROVE  /\ lookup[l] \in Promises /\ LookupInv(l) /\ l \in Tasks
         /\ lookup[l].pc \in Reading =>
              /\ lookup[l].seen \in Nat /\ lookup[l].low \in Nat
              /\ lookup[l].seen <= lookup[l].low /\ lookup[l].low <= remote /\ remote \in Nat
BY LookupsAreTasks DEF GithubInv, GithubTypes, LookupInv, Promises

(* A lookup goes on with a later piece of its answer. *)
Onward(l, pc, v) == [lookup[l] EXCEPT !.pc = pc, !.low = v]

LEMMA ReadsOn ==
  ASSUME GithubInv, NEW l \in Lookups, lookup[l].pc \in Reading, NEW pc \in Reading,
         GateStep(l), ~Away(gate', l), UNCHANGED <<remote, acked, gen>>,
         NEW v \in lookup[l].seen .. remote, Continues(l, Onward(l, pc, v))
  PROVE  GithubInv'
<1>. DEFINE r == Onward(l, pc, v)
<1>1. lookup[l] \in Promises /\ lookup[l].seen \in Nat /\ remote \in Nat
  BY LookupFacts
<1>2. v \in Nat /\ lookup[l].seen <= v /\ v <= remote
  BY <1>1
<1>3. /\ r \in Promises /\ r.pc = pc /\ r.kind = lookup[l].kind /\ r.gen = lookup[l].gen
      /\ r.seen = lookup[l].seen /\ r.low = v
  BY <1>1, <1>2 DEF Onward, Promises, Reading
<1>4. Continues(l, r)
  OBVIOUS
<1>. HIDE DEF r
<1>. QED BY <1>2, <1>3, <1>4, ContinuesKept

(* A lookup goes on without a new piece. *)
LEMMA WaitsOn ==
  ASSUME GithubInv, NEW l \in Lookups, lookup[l].pc \in Reading, NEW pc \in Reading,
         GateStep(l), ~Away(gate', l), UNCHANGED <<remote, acked, gen>>,
         Continues(l, [lookup[l] EXCEPT !.pc = pc])
  PROVE  GithubInv'
<1>. DEFINE r == [lookup[l] EXCEPT !.pc = pc]
<1>1. /\ lookup[l] \in Promises
      /\ lookup[l].seen <= lookup[l].low /\ lookup[l].low <= remote
  BY LookupFacts
<1>2. /\ r \in Promises /\ r.pc = pc /\ r.kind = lookup[l].kind /\ r.gen = lookup[l].gen
      /\ r.seen = lookup[l].seen /\ r.low = lookup[l].low
  BY <1>1 DEF Promises, Reading
<1>3. Continues(l, r)
  OBVIOUS
<1>. HIDE DEF r
<1>. QED BY <1>1, <1>2, <1>3, ContinuesKept

(* A lookup that leaves the gate ends. *)
LEMMA EndsKept ==
  ASSUME GithubInv, NEW l \in Lookups, lookup[l].pc \in Reading, Holds(l),
         gate' = Leave(gate, bud, l), UNCHANGED <<remote, acked, gen>>,
         \/ Settle(l, Unknown) \/ Settle(l, lookup[l].low) \/ \E v \in Read(l) : Settle(l, v)
  PROVE  GithubInv'
<1>1. /\ lookup[l].seen \in Nat /\ lookup[l].low \in Nat /\ lookup[l].seen <= lookup[l].low
      /\ remote \in Nat /\ l \in Tasks /\ Unknown \in Int
  BY LookupFacts DEF Unknown
<1>2. GateStep(l)
  BY <1>1, LeavesTheGate DEF GateStep
<1>3. CASE Settle(l, Unknown)
  BY <1>1, <1>2, <1>3, SettleKept
<1>4. CASE Settle(l, lookup[l].low)
  BY <1>1, <1>2, <1>4, SettleKept
<1>5. CASE \E v \in Read(l) : Settle(l, v)
  <2>1. PICK v \in lookup[l].seen .. remote : Settle(l, v)
    BY <1>5 DEF Read
  <2>2. v \in Int /\ lookup[l].seen <= v
    BY <1>1
  <2>. QED BY <1>2, <2>1, <2>2, SettleKept
<1>. QED BY <1>3, <1>4, <1>5

(* A failure is followed by a refresh behind the same gate. *)
LEMMA FailureComesBack ==
  ASSUME GithubInv, NEW t \in Tasks, Holds(t), NEW kind, HandleFailure(kind, t, Leave(gate, bud, t))
  PROVE  GateStep(t) /\ ~Away(gate', t)
<1>1. PICK b : gate' = Enter(Leave(gate, bud, t), b, t, 1)
  BY DEF HandleFailure
<1>. QED BY <1>1, ComesBack

(* Each step of a lookup. *)
LEMMA LookupStepKept ==
  ASSUME GithubInv, NEW l \in Lookups, LookupStep(l)
  PROVE  GithubInv'
<1>0. l \in Tasks /\ {"main", "rest", "detail", "refresh", "threads", "threads refresh"} = Reading
  BY LookupFacts DEF Reading
<1>1. CASE ResolveSlug(l)
  BY <1>1, ResolveSlugKept
<1>2. CASE MainFails(l)
  <2>1. lookup[l].pc \in Reading /\ Holds(l) /\ UNCHANGED <<remote, acked, gen>>
    BY <1>2 DEF MainFails, Reading
  <2>2. CASE Settle(l, Unknown) /\ gate' = Leave(gate, bud, l)
    BY <2>1, <2>2, EndsKept
  <2>3. CASE \E kind \in Throttled :
                /\ HandleFailure(kind, l, Leave(gate, bud, l))
                /\ Continues(l, [lookup[l] EXCEPT !.pc = "refresh"])
    <3>1. GateStep(l) /\ ~Away(gate', l)
      BY <1>0, <2>1, <2>3, FailureComesBack
    <3>2. "refresh" \in Reading
      BY DEF Reading
    <3>. QED BY <2>1, <2>3, <3>1, <3>2, WaitsOn
  <2>. QED BY <1>2, <2>2, <2>3 DEF MainFails
<1>3. CASE DetailReturns(l)
  <2>1. /\ lookup[l].pc \in Reading /\ Holds(l) /\ gate' = Leave(gate, bud, l) /\ ~Away(gate', l)
        /\ UNCHANGED <<remote, acked, gen, cache, inflight, lookup, ask>>
    BY <1>3 DEF DetailReturns, Reading
  <2>2. GateStep(l)
    BY <1>0, <2>1, LeavesTheGate DEF GateStep
  <2>3. lookup \in [Lookups -> Promises]
    BY DEF GithubInv, GithubTypes
  <2>4. lookup' = [lookup EXCEPT ![l] = lookup[l]]
    BY <2>1, <2>3
  <2>5. Continues(l, lookup[l])
    BY <2>1, <2>4 DEF Continues
  <2>6. /\ lookup[l] \in Promises
        /\ lookup[l].seen <= lookup[l].low /\ lookup[l].low <= remote
    BY <2>1, LookupFacts
  <2>. QED BY <2>1, <2>2, <2>5, <2>6, ContinuesKept
<1>4. CASE RestListed(l)
  <2>1. /\ lookup[l].pc \in Reading /\ Holds(l) /\ gate' = Enter(Leave(gate, bud, l), bud, l, 3)
        /\ \E v \in Read(l) : Continues(l, Onward(l, "detail", v))
        /\ UNCHANGED <<remote, acked, gen>>
    BY <1>4 DEF RestListed, Reading, Onward
  <2>2. GateStep(l) /\ ~Away(gate', l)
    <3>1. 3 \in Nat \ {0} /\ gate' = Enter(Leave(gate, bud, l), bud, l, 3)
      BY <2>1
    <3>. QED BY <1>0, <2>1, <3>1, ComesBack
  <2>3. "detail" \in Reading
    BY DEF Reading
  <2>. QED BY <2>1, <2>2, <2>3, ReadsOn DEF Read
<1>5. CASE MainReturns(l)
  <2>1. lookup[l].pc \in Reading /\ Holds(l) /\ UNCHANGED <<remote, acked, gen>>
    BY <1>5 DEF MainReturns, Reading
  <2>2. CASE Settle(l, lookup[l].low) /\ gate' = Leave(gate, bud, l)
    BY <2>1, <2>2, EndsKept
  <2>3. CASE (\E v \in Read(l) : Settle(l, v)) /\ gate' = Leave(gate, bud, l)
    BY <2>1, <2>3, EndsKept
  <2>4. CASE /\ gate' = Enter(Leave(gate, bud, l), bud, l, 1)
             /\ \E v \in Read(l) : Continues(l, Onward(l, "threads", v))
    <3>0. 1 \in Nat \ {0} /\ gate' = Enter(Leave(gate, bud, l), bud, l, 1)
      BY <2>4
    <3>1. GateStep(l) /\ ~Away(gate', l)
      BY <1>0, <2>1, <3>0, ComesBack
    <3>2. "threads" \in Reading
      BY DEF Reading
    <3>. QED BY <2>1, <2>4, <3>1, <3>2, ReadsOn DEF Read
  <2>. QED BY <1>5, <2>2, <2>3, <2>4 DEF MainReturns, Onward
<1>6. CASE ThreadsReturn(l)
  <2>1. lookup[l].pc \in Reading /\ Holds(l) /\ UNCHANGED <<remote, acked, gen>>
    BY <1>6 DEF ThreadsReturn, Reading
  <2>2. CASE Settle(l, lookup[l].low) /\ gate' = Leave(gate, bud, l)
    BY <2>1, <2>2, EndsKept
  <2>3. CASE \E kind \in Throttled :
                /\ HandleFailure(kind, l, Leave(gate, bud, l))
                /\ Continues(l, [lookup[l] EXCEPT !.pc = "threads refresh"])
    <3>1. GateStep(l) /\ ~Away(gate', l)
      BY <1>0, <2>1, <2>3, FailureComesBack
    <3>2. "threads refresh" \in Reading
      BY DEF Reading
    <3>. QED BY <2>1, <2>3, <3>1, <3>2, WaitsOn
  <2>. QED BY <1>6, <2>2, <2>3 DEF ThreadsReturn
<1>7. CASE LookupRefreshed(l)
  <2>1. /\ lookup[l].pc \in Reading /\ Holds(l) /\ UNCHANGED <<remote, acked, gen>>
        /\ gate' = Leave(gate, bud, l)
        /\ Settle(l, IF lookup[l].pc = "refresh" THEN Unknown ELSE lookup[l].low)
    BY <1>7 DEF LookupRefreshed, Refreshed, Reading
  <2>2. Settle(l, Unknown) \/ Settle(l, lookup[l].low)
    BY <2>1
  <2>. QED BY <2>1, <2>2, EndsKept
<1>. QED BY <1>1, <1>2, <1>3, <1>4, <1>5, <1>6, <1>7 DEF LookupStep

(* The rests of an asker that is about to ask or done. *)
LEMMA RestIsQuiet ==
  ASSUME GithubInv
  PROVE  /\ Quiet(Idle) /\ Quiet([Idle EXCEPT !.pc = "due"]) /\ Quiet(InGit)
BY DEF GithubInv, GithubTypes, Quiet, Idle, InGit, Asks, Unknown, None

(* What is known of the askers. *)
LEMMA AskerFacts ==
  ASSUME GithubInv
  PROVE  /\ ask \in [Askers -> Asks] /\ cache \in [Kinds -> Int] /\ remote \in Nat
         /\ \A k \in Kinds : cache[k] \in {cache[k], Absent}
         /\ "mutator" \in Askers /\ Pollers \subseteq Askers /\ Snapshots \subseteq Askers /\ Users \subseteq Askers
         /\ GateOk(gate) /\ Absent \in Int
         /\ "periodic" \in Tasks \ Lookups /\ "mutation" \in Tasks \ Lookups
BY LookupsAreTasks DEF GithubInv, GithubTypes, Askers, Absent

(* One or two askers rest, nothing else of the gateway changes. *)
LEMMA AskersKept ==
  ASSUME GithubInv, UNCHANGED <<remote, acked, gen, cache, inflight, lookup, gate>>,
         ask' \in [Askers -> Asks], \A a \in Askers : ask'[a] = ask[a] \/ Quiet(ask'[a])
  PROVE  GithubInv'
<1>1. GateStep("periodic")
  BY AskerFacts DEF GateStep, Stays
<1>. QED BY <1>1, AskerFacts, OutsideKept

(* The refresh, the clock and the user's pause. *)
LEMMA ClockKept ==
  ASSUME GithubInv, RefreshDue \/ RefreshReturns \/ TimePasses \/ SetPaused
  PROVE  GithubInv'
<1>0. "periodic" \in Tasks \ Lookups
  BY AskerFacts
<1>1. CASE RefreshDue
  <2>1. /\ UNCHANGED <<remote, acked, gen, cache, inflight, lookup, ask>>
        /\ gate' = Enter(gate, bud, "periodic", 1)
    BY <1>1 DEF RefreshDue
  <2>2. GateStep("periodic")
    BY <1>0, <2>1, EntersTheGate
  <2>. QED BY <1>0, <2>1, <2>2, AskerFacts, OutsideKept
<1>2. CASE RefreshReturns
  <2>1. /\ UNCHANGED <<remote, acked, gen, cache, inflight, lookup, ask>>
        /\ gate' = Leave(gate, bud, "periodic") /\ Holds("periodic")
    BY <1>2 DEF RefreshReturns, Refreshed
  <2>2. GateStep("periodic")
    BY <1>0, <2>1, LeavesTheGate DEF GateStep
  <2>. QED BY <1>0, <2>1, <2>2, AskerFacts, OutsideKept
<1>3. CASE TimePasses
  <2>1. /\ UNCHANGED <<remote, acked, gen, inflight, lookup, ask, gate>>
        /\ \E gone \in SUBSET Kinds : cache' = [k \in Kinds |-> IF k \in gone THEN Absent ELSE cache[k]]
    BY <1>3 DEF TimePasses
  <2>2. cache' \in [Kinds -> Int] /\ \A k \in Kinds : cache'[k] \in {cache[k], Absent}
    BY <2>1, AskerFacts
  <2>3. GateStep("periodic")
    BY <2>1, AskerFacts DEF GateStep, Stays
  <2>. QED BY <1>0, <2>1, <2>2, <2>3, AskerFacts, OutsideKept
<1>4. CASE SetPaused
  <2>1. UNCHANGED <<remote, acked, gen, cache, inflight, lookup, gate, ask>>
    BY <1>4 DEF SetPaused
  <2>. QED BY <2>1, AskerFacts, AskersKept
<1>. QED BY <1>1, <1>2, <1>3, <1>4

(* Each step of a mutation; a success starts a new generation. *)
LEMMA MutationKept ==
  ASSUME GithubInv, MutationStep
  PROVE  GithubInv'
<1>0. "mutation" \in Tasks \ Lookups /\ "mutator" \in Askers /\ Quiet(Idle) /\ ask \in [Askers -> Asks]
  BY AskerFacts, RestIsQuiet
<1>1. CASE MutatePr
  <2>1. /\ UNCHANGED <<remote, acked, gen, cache, inflight, lookup>>
        /\ ask' = [ask EXCEPT !["mutator"] = Idle]
        /\ gate' = gate \/ gate' = Enter(gate, bud, "mutation", 1)
    BY <1>1 DEF MutatePr
  <2>2. GateStep("mutation")
    <3>1. CASE gate' = gate
      BY <3>1, AskerFacts DEF GateStep, Stays
    <3>2. CASE gate' = Enter(gate, bud, "mutation", 1)
      BY <1>0, <3>2, EntersTheGate
    <3>. QED BY <2>1, <3>1, <3>2
  <2>3. ask' \in [Askers -> Asks] /\ \A a \in Askers : ask'[a] = ask[a] \/ Quiet(ask'[a])
    BY <1>0, <2>1 DEF Quiet
  <2>. QED BY <1>0, <2>1, <2>2, <2>3, AskerFacts, OutsideKept
<1>2. CASE MutationApplied
  <2>1. /\ UNCHANGED <<acked, gen, cache, inflight, lookup, gate, ask>> /\ remote' = remote + 1
    BY <1>2 DEF MutationApplied, gateway
  <2>2. GateStep("mutation")
    BY <2>1, AskerFacts DEF GateStep, Stays
  <2>3. remote' \in Nat /\ remote <= remote'
    BY <2>1, AskerFacts
  <2>. QED BY <1>0, <2>1, <2>2, <2>3, AskerFacts, OutsideKept
<1>3. CASE MutationSucceeds
  <2>1. /\ UNCHANGED <<remote, lookup, ask>> /\ acked' = remote
        /\ gate' = Leave(gate, bud, "mutation") /\ Holds("mutation")
        /\ gen' = [k \in Kinds |-> gen[k] + 1]
        /\ cache' = [k \in Kinds |-> Absent]
        /\ inflight' = [key \in DOMAIN inflight |-> None]
    BY <1>3 DEF MutationSucceeds, Invalidate
  <2>2. GateOk(gate') /\ \A l \in Lookups : ~Away(gate, l) => ~Away(gate', l)
    BY <1>0, <2>1, LeavesTheGate, LookupsAreTasks DEF Stays
  <2>3. GithubTypes'
    BY <2>1, AskerFacts DEF GithubInv, GithubTypes
  <2>4. NoStaleCache'
    BY <2>1 DEF NoStaleCache
  <2>5. \A key \in Kinds \X BOOLEAN : JoinInv(key)'
    BY <2>1 DEF JoinInv, GithubInv, GithubTypes
  <2>6. ASSUME NEW l \in Lookups PROVE LookupInv(l)'
    <3>1. LookupInv(l) /\ lookup[l] \in Promises
      BY DEF GithubInv, GithubTypes
    <3>2. /\ lookup[l].gen \in Nat /\ gen[lookup[l].kind] \in Nat
          /\ gen'[lookup[l].kind] = gen[lookup[l].kind] + 1
      BY <2>1, <3>1 DEF Promises, GithubInv, GithubTypes
    <3>3. lookup[l].gen < gen'[lookup[l].kind] /\ lookup[l].gen # gen'[lookup[l].kind]
      BY <3>1, <3>2 DEF LookupInv
    <3>. QED BY <2>1, <2>2, <3>1, <3>3, <3>2 DEF LookupInv
  <2>7. ASSUME NEW a \in Askers PROVE AskInv(a)'
    <3>1. AskInv(a) /\ ask[a] \in Asks
      BY DEF GithubInv, GithubTypes
    <3>2. ask[a].floor \in Nat /\ acked \in Nat /\ remote \in Nat /\ acked <= remote
      BY <3>1 DEF Asks, GithubInv, GithubTypes
    <3>3. ask[a].floor <= remote
      BY <3>1, <3>2 DEF AskInv
    <3>. QED BY <2>1, <3>1, <3>3 DEF AskInv
  <2>. QED BY <2>2, <2>3, <2>4, <2>5, <2>6, <2>7 DEF GithubInv
<1>4. CASE MutationFails
  <2>1. /\ UNCHANGED <<acked, gen, cache, inflight, lookup, ask>> /\ Holds("mutation")
        /\ remote' \in {remote, remote + 1}
    BY <1>4 DEF MutationFails
  <2>2. \/ gate' = Leave(gate, bud, "mutation")
        \/ \E kind \in Throttled : HandleFailure(kind, "mutation", Leave(gate, bud, "mutation"))
    BY <1>4 DEF MutationFails
  <2>3. GateStep("mutation")
    BY <1>0, <2>1, <2>2, LeavesTheGate, FailureComesBack DEF GateStep
  <2>4. remote' \in Nat /\ remote <= remote'
    BY <2>1, AskerFacts
  <2>. QED BY <1>0, <2>1, <2>3, <2>4, AskerFacts, OutsideKept
<1>5. CASE MutationRefreshed
  <2>1. /\ UNCHANGED <<remote, acked, gen, cache, inflight, lookup, ask>>
        /\ gate' = Leave(gate, bud, "mutation") /\ Holds("mutation")
    BY <1>5 DEF MutationRefreshed, Refreshed
  <2>2. GateStep("mutation")
    BY <1>0, <2>1, LeavesTheGate DEF GateStep
  <2>. QED BY <1>0, <2>1, <2>2, AskerFacts, OutsideKept
<1>. QED BY <1>1, <1>2, <1>3, <1>4, <1>5 DEF MutationStep

(* Each step of the poller. *)
LEMMA PollKept ==
  ASSUME GithubInv, NEW p \in Pollers, PollFires(p) \/ PollAsks(p) \/ PollReturns(p)
  PROVE  GithubInv'
<1>0. /\ p \in Askers /\ ask \in [Askers -> Asks] /\ Snapshots \subseteq Askers
      /\ Quiet(Idle) /\ Quiet([Idle EXCEPT !.pc = "due"]) /\ Quiet(InGit)
  BY AskerFacts, RestIsQuiet
<1>1. CASE PollFires(p)
  <2>1. /\ UNCHANGED <<remote, acked, gen, cache, inflight, lookup, gate>>
        /\ ask' = [ask EXCEPT ![p] = [Idle EXCEPT !.pc = "due"]]
    BY <1>1 DEF PollFires, gateway
  <2>. DEFINE due == [Idle EXCEPT !.pc = "due"]
  <2>2. Quiet(due) /\ ask' = [ask EXCEPT ![p] = due]
    BY <1>0, <2>1
  <2>. HIDE DEF due
  <2>3. ask' \in [Askers -> Asks] /\ \A a \in Askers : ask'[a] = ask[a] \/ Quiet(ask'[a])
    BY <1>0, <2>2 DEF Quiet
  <2>. QED BY <2>1, <2>3, AskersKept
<1>2. CASE PollAsks(p)
  <2>1. Ask(p, "pr", FALSE) /\ UNCHANGED <<remote, acked, gen, cache>>
    BY <1>2 DEF PollAsks
  <2>. QED BY <1>0, <2>1, AskKept DEF Kinds
<1>3. CASE PollReturns(p)
  <2>1. UNCHANGED <<remote, acked, gen, cache, inflight, lookup, gate>>
    BY <1>3 DEF PollReturns, gateway
  <2>2. \/ ask' = [ask EXCEPT ![p] = Idle]
        \/ \E s \in Snapshots : ask' = [ask EXCEPT ![p] = Idle, ![s] = InGit]
    BY <1>3 DEF PollReturns
  <2>3. ask' \in [Askers -> Asks] /\ \A a \in Askers : ask'[a] = ask[a] \/ Quiet(ask'[a])
    <3>1. CASE ask' = [ask EXCEPT ![p] = Idle]
      BY <1>0, <3>1 DEF Quiet
    <3>2. CASE \E s \in Snapshots : ask' = [ask EXCEPT ![p] = Idle, ![s] = InGit]
      <4>1. PICK s \in Snapshots : ask' = [ask EXCEPT ![p] = Idle, ![s] = InGit]
        BY <3>2
      <4>2. \A a \in Askers : ask'[a] \in {ask[a], Idle, InGit}
        BY <1>0, <4>1
      <4>3. Idle \in Asks /\ InGit \in Asks
        BY <1>0 DEF Quiet
      <4>. QED BY <1>0, <4>1, <4>2, <4>3
    <3>. QED BY <2>2, <3>1, <3>2
  <2>. QED BY <2>1, <2>3, AskersKept
<1>. QED BY <1>1, <1>2, <1>3

(* Each step of a broadcast. *)
LEMMA SnapshotKept ==
  ASSUME GithubInv, NEW s \in Snapshots, SnapshotAsked(s) \/ SnapshotListed(s) \/ SnapshotEnriched(s)
  PROVE  GithubInv'
<1>0. s \in Askers /\ ask \in [Askers -> Asks] /\ Quiet(Idle) /\ Quiet(InGit)
  BY AskerFacts, RestIsQuiet
<1>1. ASSUME ask' = [ask EXCEPT ![s] = Idle] \/ ask' = [ask EXCEPT ![s] = InGit],
             UNCHANGED <<remote, acked, gen, cache, inflight, lookup, gate>>
      PROVE  GithubInv'
  <2>1. ask' \in [Askers -> Asks] /\ \A a \in Askers : ask'[a] = ask[a] \/ Quiet(ask'[a])
    BY <1>0, <1>1 DEF Quiet
  <2>. QED BY <1>1, <2>1, AskersKept
<1>2. CASE SnapshotAsked(s)
  BY <1>1, <1>2 DEF SnapshotAsked, gateway
<1>3. CASE SnapshotListed(s)
  <2>1. UNCHANGED <<remote, acked, gen, cache>>
    BY <1>3 DEF SnapshotListed
  <2>2. CASE current = s
    <3>1. Ask(s, "pr", FALSE)
      BY <1>3, <2>2 DEF SnapshotListed
    <3>. QED BY <1>0, <2>1, <3>1, AskKept DEF Kinds
  <2>3. CASE current # s
    BY <1>1, <1>3, <2>1, <2>3 DEF SnapshotListed
  <2>. QED BY <2>2, <2>3
<1>4. CASE SnapshotEnriched(s)
  BY <1>1, <1>4 DEF SnapshotEnriched, gateway
<1>. QED BY <1>2, <1>3, <1>4

(* Every step keeps the invariant. *)
LEMMA GithubKept == GithubInv /\ [PartsNext]_allVars => GithubInv'
<1>. SUFFICES ASSUME GithubInv, [PartsNext]_allVars PROVE GithubInv'
  OBVIOUS
<1>1. CASE UNCHANGED vars
  BY <1>1, AskerFacts, AskersKept DEF vars, gateway
<1>2. CASE Next
  <2>1. ASSUME NEW u \in Users, UserAsks(u) PROVE GithubInv'
    BY <2>1, AskKept, AskerFacts DEF UserAsks, Kinds
  <2>2. CASE MutationAsked
    BY <2>2, AskKept, AskerFacts DEF MutationAsked, Kinds
  <2>. QED BY <1>2, <2>1, <2>2, LookupStepKept, ClockKept, MutationKept, PollKept, SnapshotKept DEF Next
<1>. QED BY <1>1, <1>2 DEF PartsNext, allVars

(* The gateway tells nobody anything older than the last mutation reported  *)
(* before they asked, keeps nothing stale, and leaves nobody waiting for a  *)
(* lookup that is gone, for any limits and any number of lookups and askers *)
(* (github/gateway.ts).                                                     *)
THEOREM GatewayIsAlwaysSafe == PartsSpec => []GatewaySafety
<1>1. PartsInit => GithubInv
  <2>. SUFFICES ASSUME PartsInit PROVE GithubInv
    OBVIOUS
  <2>1. Init
    BY DEF PartsInit
  <2>2. Free \in Promises /\ Free.pc = "free" /\ Free.gen = 0 /\ Free.kind \in Kinds
    BY DEF Free, Promises, Kinds
  <2>3. Idle \in Asks /\ Idle.pc = "idle" /\ Idle.on = None /\ Idle.floor = 0
    BY DEF Idle, Asks, Unknown
  <2>4. GateOk(gate)
    BY <2>1 DEF Init, GateOk, Gates
  <2>. HIDE DEF Free, Idle
  <2>5. GithubTypes /\ NoStaleCache
    BY <2>1, <2>2, <2>3 DEF Init, GithubTypes, NoStaleCache, Absent
  <2>6. /\ \A l \in Lookups : LookupInv(l)
        /\ \A a \in Askers : AskInv(a)
        /\ \A key \in Kinds \X BOOLEAN : JoinInv(key)
    <3>1. /\ \A l \in Lookups : lookup[l] = Free
          /\ \A a \in Askers : ask[a] = Idle
          /\ \A key \in Kinds \X BOOLEAN : inflight[key] = None
          /\ \A k \in Kinds : gen[k] = 0
          /\ acked = 0
      BY <2>1 DEF Init
    <3>2. "free" \notin Reading
      BY DEF Reading
    <3>3. \A l \in Lookups : LookupInv(l)
      BY <2>2, <3>1, <3>2 DEF LookupInv
    <3>4. \A a \in Askers : AskInv(a)
      BY <2>3, <3>1 DEF AskInv
    <3>5. \A key \in Kinds \X BOOLEAN : JoinInv(key)
      BY <3>1 DEF JoinInv
    <3>. QED BY <3>3, <3>4, <3>5
  <2>. QED BY <2>4, <2>5, <2>6 DEF GithubInv
<1>2. GithubInv /\ [PartsNext]_allVars => GithubInv'
  BY GithubKept
<1>. QED BY <1>1, <1>2, GithubInvIsSafe, PTL DEF PartsSpec, allVars

-----------------------------------------------------------------------------
(* The Forgejo gateway *)

(* The conjuncts about one caller. *)
CallerInv(c) ==
  /\ DOMAIN fjCaller[c] = {"pc", "kind", "on", "v", "floor"}
  /\ fjCaller[c].kind \in Fj!Kinds /\ fjCaller[c].floor \in 0 .. fjAcked /\ fjCaller[c].v \in Int
  /\ fjCaller[c].on # "none" =>
       /\ fjCaller[c].pc = "waiting" /\ fjCaller[c].on \in Requests
       /\ fjRequest[fjCaller[c].on] # Fj!NoRequest
       /\ fjRequest[fjCaller[c].on].kind = fjCaller[c].kind
  /\ fjCaller[c].pc = "checks" /\ fjCaller[c].v < fjAcked => fjOverlapped[fjCaller[c].kind]
  /\ fjCaller[c].pc = "checks" => fjCaller[c].kind = "pr"
  /\ /\ fjCaller[c].pc = "answered" /\ fjCaller[c].floor = fjAcked
     /\ fjCaller[c].v # Fj!Unknown /\ fjCaller[c].v < fjAcked
     => fjOverlapped[fjCaller[c].kind]

RequestInv(q) ==
  fjRequest[q] # Fj!NoRequest =>
    /\ fjRequest[q].kind \in Fj!Kinds /\ fjRequest[q].seen \in 0 .. fjRemote
    /\ fjRequest[q].seen < fjAcked => fjOverlapped[fjRequest[q].kind]
    /\ \E c \in Callers : fjCaller[c].on = q

(* Beside the property: a request is waited for by a caller that asks for   *)
(* what it reads, and what is still to be cached or told may be older than  *)
(* the last reported mutation only if it overlapped that mutation.          *)
GatewayInv ==
  /\ fjRemote \in Nat /\ fjAcked \in 0 .. fjRemote
  /\ fjMutation = "applied" => fjAcked < fjRemote
  /\ DOMAIN fjCache = Fj!Kinds /\ DOMAIN fjOverlapped = Fj!Kinds
  /\ fjInflight \in [Fj!Kinds -> Requests \cup {"none"}]
  /\ DOMAIN fjRequest = Requests /\ DOMAIN fjCaller = Callers
  /\ \A k \in Fj!Kinds : fjCache[k] \in Int
  /\ \A k \in Fj!Kinds : fjCache[k] # Fj!Absent /\ fjCache[k] < fjAcked => fjOverlapped[k]
  /\ \A q \in Requests : RequestInv(q)
  /\ \A k \in Fj!Kinds : fjInflight[k] # "none" =>
       fjRequest[fjInflight[k]] # Fj!NoRequest /\ fjRequest[fjInflight[k]].kind = k
  /\ \A c \in Callers : CallerInv(c)

LEMMA GatewayFacts ==
  ASSUME GatewayInv
  PROVE  /\ \A c \in Callers : CallerInv(c)
         /\ \A q \in Requests : RequestInv(q)
         /\ \A q \in Requests : q # "none"
BY NamesAssumption DEF NamesAssumption, GatewayInv

(* A caller that is answered, with what is known or nothing.                *)
LEMMA AnswerIsOneCaller ==
  ASSUME GatewayInv, NEW c \in Callers, NEW v
  PROVE  /\ DOMAIN Fj!Answer(c, v)[c] = {"pc", "kind", "on", "v", "floor"}
         /\ Fj!Answer(c, v)[c].pc = "answered" /\ Fj!Answer(c, v)[c].on = "none"
         /\ Fj!Answer(c, v)[c].v = v
         /\ Fj!Answer(c, v)[c].kind = fjCaller[c].kind /\ Fj!Answer(c, v)[c].floor = fjCaller[c].floor
BY DEF Fj!Answer, Fj!None, GatewayInv, CallerInv

LEMMA LookupKept ==
  ASSUME GatewayInv, NEW c \in Callers, NEW k \in Fj!Kinds, NEW interactive \in BOOLEAN,
         Fj!Lookup(c, k, interactive)
  PROVE  GatewayInv'
<1>. DEFINE asked == [Fj!Rest EXCEPT !.kind = k, !.floor = fjAcked]
<1>1. /\ DOMAIN asked = {"pc", "kind", "on", "v", "floor"}
      /\ asked.kind = k /\ asked.on = "none" /\ asked.v = -1 /\ asked.floor = fjAcked
  BY DEF Fj!Rest, Fj!None, Fj!Unknown
<1>. HIDE DEF asked
<1>2. /\ UNCHANGED <<fjRemote, fjAcked, fjCache, fjMutation, fjOverlapped>>
      /\ fjCaller[c].pc \in {"idle", "answered"}
  BY DEF Fj!Lookup
<1>3. fjCaller[c].on = "none"
  BY <1>2 DEF GatewayInv, CallerInv
<1>4. CASE /\ fjCaller' = [fjCaller EXCEPT ![c] =
                [asked EXCEPT !.pc = "answered",
                              !.v = IF fjCache[k] # Fj!Absent THEN fjCache[k] ELSE Fj!Unknown]]
           /\ UNCHANGED <<fjInflight, fjRequest>>
  <2>. DEFINE v == IF fjCache[k] # Fj!Absent THEN fjCache[k] ELSE Fj!Unknown
  <2>1. /\ DOMAIN fjCaller' = Callers /\ \A d \in Callers : d # c => fjCaller'[d] = fjCaller[d]
        /\ DOMAIN fjCaller'[c] = {"pc", "kind", "on", "v", "floor"}
        /\ fjCaller'[c].pc = "answered" /\ fjCaller'[c].kind = k /\ fjCaller'[c].on = "none"
        /\ fjCaller'[c].v = v /\ fjCaller'[c].floor = fjAcked
    BY <1>1, <1>4 DEF GatewayInv
  <2>2. v \in Int /\ (v # Fj!Unknown /\ v < fjAcked => fjOverlapped[k])
    BY DEF GatewayInv, Fj!Unknown
  <2>. HIDE DEF v
  <2>3. \A d \in Callers : CallerInv(d)'
    BY <1>2, <1>4, <2>1, <2>2 DEF GatewayInv, CallerInv
  <2>4. ASSUME NEW q \in Requests PROVE RequestInv(q)'
    BY <1>2, <1>3, <1>4, <2>1, GatewayFacts DEF RequestInv
  <2>. QED BY <1>2, <1>4, <2>1, <2>3, <2>4 DEF GatewayInv
<1>5. CASE \E q \in Requests :
             /\ IF fjInflight[k] # "none"
                THEN q = fjInflight[k] /\ UNCHANGED fjRequest
                ELSE fjRequest[q] = Fj!NoRequest /\ fjRequest' = [fjRequest EXCEPT ![q] = Fj!Out(k)]
             /\ fjInflight' = [fjInflight EXCEPT ![k] = q]
             /\ fjCaller' = [fjCaller EXCEPT ![c] = [asked EXCEPT !.pc = "waiting", !.on = q]]
  <2>1. PICK q \in Requests :
             /\ IF fjInflight[k] # "none"
                THEN q = fjInflight[k] /\ UNCHANGED fjRequest
                ELSE fjRequest[q] = Fj!NoRequest /\ fjRequest' = [fjRequest EXCEPT ![q] = Fj!Out(k)]
             /\ fjInflight' = [fjInflight EXCEPT ![k] = q]
             /\ fjCaller' = [fjCaller EXCEPT ![c] = [asked EXCEPT !.pc = "waiting", !.on = q]]
    BY <1>5
  <2>2. /\ DOMAIN fjCaller' = Callers /\ \A d \in Callers : d # c => fjCaller'[d] = fjCaller[d]
        /\ DOMAIN fjCaller'[c] = {"pc", "kind", "on", "v", "floor"}
        /\ fjCaller'[c].pc = "waiting" /\ fjCaller'[c].kind = k /\ fjCaller'[c].on = q
        /\ fjCaller'[c].v = -1 /\ fjCaller'[c].floor = fjAcked
    BY <1>1, <2>1 DEF GatewayInv
  <2>3. /\ DOMAIN fjRequest' = Requests
        /\ fjRequest'[q] # Fj!NoRequest /\ fjRequest'[q].kind = k /\ fjRequest'[q].seen \in 0 .. fjRemote
        /\ fjRequest'[q].seen < fjAcked => fjOverlapped[k]
        /\ \A r \in Requests : r # q => fjRequest'[r] = fjRequest[r]
        /\ \A r \in Requests : fjRequest[r] # Fj!NoRequest => fjRequest'[r] = fjRequest[r]
    <3>1. CASE fjInflight[k] # "none"
      BY <2>1, <3>1 DEF GatewayInv, RequestInv
    <3>2. CASE fjInflight[k] = "none"
      BY <2>1, <3>2 DEF GatewayInv, Fj!Out, Fj!NoRequest, Fj!None, Fj!Kinds
    <3>. QED BY <3>1, <3>2
  <2>4. ASSUME NEW d \in Callers PROVE CallerInv(d)'
    <3>1. CASE d = c
      <4>1. fjAcked \in 0 .. fjAcked
        BY DEF GatewayInv
      <4>. QED BY <1>2, <2>2, <2>3, <3>1, <4>1 DEF CallerInv
    <3>2. CASE d # c
      BY <1>2, <2>2, <2>3, <3>2, GatewayFacts DEF CallerInv
    <3>. QED BY <3>1, <3>2
  <2>5. ASSUME NEW r \in Requests PROVE RequestInv(r)'
    BY <1>2, <1>3, <2>2, <2>3, GatewayFacts DEF RequestInv
  <2>6. \A l \in Fj!Kinds : fjInflight'[l] # "none" =>
          fjRequest'[fjInflight'[l]] # Fj!NoRequest /\ fjRequest'[fjInflight'[l]].kind = l
    BY <2>1, <2>3 DEF GatewayInv
  <2>. QED BY <1>2, <2>1, <2>2, <2>3, <2>4, <2>5, <2>6 DEF GatewayInv
<1>. QED BY <1>4, <1>5 DEF Fj!Lookup, Fj!None, asked

LEMMA ListArrivesKept ==
  ASSUME GatewayInv, NEW q \in Requests, Fj!ListArrives(q)
  PROVE  GatewayInv'
<1>. DEFINE k == fjRequest[q].kind
<1>1. /\ fjRequest[q] # Fj!NoRequest /\ k \in Fj!Kinds /\ fjRequest[q].seen \in 0 .. fjRemote
      /\ fjRequest[q].seen < fjAcked => fjOverlapped[k]
      /\ UNCHANGED <<fjRemote, fjAcked, fjMutation, fjOverlapped>>
      /\ fjInflight' = [l \in Fj!Kinds |-> IF fjInflight[l] = q THEN "none" ELSE fjInflight[l]]
      /\ fjRequest' = [fjRequest EXCEPT ![q] = Fj!NoRequest]
  BY DEF Fj!ListArrives, GatewayInv, RequestInv, Fj!None
<1>. HIDE DEF k
<1>2. \A c \in Callers : fjCaller[c].on = q => fjCaller[c].kind = k
  <2>1. q # "none"
    BY NamesAssumption DEF NamesAssumption
  <2>2. \A c \in Callers : CallerInv(c)
    BY DEF GatewayInv
  <2>3. ASSUME NEW c \in Callers, fjCaller[c].on = q PROVE fjCaller[c].kind = k
    BY <2>1, <2>2, <2>3 DEF CallerInv, k
  <2>. QED BY <2>3
<1>3. ASSUME DOMAIN fjCaller' = Callers,
             \A c \in Callers : fjCaller[c].on # q => fjCaller'[c] = fjCaller[c],
             NEW v \in Int, v = Fj!Unknown \/ v >= fjRequest[q].seen,
             \A c \in Callers : fjCaller[c].on = q =>
               /\ DOMAIN fjCaller'[c] = DOMAIN fjCaller[c]
               /\ fjCaller'[c].kind = k /\ fjCaller'[c].floor = fjCaller[c].floor
               /\ fjCaller'[c].on = "none" /\ fjCaller'[c].v = v
               /\ \/ fjCaller'[c].pc = "answered"
                  \/ fjCaller'[c].pc = "checks" /\ k = "pr" /\ v # Fj!Unknown,
             \/ UNCHANGED fjCache
             \/ v # Fj!Unknown /\ fjCache' = [fjCache EXCEPT ![k] = v]
      PROVE  GatewayInv'
  <2>1. v # Fj!Unknown /\ v < fjAcked => fjOverlapped[k]
    BY <1>1, <1>3 DEF GatewayInv
  <2>2. ASSUME NEW c \in Callers PROVE CallerInv(c)'
    <3>1. CASE fjCaller[c].on = q
      BY <1>1, <1>3, <2>1, <3>1, GatewayFacts DEF CallerInv
    <3>2. CASE fjCaller[c].on # q
      <4>1. DOMAIN fjRequest = Requests
        BY DEF GatewayInv
      <4>. QED BY <1>1, <1>3, <3>2, <4>1, GatewayFacts DEF CallerInv
    <3>. QED BY <3>1, <3>2
  <2>3. \A r \in Requests : RequestInv(r)'
    BY <1>1, <1>3 DEF GatewayInv, RequestInv
  <2>4. /\ \A l \in Fj!Kinds : fjCache'[l] \in Int
        /\ \A l \in Fj!Kinds : fjCache'[l] # Fj!Absent /\ fjCache'[l] < fjAcked => fjOverlapped[l]
        /\ DOMAIN fjCache' = Fj!Kinds
    BY <1>1, <1>3, <2>1 DEF GatewayInv
  <2>5. /\ fjInflight' \in [Fj!Kinds -> Requests \cup {"none"}]
        /\ \A l \in Fj!Kinds : fjInflight'[l] # "none" =>
             fjRequest'[fjInflight'[l]] # Fj!NoRequest /\ fjRequest'[fjInflight'[l]].kind = l
    BY <1>1, NamesAssumption DEF NamesAssumption, GatewayInv
  <2>. QED BY <1>1, <1>3, <2>2, <2>3, <2>4, <2>5 DEF GatewayInv
<1>4. CASE fjCaller' = [c \in Callers |-> IF c \in Fj!Waiting(q) THEN Fj!Answer(c, Fj!Unknown)[c] ELSE fjCaller[c]]
           /\ UNCHANGED fjCache
  <2>1. \A c \in Callers :
          fjCaller'[c] = IF fjCaller[c].on = q THEN Fj!Answer(c, Fj!Unknown)[c] ELSE fjCaller[c]
    BY <1>4 DEF Fj!Waiting
  <2>2. ASSUME NEW c \in Callers, fjCaller[c].on = q
        PROVE  /\ DOMAIN fjCaller'[c] = DOMAIN fjCaller[c]
               /\ fjCaller'[c].kind = k /\ fjCaller'[c].floor = fjCaller[c].floor
               /\ fjCaller'[c].on = "none" /\ fjCaller'[c].v = Fj!Unknown /\ fjCaller'[c].pc = "answered"
    <3>1. fjCaller[c].kind = k /\ DOMAIN fjCaller[c] = {"pc", "kind", "on", "v", "floor"}
      BY <1>2, <2>2, GatewayFacts DEF CallerInv
    <3>2. fjCaller'[c] = Fj!Answer(c, Fj!Unknown)[c]
      BY <2>1, <2>2
    <3>. QED BY <3>1, <3>2, AnswerIsOneCaller
  <2>3. DOMAIN fjCaller' = Callers /\ Fj!Unknown \in Int
    BY <1>4 DEF Fj!Unknown
  <2>. QED BY <1>3, <1>4, <2>1, <2>2, <2>3
<1>5. ASSUME NEW v \in fjRequest[q].seen .. fjRemote,
             fjCaller' = [c \in Callers |->
                  CASE c \notin Fj!Waiting(q) -> fjCaller[c]
                    [] c \in Fj!Waiting(q) /\ k = "open" -> Fj!Answer(c, v)[c]
                    [] OTHER -> [fjCaller[c] EXCEPT !.pc = "checks", !.on = "none", !.v = v]],
             fjCache' = IF k = "open" /\ Fj!Waiting(q) # {} THEN [fjCache EXCEPT ![k] = v] ELSE fjCache
      PROVE  GatewayInv'
  <2>1. \A c \in Callers : fjCaller'[c] =
          IF fjCaller[c].on # q THEN fjCaller[c]
          ELSE IF k = "open" THEN Fj!Answer(c, v)[c]
          ELSE [fjCaller[c] EXCEPT !.pc = "checks", !.on = "none", !.v = v]
    BY <1>5 DEF Fj!Waiting
  <2>2. v \in Int /\ v >= fjRequest[q].seen /\ v # Fj!Unknown
    BY <1>1 DEF GatewayInv, Fj!Unknown
  <2>3. k # "open" => k = "pr"
    BY <1>1 DEF Fj!Kinds
  <2>4. ASSUME NEW c \in Callers, fjCaller[c].on = q
        PROVE  /\ DOMAIN fjCaller'[c] = DOMAIN fjCaller[c]
               /\ fjCaller'[c].kind = k /\ fjCaller'[c].floor = fjCaller[c].floor
               /\ fjCaller'[c].on = "none" /\ fjCaller'[c].v = v
               /\ fjCaller'[c].pc = IF k = "open" THEN "answered" ELSE "checks"
    <3>1. fjCaller[c].kind = k /\ DOMAIN fjCaller[c] = {"pc", "kind", "on", "v", "floor"}
      BY <1>2, <2>4, GatewayFacts DEF CallerInv
    <3>2. CASE k = "open"
      <4>1. fjCaller'[c] = Fj!Answer(c, v)[c]
        BY <2>1, <2>4, <3>2
      <4>. QED BY <3>1, <3>2, <4>1, AnswerIsOneCaller
    <3>3. CASE k # "open"
      <4>1. fjCaller'[c] = [fjCaller[c] EXCEPT !.pc = "checks", !.on = "none", !.v = v]
        BY <2>1, <2>4, <3>3
      <4>. QED BY <3>1, <3>3, <4>1
    <3>. QED BY <3>2, <3>3
  <2>5. DOMAIN fjCaller' = Callers
    BY <1>5
  <2>6. UNCHANGED fjCache \/ fjCache' = [fjCache EXCEPT ![k] = v]
    BY <1>5
  <2>. QED BY <1>3, <2>1, <2>2, <2>3, <2>4, <2>5, <2>6
<1>. QED BY <1>4, <1>5 DEF Fj!ListArrives, k, Fj!None

LEMMA ChecksArriveKept ==
  ASSUME GatewayInv, NEW c \in Callers, Fj!ChecksArrive(c)
  PROVE  GatewayInv'
<1>1. /\ UNCHANGED <<fjRemote, fjAcked, fjMutation, fjOverlapped, fjInflight, fjRequest>>
      /\ fjCaller[c].pc = "checks" /\ fjCaller[c].kind = "pr" /\ fjCaller[c].on = "none"
      /\ fjCache' = [fjCache EXCEPT !["pr"] = fjCaller[c].v]
      /\ fjCaller' = Fj!Answer(c, fjCaller[c].v)
  BY DEF Fj!ChecksArrive, GatewayInv, CallerInv
<1>2. /\ DOMAIN fjCaller' = Callers /\ \A d \in Callers : d # c => fjCaller'[d] = fjCaller[d]
      /\ DOMAIN fjCaller'[c] = DOMAIN fjCaller[c]
      /\ fjCaller'[c].pc = "answered" /\ fjCaller'[c].on = "none"
      /\ \A f \in {"kind", "v", "floor"} : fjCaller'[c][f] = fjCaller[c][f]
  BY <1>1, AnswerIsOneCaller DEF Fj!Answer, GatewayInv, CallerInv
<1>3. \A d \in Callers : CallerInv(d)'
  BY <1>1, <1>2 DEF GatewayInv, CallerInv
<1>4. ASSUME NEW q \in Requests PROVE RequestInv(q)'
  BY <1>1, <1>2, GatewayFacts DEF RequestInv
<1>5. fjCaller[c].v \in Int /\ (fjCaller[c].v < fjAcked => fjOverlapped["pr"])
  BY <1>1 DEF GatewayInv, CallerInv
<1>. QED BY <1>1, <1>2, <1>3, <1>4, <1>5 DEF GatewayInv

LEMMA GatewayKept ==
  ASSUME GatewayInv, [PartsNext]_allVars
  PROVE  GatewayInv'
<1>1. CASE UNCHANGED fjVars
  BY <1>1 DEF fjVars, GatewayInv, CallerInv, RequestInv
<1>2. ASSUME NEW c \in Callers, NEW k \in Fj!Kinds, NEW interactive \in BOOLEAN, Fj!Lookup(c, k, interactive)
      PROVE  GatewayInv'
  BY <1>2, LookupKept
<1>3. ASSUME NEW q \in Requests, Fj!ListArrives(q) PROVE GatewayInv'
  BY <1>3, ListArrivesKept
<1>4. ASSUME NEW c \in Callers, Fj!ChecksArrive(c) PROVE GatewayInv'
  BY <1>4, ChecksArriveKept
<1>5. CASE Fj!TimePasses
  BY <1>5 DEF Fj!TimePasses, GatewayInv, CallerInv, RequestInv, Fj!Absent
<1>6. CASE Fj!MutatePr \/ Fj!MarkReady \/ Fj!MutationFails
  BY <1>6 DEF Fj!MutatePr, Fj!MarkReady, Fj!MutationFails, GatewayInv, CallerInv, RequestInv
<1>7. CASE Fj!MutationApplied
  BY <1>7 DEF Fj!MutationApplied, GatewayInv, CallerInv, RequestInv
<1>8. CASE Fj!MutationSucceeds
  <2>1. /\ fjAcked < fjRemote /\ fjAcked' = fjRemote /\ fjMutation' = "idle"
        /\ UNCHANGED <<fjRemote, fjInflight, fjRequest, fjCaller>>
        /\ fjCache' = [k \in Fj!Kinds |-> Fj!Absent]
        /\ fjOverlapped' = [k \in Fj!Kinds |-> Fj!UnderWay(k)]
    BY <1>8 DEF Fj!MutationSucceeds, Fj!Dropped, GatewayInv
  <2>2. \A c \in Callers : fjCaller[c].pc \in {"waiting", "checks"} => fjOverlapped'[fjCaller[c].kind]
    BY <2>1 DEF Fj!UnderWay, GatewayInv, CallerInv
  <2>3. \A c \in Callers : CallerInv(c)'
    BY <2>1, <2>2 DEF GatewayInv, CallerInv
  <2>4. ASSUME NEW q \in Requests PROVE RequestInv(q)'
    <3>1. fjRequest[q] # Fj!NoRequest =>
            \E c \in Callers : fjCaller[c].on = q /\ fjCaller[c].pc = "waiting" /\ fjCaller[c].kind = fjRequest[q].kind
      BY GatewayFacts DEF RequestInv, CallerInv
    <3>. QED BY <2>1, <2>2, <3>1, GatewayFacts DEF RequestInv
  <2>. QED BY <2>1, <2>3, <2>4 DEF GatewayInv, Fj!Absent
<1>. QED BY <1>1, <1>2, <1>3, <1>4, <1>5, <1>6, <1>7, <1>8 DEF PartsNext, allVars, Fj!Next

(* After a reported mutation the Forgejo gateway serves what was there      *)
(* before it only where a lookup overlapped the mutation                    *)
(* (forge/forgejo gateway).                                                 *)
THEOREM StaleOnlyWhereOverlapped == PartsSpec => []StaleOnlyIfOverlapped
<1>1. PartsInit => GatewayInv
  BY DEF PartsInit, Fj!Init, GatewayInv, CallerInv, RequestInv, Fj!Absent, Fj!Unknown, Fj!None, Fj!Rest, Fj!Kinds
<1>2. GatewayInv => StaleOnlyIfOverlapped
  BY DEF GatewayInv, CallerInv, StaleOnlyIfOverlapped, Fj!StaleOnlyIfOverlapped
<1>3. GatewayInv /\ [PartsNext]_allVars => GatewayInv'
  BY GatewayKept
<1>. QED BY <1>1, <1>2, <1>3, PTL DEF PartsSpec, allVars

-----------------------------------------------------------------------------
(* The router *)

Recognised == {"forgejo", "gitea", "gitlab"}
Says(software) == software = "unknown" \/ \E d \in Fr!Detections : d[1] = software

(* The promise that is cached: who resolves it, and to what. *)
ChosenInv ==
  /\ DOMAIN frChosen = {"choice", "by", "gateway"}
  /\ frChosen.by # "none yet" => frChosen.by \in Routes /\ frChosen.choice \in Fr!Choices
  /\ frChosen.by # "none yet" /\ frChosen.gateway = "none yet" => frRoute[frChosen.by].pc # "free"
  /\ frChosen.by # "none yet" /\ frRoute[frChosen.by].pc # "free" =>
       frChosen.gateway = "none yet" /\ frChosen.choice = frRoute[frChosen.by].choice
  /\ frChosen.gateway # "none yet" =>
       IF frChosen.choice = "auto" THEN frChosen.gateway # "none"
       ELSE frChosen.gateway = Fr!GatewayOf(frChosen.choice)
  /\ Fr!NoFallbackIsPinned

(* A route that runs: for a choice that needs it, of the host there is, and *)
(* with an answer detection may give.                                       *)
RouteInv(r) ==
  /\ DOMAIN frRoute[r] = {"pc", "choice", "inst", "reader", "probe"}
  /\ frRoute[r].pc \in {"free", "remote", "detect"}
  /\ frRoute[r].pc # "free" => frRoute[r].choice \in Fr!Choices \ {"none"}
  /\ frRoute[r].pc = "remote" /\ frForgets = 0 => frRoute[r].inst \in {frHost, "unreadable"}
  /\ frRoute[r].pc = "detect" =>
       /\ frRoute[r].choice = "auto" /\ (frForgets = 0 => frHost = "instance")
       /\ frRoute[r].probe[1] \in Recognised \cup {"unknown"} /\ Says(frRoute[r].probe[1])

AskerInv(c) ==
  /\ DOMAIN frCaller[c] = {"pc", "choice", "on", "gateway"}
  /\ frCaller[c].choice \in Fr!Choices
  /\ frCaller[c].on # "none yet" =>
       /\ frCaller[c].pc = "waiting" /\ frCaller[c].on \in Routes
       /\ frRoute[frCaller[c].on].pc # "free" /\ frRoute[frCaller[c].on].choice = frCaller[c].choice
  /\ frCaller[c].pc = "answered" =>
       IF frCaller[c].choice = "auto" THEN frCaller[c].gateway # "none"
       ELSE frCaller[c].gateway = Fr!GatewayOf(frCaller[c].choice)

DetectorInv ==
  /\ frHost \in {"github", "instance"} /\ frForgets \in Nat /\ frChoice \in Fr!Choices
  /\ frSoftware \in Fr!Softwares /\ frGated \in BOOLEAN
  /\ frMemo.by # "none yet" /\ frForgets = 0 => frMemo.answer \in {frHost, "unreadable"}
  /\ frSettled # "none yet" => frSettled \in Recognised \cup {"unknown"} /\ Says(frSettled)
  /\ frProbing.by # "none yet" => frProbing.answer[1] \in Recognised \cup {"unknown"} /\ Says(frProbing.answer[1])

RouterInv ==
  /\ DOMAIN frRoute = Routes /\ DOMAIN frCaller = Callers
  /\ DetectorInv /\ ChosenInv
  /\ \A r \in Routes : RouteInv(r)
  /\ \A c \in Callers : AskerInv(c)

(* Detection names a software or nothing. *)
LEMMA DetectionsNames ==
  \A d \in Fr!Detections : d[1] \in Recognised \cup {"unknown"} /\ Says(d[1])
BY DEF Fr!Detections, Fr!Classify, Recognised, Says

LEMMA GatewaysAreNamed ==
  ASSUME NEW name PROVE Fr!GatewayOf(name) # "none yet"
BY DEF Fr!GatewayOf

LEMMA AnsweredProbes ==
  ASSUME frSoftware \in Fr!Softwares, frGated \in BOOLEAN
  PROVE  Fr!AnsweredProbesAreRight
<1>1. ASSUME NEW fj \in Fr!ProbeAnswers("forgejo"), NEW gt \in Fr!ProbeAnswers("gitea"),
             NEW gl \in Fr!ProbeAnswers("gitlab"), fj # "down", gt # "down", gl # "down"
      PROVE  Fr!Classify(fj, gt, gl) = IF frGated THEN "unknown" ELSE frSoftware
  <2>1. CASE frGated
    <3>1. fj = "auth" /\ gt = "auth" /\ gl = "auth"
      BY <1>1, <2>1 DEF Fr!ProbeAnswers
    <3>. QED BY <2>1, <3>1 DEF Fr!Classify
  <2>2. CASE ~frGated /\ frSoftware = "forgejo"
    <3>1. fj = "version"
      BY <1>1, <2>2 DEF Fr!ProbeAnswers
    <3>. QED BY <2>2, <3>1 DEF Fr!Classify
  <2>3. CASE ~frGated /\ frSoftware = "gitea"
    <3>1. fj = "missing" /\ gt = "version"
      BY <1>1, <2>3 DEF Fr!ProbeAnswers
    <3>. QED BY <2>3, <3>1 DEF Fr!Classify
  <2>4. CASE ~frGated /\ frSoftware = "gitlab"
    <3>1. fj = "missing" /\ gt = "missing" /\ gl \in {"version", "auth"}
      BY <1>1, <2>4 DEF Fr!ProbeAnswers
    <3>. QED BY <2>4, <3>1 DEF Fr!Classify
  <2>. QED BY <2>1, <2>2, <2>3, <2>4 DEF Fr!Softwares
<1>2. ASSUME NEW d \in Fr!Detections, d[2] PROVE d[1] = IF frGated THEN "unknown" ELSE frSoftware
  <2>1. PICK fj \in Fr!ProbeAnswers("forgejo"), gt \in Fr!ProbeAnswers("gitea"), gl \in Fr!ProbeAnswers("gitlab") :
          d = <<Fr!Classify(fj, gt, gl), "down" \notin {fj, gt, gl}>>
    BY DEF Fr!Detections
  <2>2. fj # "down" /\ gt # "down" /\ gl # "down"
    BY <1>2, <2>1
  <2>3. d[1] = Fr!Classify(fj, gt, gl)
    BY <2>1
  <2>. QED BY <1>1, <2>2, <2>3
<1>. QED BY <1>2 DEF Fr!AnsweredProbesAreRight

(* What a step that leaves the detector and the choice alone does to what   *)
(* was said of them.                                                        *)
LEMMA DetectionsKept ==
  ASSUME UNCHANGED <<frSoftware, frGated>>
  PROVE  Fr!Detections' = Fr!Detections
BY DEF Fr!Detections, Fr!ProbeAnswers

LEMMA ResolveKept ==
  ASSUME RouterInv, NEW r \in Routes, NEW gw, NEW cacheable \in BOOLEAN,
         Fr!Resolve(r, gw, cacheable), frRoute[r].pc # "free",
         gw # "none yet",
         IF frRoute[r].choice = "auto" THEN gw # "none" ELSE gw = Fr!GatewayOf(frRoute[r].choice),
         cacheable /\ frForgets = 0 /\ frRoute[r].choice = "auto" =>
           IF frHost = "github" THEN gw = "github"
           ELSE \E d \in Fr!Detections : d[1] # "unknown" /\ gw = Fr!GatewayOf(d[1]),
         UNCHANGED <<frHost, frSoftware, frGated, frForgets>>, DetectorInv'
  PROVE  RouterInv'
<1>1. Fr!Detections' = Fr!Detections
  BY DetectionsKept
<1>2. /\ frRoute' = [frRoute EXCEPT ![r] = Fr!NoRoute]
      /\ DOMAIN frRoute' = Routes /\ frRoute'[r] = Fr!NoRoute /\ \A s \in Routes \ {r} : frRoute'[s] = frRoute[s]
  BY DEF Fr!Resolve, RouterInv
<1>3. ASSUME NEW s \in Routes PROVE RouteInv(s)'
  <2>1. CASE s = r
    BY <1>2, <2>1 DEF RouteInv, Fr!NoRoute
  <2>2. CASE s # r
    <3>1. RouteInv(s)
      BY DEF RouterInv
    <3>. QED BY <1>1, <1>2, <2>2, <3>1 DEF RouteInv, Says
  <2>. QED BY <2>1, <2>2
<1>4. ASSUME NEW c \in Callers PROVE AskerInv(c)'
  <2>1. AskerInv(c)
    BY DEF RouterInv
  <2>2. frCaller'[c] = IF frCaller[c].on # r THEN frCaller[c]
                       ELSE [frCaller[c] EXCEPT !.pc = "answered", !.on = "none yet", !.gateway = gw]
    BY DEF Fr!Resolve, Fr!None
  <2>3. CASE frCaller[c].on # r
    BY <1>2, <2>1, <2>2, <2>3 DEF AskerInv
  <2>4. CASE frCaller[c].on = r
    <3>1. frCaller[c].choice = frRoute[r].choice
      BY <2>1, <2>4, NamesAssumption DEF NamesAssumption, AskerInv
    <3>. QED BY <2>1, <2>2, <2>4, <3>1 DEF AskerInv
  <2>. QED BY <2>3, <2>4
<1>5. ChosenInv'
  <2>1. frChosen' = CASE frChosen.by # r -> frChosen
                      [] frChosen.by = r /\ cacheable -> [frChosen EXCEPT !.gateway = gw]
                      [] OTHER -> Fr!NotChosen
    BY DEF Fr!Resolve
  <2>2. CASE frChosen.by # r
    <3>1. frChosen' = frChosen
      BY <2>1, <2>2
    <3>2. ChosenInv
      BY DEF RouterInv
    <3>. QED BY <1>1, <1>2, <2>2, <3>1, <3>2 DEF ChosenInv, Fr!NoFallbackIsPinned, Fr!None
  <2>3. CASE frChosen.by = r /\ cacheable
    <3>1. frChosen' = [frChosen EXCEPT !.gateway = gw]
      BY <2>1, <2>3
    <3>2. ChosenInv /\ frChosen.by # "none yet"
      BY <2>3, NamesAssumption DEF NamesAssumption, RouterInv
    <3>3. frChosen.choice = frRoute[r].choice /\ DOMAIN frChosen = {"choice", "by", "gateway"}
      BY <2>3, <3>2 DEF ChosenInv
    <3>4. /\ DOMAIN frChosen' = {"choice", "by", "gateway"}
          /\ frChosen'.by = r /\ frChosen'.choice = frRoute[r].choice /\ frChosen'.gateway = gw
      BY <2>3, <3>1, <3>3
    <3>5. frRoute'[r].pc = "free"
      BY <1>2 DEF Fr!NoRoute
    <3>6. frChosen.choice \in Fr!Choices
      BY <3>2 DEF ChosenInv
    <3>. QED BY <1>1, <2>3, <3>3, <3>4, <3>5, <3>6 DEF ChosenInv, Fr!NoFallbackIsPinned, Fr!None
  <2>4. CASE frChosen.by = r /\ ~cacheable
    <3>1. frChosen' = Fr!NotChosen
      BY <2>1, <2>4
    <3>. QED BY <3>1 DEF ChosenInv, Fr!NotChosen, Fr!None, Fr!NoFallbackIsPinned
  <2>. QED BY <2>2, <2>3, <2>4
<1>6. DOMAIN frCaller' = Callers
  BY DEF Fr!Resolve
<1>. QED BY <1>2, <1>3, <1>4, <1>5, <1>6 DEF RouterInv

(* A caller joins the route that is cached, is answered by it, or by "none". *)
LEMMA PickCachedKept ==
  ASSUME RouterInv, NEW c \in Callers, NEW on, NEW gw,
         DOMAIN frCaller' = Callers, \A d \in Callers \ {c} : frCaller'[d] = frCaller[d],
         DOMAIN frCaller'[c] = {"pc", "choice", "on", "gateway"},
         frCaller'[c].choice = frChoice, frCaller'[c].on = on, frCaller'[c].gateway = gw,
         \/ /\ frCaller'[c].pc = "waiting" /\ on \in Routes
            /\ frRoute'[on].pc # "free" /\ frRoute'[on].choice = frChoice
         \/ /\ frCaller'[c].pc = "answered" /\ on = "none yet"
            /\ IF frChoice = "auto" THEN gw # "none" ELSE gw = Fr!GatewayOf(frChoice),
         DOMAIN frRoute' = Routes,
         \A r \in Routes : frRoute[r].pc # "free" => frRoute'[r] = frRoute[r],
         \A r \in Routes : RouteInv(r)',
         DetectorInv', ChosenInv'
  PROVE  RouterInv'
<1>1. ASSUME NEW d \in Callers PROVE AskerInv(d)'
  <2>1. AskerInv(d) /\ frChoice \in Fr!Choices
    BY DEF RouterInv, DetectorInv
  <2>2. CASE d = c
    BY <2>1, <2>2 DEF AskerInv
  <2>3. CASE d # c
    BY <2>1, <2>3 DEF AskerInv
  <2>. QED BY <2>2, <2>3
<1>. QED BY <1>1 DEF RouterInv

LEMMA PickKept ==
  ASSUME RouterInv, NEW c \in Callers, Fr!Pick(c)
  PROVE  RouterInv'
<1>. DEFINE asked == [pc |-> "waiting", choice |-> frChoice, on |-> "none yet", gateway |-> "none yet"]
<1>1. /\ DOMAIN asked = {"pc", "choice", "on", "gateway"}
      /\ asked.pc = "waiting" /\ asked.choice = frChoice /\ asked.on = "none yet" /\ asked.gateway = "none yet"
  OBVIOUS
<1>2. UNCHANGED <<frHost, frSoftware, frGated, frChoice, frSettled, frProbing, frForgets>>
  BY DEF Fr!Pick
<1>3. Fr!Detections' = Fr!Detections
  BY <1>2, DetectionsKept
<1>4. /\ \A r \in Routes : RouteInv(r)
      /\ ChosenInv /\ DetectorInv /\ DOMAIN frCaller = Callers /\ DOMAIN frRoute = Routes
      /\ \A r \in Routes : r # "none yet"
  BY NamesAssumption DEF NamesAssumption, RouterInv
<1>5. CASE /\ Fr!Hit
           /\ frCaller' = [frCaller EXCEPT ![c] =
                IF frChosen.gateway = "none yet" THEN [asked EXCEPT !.on = frChosen.by]
                ELSE [asked EXCEPT !.pc = "answered", !.gateway = frChosen.gateway]]
           /\ UNCHANGED <<frChosen, frDecided, frHasRemote, frMemo, frRoute>>
  <2>1. ChosenInv' /\ DetectorInv'
    BY <1>2, <1>3, <1>4, <1>5 DEF ChosenInv, Fr!NoFallbackIsPinned, DetectorInv, Says
  <2>2. \A r \in Routes : RouteInv(r)'
    BY <1>2, <1>3, <1>4, <1>5 DEF RouteInv, Says
  <2>3. frChosen.by \in Routes /\ frChosen.choice = frChoice
    BY <1>4, <1>5 DEF Fr!Hit, Fr!None, ChosenInv
  <2>4. DOMAIN frCaller' = Callers /\ \A d \in Callers \ {c} : frCaller'[d] = frCaller[d]
    BY <1>4, <1>5
  <2>5. CASE frChosen.gateway = "none yet"
    <3>1. frCaller'[c] = [asked EXCEPT !.on = frChosen.by]
      BY <1>4, <1>5, <2>5
    <3>. HIDE DEF asked
    <3>2. /\ DOMAIN frCaller'[c] = {"pc", "choice", "on", "gateway"}
          /\ frCaller'[c].pc = "waiting" /\ frCaller'[c].choice = frChoice
          /\ frCaller'[c].on = frChosen.by /\ frCaller'[c].gateway = "none yet"
      BY <1>1, <3>1
    <3>3. frRoute'[frChosen.by].pc # "free" /\ frRoute'[frChosen.by].choice = frChoice
      BY <1>4, <1>5, <2>3, <2>5 DEF ChosenInv
    <3>4. UNCHANGED frRoute
      BY <1>5
    <3>. QED BY <1>4, <2>1, <2>2, <2>3, <2>4, <3>2, <3>3, <3>4, PickCachedKept
  <2>6. CASE frChosen.gateway # "none yet"
    <3>1. frCaller'[c] = [asked EXCEPT !.pc = "answered", !.gateway = frChosen.gateway]
      BY <1>4, <1>5, <2>6
    <3>. HIDE DEF asked
    <3>2. /\ DOMAIN frCaller'[c] = {"pc", "choice", "on", "gateway"}
          /\ frCaller'[c].pc = "answered" /\ frCaller'[c].choice = frChoice
          /\ frCaller'[c].on = "none yet" /\ frCaller'[c].gateway = frChosen.gateway
      BY <1>1, <3>1
    <3>3. IF frChoice = "auto" THEN frChosen.gateway # "none" ELSE frChosen.gateway = Fr!GatewayOf(frChoice)
      BY <1>4, <2>3, <2>6 DEF ChosenInv
    <3>4. UNCHANGED frRoute
      BY <1>5
    <3>. QED BY <1>4, <2>1, <2>2, <2>3, <2>4, <3>2, <3>3, <3>4, PickCachedKept
  <2>. QED BY <2>5, <2>6
<1>6. CASE /\ ~Fr!Hit /\ frChoice = "none"
           /\ \E r \in {x \in Routes : frRoute[x].pc = "free"} :
                frChosen' = [choice |-> "none", by |-> r, gateway |-> "none"]
           /\ frCaller' = [frCaller EXCEPT ![c] = [asked EXCEPT !.pc = "answered", !.gateway = "none"]]
           /\ UNCHANGED <<frMemo, frRoute>>
  <2>1. PICK r \in Routes : frRoute[r].pc = "free" /\ frChosen' = [choice |-> "none", by |-> r, gateway |-> "none"]
    BY <1>6
  <2>2. ChosenInv'
    <3>1. Fr!GatewayOf("none") = "none" /\ "none" \in Fr!Choices
      BY DEF Fr!GatewayOf, Fr!Choices
    <3>2. /\ DOMAIN frChosen' = {"choice", "by", "gateway"}
          /\ frChosen'.choice = "none" /\ frChosen'.by = r /\ frChosen'.gateway = "none"
      BY <2>1
    <3>3. frRoute'[r].pc = "free"
      BY <1>6, <2>1
    <3>. QED BY <3>1, <3>2, <3>3 DEF ChosenInv, Fr!NoFallbackIsPinned
  <2>3. DetectorInv' /\ \A s \in Routes : RouteInv(s)'
    <3>1. DetectorInv'
      BY <1>2, <1>3, <1>4, <1>6 DEF DetectorInv, Says
    <3>2. ASSUME NEW s \in Routes PROVE RouteInv(s)'
      <4>1. RouteInv(s) /\ UNCHANGED frRoute
        BY <1>4, <1>6
      <4>. QED BY <1>2, <1>3, <4>1 DEF RouteInv, Says
    <3>. QED BY <3>1, <3>2
  <2>4. DOMAIN frCaller' = Callers /\ \A d \in Callers \ {c} : frCaller'[d] = frCaller[d]
    BY <1>4, <1>6
  <2>5. frCaller'[c] = [asked EXCEPT !.pc = "answered", !.gateway = "none"]
    BY <1>4, <1>6
  <2>. HIDE DEF asked
  <2>6. /\ DOMAIN frCaller'[c] = {"pc", "choice", "on", "gateway"}
        /\ frCaller'[c].pc = "answered" /\ frCaller'[c].choice = frChoice
        /\ frCaller'[c].on = "none yet" /\ frCaller'[c].gateway = "none"
    BY <1>1, <2>5
  <2>7. frChoice = "none" /\ Fr!GatewayOf(frChoice) = "none" /\ UNCHANGED frRoute
    BY <1>6 DEF Fr!GatewayOf
  <2>. QED BY <1>4, <2>2, <2>3, <2>4, <2>6, <2>7, PickCachedKept
<1>7. CASE /\ ~Fr!Hit /\ frChoice # "none"
           /\ \E r \in {x \in Routes : frRoute[x].pc = "free"} :
                /\ Fr!ReadRemote(r)
                /\ frChosen' = [choice |-> frChoice, by |-> r, gateway |-> "none yet"]
                /\ frCaller' = [frCaller EXCEPT ![c] = [asked EXCEPT !.on = r]]
           /\ UNCHANGED <<frDecided, frHasRemote>>
  <2>1. PICK r \in Routes : /\ frRoute[r].pc = "free"
                            /\ Fr!ReadRemote(r)
                            /\ frChosen' = [choice |-> frChoice, by |-> r, gateway |-> "none yet"]
                            /\ frCaller' = [frCaller EXCEPT ![c] = [asked EXCEPT !.on = r]]
    BY <1>7
  <2>2. PICK answer \in IF frMemo.by # "none yet" THEN {frMemo.answer} ELSE {frHost, "unreadable"} :
          /\ frMemo' = IF frMemo.by # "none yet" THEN frMemo ELSE [by |-> r, answer |-> answer]
          /\ frRoute' = [frRoute EXCEPT ![r] =
               [Fr!NoRoute EXCEPT !.pc = "remote", !.choice = frChoice, !.inst = answer, !.reader = frMemo'.by]]
    BY <2>1 DEF Fr!ReadRemote, Fr!None
  <2>3. frForgets = 0 => answer \in {frHost, "unreadable"}
    BY <1>4, <2>2 DEF DetectorInv
  <2>4. DetectorInv'
    BY <1>2, <1>3, <1>4, <2>2, <2>3 DEF DetectorInv, Says
  <2>5. /\ DOMAIN frRoute' = Routes /\ \A s \in Routes \ {r} : frRoute'[s] = frRoute[s]
        /\ DOMAIN frRoute'[r] = {"pc", "choice", "inst", "reader", "probe"}
        /\ frRoute'[r].pc = "remote" /\ frRoute'[r].choice = frChoice /\ frRoute'[r].inst = answer
    BY <1>4, <2>2 DEF Fr!NoRoute
  <2>6. ASSUME NEW s \in Routes PROVE RouteInv(s)'
    <3>1. CASE s = r
      BY <1>2, <1>4, <1>7, <2>3, <2>5, <3>1 DEF RouteInv, DetectorInv
    <3>2. CASE s # r
      <4>1. RouteInv(s) /\ frRoute'[s] = frRoute[s]
        BY <1>4, <2>5, <3>2
      <4>. QED BY <1>2, <1>3, <4>1 DEF RouteInv, Says
    <3>. QED BY <3>1, <3>2
  <2>7. ChosenInv'
    <3>1. /\ DOMAIN frChosen' = {"choice", "by", "gateway"}
          /\ frChosen'.choice = frChoice /\ frChosen'.by = r /\ frChosen'.gateway = "none yet"
      BY <2>1
    <3>. QED BY <1>4, <2>5, <3>1 DEF ChosenInv, DetectorInv, Fr!NoFallbackIsPinned, Fr!None
  <2>8. DOMAIN frCaller' = Callers /\ \A d \in Callers \ {c} : frCaller'[d] = frCaller[d]
    BY <1>4, <2>1
  <2>9. frCaller'[c] = [asked EXCEPT !.on = r]
    BY <1>4, <2>1
  <2>. HIDE DEF asked
  <2>10. /\ DOMAIN frCaller'[c] = {"pc", "choice", "on", "gateway"}
         /\ frCaller'[c].pc = "waiting" /\ frCaller'[c].choice = frChoice
         /\ frCaller'[c].on = r /\ frCaller'[c].gateway = "none yet"
    BY <1>1, <2>9
  <2>11. \A s \in Routes : frRoute[s].pc # "free" => frRoute'[s] = frRoute[s]
    BY <2>1, <2>5
  <2>. QED BY <2>4, <2>5, <2>6, <2>7, <2>8, <2>10, <2>11, PickCachedKept
<1>. QED BY <1>5, <1>6, <1>7 DEF Fr!Pick, Fr!None, asked

LEMMA RouterKept ==
  ASSUME RouterInv, [PartsNext]_allVars
  PROVE  RouterInv'
<1>0. /\ \A r \in Routes : RouteInv(r)
      /\ \A c \in Callers : AskerInv(c)
      /\ ChosenInv /\ DetectorInv /\ DOMAIN frCaller = Callers /\ DOMAIN frRoute = Routes
  BY DEF RouterInv
<1>1. CASE UNCHANGED frVars
  <2>1. Fr!Detections' = Fr!Detections
    BY <1>1, DetectionsKept DEF frVars
  <2>2. DetectorInv' /\ ChosenInv'
    BY <1>0, <1>1, <2>1 DEF frVars, DetectorInv, ChosenInv, Fr!NoFallbackIsPinned, Says
  <2>3. \A r \in Routes : RouteInv(r)'
    BY <1>0, <1>1, <2>1 DEF frVars, RouteInv, Says
  <2>4. \A c \in Callers : AskerInv(c)'
    BY <1>0, <1>1 DEF frVars, AskerInv
  <2>. QED BY <1>0, <1>1, <2>2, <2>3, <2>4 DEF RouterInv, frVars
<1>2. ASSUME NEW c \in Callers, Fr!Pick(c) PROVE RouterInv'
  BY <1>2, PickKept
<1>3. ASSUME NEW r \in Routes, Fr!RouteByChoice(r) PROVE RouterInv'
  <2>1. /\ UNCHANGED <<frHost, frSoftware, frGated, frChoice, frSettled, frProbing, frForgets>>
        /\ frRoute[r].pc = "remote" /\ frRoute[r].choice # "auto" /\ frMemo' = Fr!MemoAfter(r)
        /\ Fr!Resolve(r, Fr!GatewayOf(frRoute[r].choice), TRUE)
    BY <1>3 DEF Fr!RouteByChoice
  <2>2. Fr!Detections' = Fr!Detections
    BY <2>1, DetectionsKept
  <2>3. DetectorInv'
    BY <1>0, <2>1, <2>2 DEF DetectorInv, Says, Fr!MemoAfter, Fr!NoMemo, Fr!None
  <2>. QED BY <2>1, <2>3, ResolveKept, GatewaysAreNamed
<1>4. ASSUME NEW r \in Routes, Fr!RouteToGithub(r) PROVE RouterInv'
  <2>1. /\ UNCHANGED <<frHost, frSoftware, frGated, frChoice, frSettled, frProbing, frForgets>>
        /\ frRoute[r].pc = "remote" /\ frRoute[r].choice = "auto" /\ frMemo' = Fr!MemoAfter(r)
        /\ frRoute[r].inst \in {"github", "unreadable"}
        /\ Fr!Resolve(r, "github", Fr!Cacheable(r))
    BY <1>4 DEF Fr!RouteToGithub
  <2>2. Fr!Detections' = Fr!Detections
    BY <2>1, DetectionsKept
  <2>3. DetectorInv'
    BY <1>0, <2>1, <2>2 DEF DetectorInv, Says, Fr!MemoAfter, Fr!NoMemo, Fr!None
  <2>4. Fr!Cacheable(r) /\ frForgets = 0 => frHost = "github"
    BY <1>0, <2>1 DEF RouteInv, Fr!Cacheable
  <2>5. Fr!Cacheable(r) \in BOOLEAN
    BY DEF Fr!Cacheable
  <2>. QED BY <2>1, <2>3, <2>4, <2>5, ResolveKept
<1>5. ASSUME NEW r \in Routes, Fr!Detect(r) PROVE RouterInv'
  <2>1. /\ UNCHANGED <<frHost, frSoftware, frGated, frChoice, frSettled, frChosen, frCaller, frForgets>>
        /\ frRoute[r].pc = "remote" /\ frRoute[r].choice = "auto" /\ frMemo' = Fr!MemoAfter(r)
        /\ frRoute[r].inst = "instance"
    BY <1>5 DEF Fr!Detect
  <2>2. PICK d \in CASE frSettled # "none yet" -> {<<frSettled, TRUE>>}
                     [] frSettled = "none yet" /\ frProbing.by # "none yet" -> {frProbing.answer}
                     [] OTHER -> Fr!Detections :
          /\ frRoute' = [frRoute EXCEPT ![r].pc = "detect", ![r].probe = d]
          /\ frProbing' = IF frSettled = "none yet" /\ frProbing.by = "none yet"
                          THEN [by |-> r, answer |-> d] ELSE frProbing
    BY <1>5 DEF Fr!Detect, Fr!None
  <2>3. Fr!Detections' = Fr!Detections
    BY <2>1, DetectionsKept
  <2>4. d[1] \in Recognised \cup {"unknown"} /\ Says(d[1])
    <3>1. CASE frSettled # "none yet"
      <4>1. d = <<frSettled, TRUE>>
        BY <2>2, <3>1
      <4>. QED BY <1>0, <3>1, <4>1 DEF DetectorInv
    <3>2. CASE frSettled = "none yet" /\ frProbing.by # "none yet"
      <4>1. d = frProbing.answer
        BY <2>2, <3>2
      <4>. QED BY <1>0, <3>2, <4>1 DEF DetectorInv
    <3>3. CASE frSettled = "none yet" /\ ~(frProbing.by # "none yet")
      <4>1. d \in Fr!Detections
        BY <2>2, <3>3
      <4>. QED BY <4>1, DetectionsNames
    <3>. QED BY <3>1, <3>2, <3>3
  <2>5. DetectorInv'
    BY <1>0, <2>1, <2>2, <2>3, <2>4 DEF DetectorInv, Says, Fr!MemoAfter, Fr!NoMemo, Fr!None
  <2>6. /\ DOMAIN frRoute' = Routes /\ \A s \in Routes \ {r} : frRoute'[s] = frRoute[s]
        /\ DOMAIN frRoute'[r] = {"pc", "choice", "inst", "reader", "probe"}
        /\ frRoute'[r].pc = "detect" /\ frRoute'[r].choice = "auto" /\ frRoute'[r].probe = d
    BY <1>0, <2>1, <2>2 DEF RouteInv
  <2>7. frForgets = 0 => frHost = "instance"
    BY <1>0, <2>1 DEF RouteInv
  <2>8. ASSUME NEW s \in Routes PROVE RouteInv(s)'
    <3>1. CASE s = r
      BY <2>1, <2>3, <2>4, <2>6, <2>7, <3>1 DEF RouteInv, Says, Fr!Choices
    <3>2. CASE s # r
      <4>1. RouteInv(s) /\ frRoute'[s] = frRoute[s]
        BY <1>0, <2>6, <3>2
      <4>. QED BY <2>1, <2>3, <4>1 DEF RouteInv, Says
    <3>. QED BY <3>1, <3>2
  <2>9. ASSUME NEW c \in Callers PROVE AskerInv(c)'
    <3>1. AskerInv(c) /\ frCaller'[c] = frCaller[c] /\ frChoice' = frChoice
      BY <1>0, <2>1
    <3>2. CASE frCaller[c].on = r
      BY <2>1, <2>6, <3>1, <3>2 DEF AskerInv
    <3>3. CASE frCaller[c].on # r
      BY <2>6, <3>1, <3>3 DEF AskerInv
    <3>. QED BY <3>2, <3>3
  <2>10. ChosenInv'
    BY <1>0, <2>1, <2>3, <2>6 DEF ChosenInv, Fr!NoFallbackIsPinned
  <2>. QED BY <1>0, <2>1, <2>5, <2>6, <2>8, <2>9, <2>10 DEF RouterInv
<1>6. ASSUME NEW r \in Routes, Fr!Detected(r) PROVE RouterInv'
  <2>1. /\ UNCHANGED <<frHost, frSoftware, frGated, frChoice, frMemo, frForgets>>
        /\ frRoute[r].pc = "detect"
        /\ frSettled' = IF frProbing.by = r THEN frRoute[r].probe[1] ELSE frSettled
        /\ frProbing' = IF frProbing.by = r THEN Fr!NoProbe ELSE frProbing
        /\ Fr!Resolve(r, Fr!GatewayOf(frRoute[r].probe[1]), frRoute[r].probe[1] # "unknown")
    BY <1>6 DEF Fr!Detected
  <2>2. Fr!Detections' = Fr!Detections
    BY <2>1, DetectionsKept
  <2>3. /\ frRoute[r].choice = "auto" /\ (frForgets = 0 => frHost = "instance")
        /\ frRoute[r].probe[1] \in Recognised \cup {"unknown"} /\ Says(frRoute[r].probe[1])
    BY <1>0, <2>1 DEF RouteInv
  <2>4. DetectorInv'
    BY <1>0, <2>1, <2>2, <2>3 DEF DetectorInv, Says, Fr!NoProbe, Fr!None
  <2>5. Fr!GatewayOf(frRoute[r].probe[1]) # "none"
    BY <2>3 DEF Fr!GatewayOf, Recognised
  <2>6. frRoute[r].probe[1] # "unknown" => \E d \in Fr!Detections :
          d[1] # "unknown" /\ Fr!GatewayOf(frRoute[r].probe[1]) = Fr!GatewayOf(d[1])
    BY <2>3 DEF Says
  <2>. QED BY <2>1, <2>3, <2>4, <2>5, <2>6, ResolveKept, GatewaysAreNamed
<1>7. CASE Fr!NegativeExpires \/ Fr!SetProvider
  <2>1. /\ UNCHANGED <<frHost, frSoftware, frGated, frChosen, frMemo, frProbing, frRoute, frCaller, frForgets>>
        /\ frSettled' \in {frSettled, "none yet"} /\ frChoice' \in Fr!Choices
    BY <1>0, <1>7 DEF Fr!NegativeExpires, Fr!SetProvider, Fr!None, DetectorInv
  <2>2. Fr!Detections' = Fr!Detections
    BY <2>1, DetectionsKept
  <2>3. DetectorInv' /\ ChosenInv'
    BY <1>0, <2>1, <2>2 DEF DetectorInv, ChosenInv, Fr!NoFallbackIsPinned, Says
  <2>4. \A r \in Routes : RouteInv(r)'
    BY <1>0, <2>1, <2>2 DEF RouteInv, Says
  <2>5. \A c \in Callers : AskerInv(c)'
    BY <1>0, <2>1 DEF AskerInv
  <2>. QED BY <1>0, <2>1, <2>3, <2>4, <2>5 DEF RouterInv
<1>8. CASE Fr!ForgetRepo
  <2>1. /\ UNCHANGED <<frSoftware, frGated, frChoice, frSettled, frProbing, frRoute, frCaller>>
        /\ frForgets' = frForgets + 1 /\ frHost' \in {"github", "instance"}
        /\ frChosen' = Fr!NotChosen /\ frMemo' = Fr!NoMemo
    BY <1>8 DEF Fr!ForgetRepo
  <2>2. Fr!Detections' = Fr!Detections
    BY <2>1, DetectionsKept
  <2>3. frForgets' # 0 /\ frForgets' \in Nat
    <3>1. frForgets \in Nat
      BY <1>0 DEF DetectorInv
    <3>2. frForgets' = frForgets + 1
      BY <2>1
    <3>. QED BY <3>1, <3>2
  <2>4. DetectorInv' /\ ChosenInv'
    BY <1>0, <2>1, <2>2, <2>3 DEF DetectorInv, ChosenInv, Fr!NoFallbackIsPinned, Says, Fr!NotChosen, Fr!NoMemo, Fr!None
  <2>5. \A r \in Routes : RouteInv(r)'
    BY <1>0, <2>1, <2>2, <2>3 DEF RouteInv, Says
  <2>6. \A c \in Callers : AskerInv(c)'
    BY <1>0, <2>1 DEF AskerInv
  <2>. QED BY <1>0, <2>1, <2>4, <2>5, <2>6 DEF RouterInv
<1>. QED BY <1>1, <1>2, <1>3, <1>4, <1>5, <1>6, <1>7, <1>8 DEF PartsNext, allVars, Fr!Next

(* A repository goes to the forge the user put it on, and else to the one   *)
(* its host calls for, whatever reads fail, probes time out and callers     *)
(* share a route (forge/router.ts, forge/detect.ts).                        *)
THEOREM RoutingIsAlwaysSafe == PartsSpec => []RoutingSafety
<1>1. ASSUME Fr!Init PROVE RouterInv
  <2>1. DetectorInv /\ ChosenInv
    BY <1>1 DEF Fr!Init, DetectorInv, ChosenInv, Fr!NotChosen, Fr!None, Fr!NoMemo, Fr!NoProbe, Fr!Choices,
       Fr!NoFallbackIsPinned
  <2>2. DOMAIN frRoute = Routes /\ \A r \in Routes : RouteInv(r)
    BY <1>1 DEF Fr!Init, RouteInv, Fr!NoRoute
  <2>3. DOMAIN frCaller = Callers /\ \A c \in Callers : AskerInv(c)
    BY <1>1 DEF Fr!Init, AskerInv, Fr!None, Fr!Choices
  <2>. QED BY <2>1, <2>2, <2>3 DEF RouterInv
<1>2. RouterInv => RoutingSafety
  <2>1. RouterInv => Fr!ChoiceHonoured
    BY DEF RouterInv, AskerInv, Fr!ChoiceHonoured
  <2>. QED BY <2>1, AnsweredProbes DEF RouterInv, ChosenInv, DetectorInv, RoutingSafety, Fr!RoutingSafety
<1>3. RouterInv /\ [PartsNext]_allVars => RouterInv'
  BY RouterKept
<1>4. PartsInit => RouterInv
  BY <1>1 DEF PartsInit
<1>. QED BY <1>2, <1>3, <1>4, PTL DEF PartsSpec, allVars
=============================================================================
