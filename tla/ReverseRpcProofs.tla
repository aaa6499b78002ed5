-------------------------- MODULE ReverseRpcProofs --------------------------
(* Proofs about ReverseRpc for all clients, sessions, lineages and prompts: *)
(* who is asked and may answer, and that no prompt is lost on its way.      *)
EXTENDS ReverseRpc, FiniteSetTheorems, NaturalsInduction, TLAPS

-----------------------------------------------------------------------------
(* What SetToSeq makes of a finite set: a sequence of its elements. *)
LEMMA SetToSeqIsSeq ==
  ASSUME NEW T, IsFiniteSet(T), NEW S \in SUBSET T
  PROVE  SetToSeq(S) \in Seq(T) /\ (S = {} => SetToSeq(S) = <<>>)
<1>1. IsFiniteSet(S)
  BY FS_Subset
<1>2. Cardinality(S) \in Nat /\ ExistsBijection(1..Cardinality(S), S)
  BY <1>1, FS_CardinalityType
<1>3. \E f \in [1..Cardinality(S) -> S] : IsInjective(f)
  BY <1>2 DEF ExistsBijection, Bijection, Injection, IsInjective
<1>4. SetToSeq(S) \in [1..Cardinality(S) -> S]
  BY <1>3 DEF SetToSeq
<1>5. SetToSeq(S) \in Seq(T)
  BY <1>2, <1>4
<1>6. ASSUME S = {} PROVE SetToSeq(S) = <<>>
  <2>1. Cardinality(S) = 0
    BY <1>6, FS_EmptySet
  <2>2. Len(SetToSeq(S)) = 0
    BY <1>4, <1>5, <2>1
  <2>. QED BY <1>5, <2>2
<1>. QED BY <1>5, <1>6

-----------------------------------------------------------------------------
(* The invariant *)

(* A connection is counted once for each prompt it was sent. *)
CopiesCount ==
  \A r \in Requests, c \in Clients : copies[r][c] = IF c \in deliveredTo[r] THEN 1 ELSE 0

(* Nothing comes up from a client that is away, and what a client says     *)
(* before it is authenticated starts with its hello.                       *)
HelloFirst ==
  \A c \in Clients :
    /\ c \notin connected => up[c] = <<>>
    /\ c \in connected => c \in authed \/ (up[c] # <<>> /\ Head(up[c]) = Hello)

Inv == PromptSafety /\ CopiesCount /\ HelloFirst

LEMMA HelloIsNoOther ==
  /\ Hello.type = "hello" /\ Hello \in Frames
  /\ \A s \in Sessions : Sub(s) \in Frames
  /\ \A r \in Requests : Response(r) \in Frames
BY DEF Hello, Sub, Response, Frames

LEMMA FramesHold ==
  ASSUME NEW f \in Frames
  PROVE  /\ f.type = "sub" => f.session \in Sessions
         /\ f.type = "response" => f.request \in Requests
<1>1. CASE f = Hello
  BY <1>1 DEF Hello
<1>2. ASSUME NEW s \in Sessions, f = Sub(s)
      PROVE f.type = "sub" /\ f.session \in Sessions
  BY <1>2 DEF Sub
<1>3. ASSUME NEW r \in Requests, f = Response(r)
      PROVE f.type = "response" /\ f.request \in Requests
  BY <1>3 DEF Response
<1>. QED BY <1>1, <1>2, <1>3, HelloIsNoOther DEF Frames

(* A frame that is taken off the line leaves a line. *)
LEMMA LineTaken ==
  ASSUME TypeOK, NEW c \in Clients, up[c] # <<>>, up' = [up EXCEPT ![c] = Tail(@)]
  PROVE  up' \in [Clients -> Seq(Frames)] /\ Head(up[c]) \in Frames
<1>1. up \in [Clients -> Seq(Frames)] /\ up[c] \in Seq(Frames)
  BY DEF TypeOK
<1>2. Tail(up[c]) \in Seq(Frames) /\ Head(up[c]) \in Frames
  BY <1>1
<1>. QED BY <1>1, <1>2

-----------------------------------------------------------------------------
(* The replay to one client *)

LEMMA ReplayKept ==
  ASSUME Inv, NEW c \in Clients, NEW subs \in SUBSET Sessions, subscribed[c] \subseteq subs,
         ReplayPendingTo(c, subs), authed' = authed \cup {c},
         subscribed' = [subscribed EXCEPT ![c] = subs],
         UNCHANGED <<parent, state, sessionOf, eligible, connected, app, drops>>,
         up' \in [Clients -> Seq(Frames)]
  PROVE  PromptSafety' /\ CopiesCount'
<1>. DEFINE rs == {r \in Requests : /\ state[r] = "pending"
                                    /\ c \notin deliveredTo[r]
                                    /\ Eligible(c, r, subs)}
<1>1. TypeOK /\ EligibleWereAsked /\ AskedMayAnswer /\ AgentsAreNeverAsked /\ CopiesCount
  BY DEF Inv, PromptSafety
<1>2. /\ down' = [down EXCEPT ![c] = @ \o SetToSeq(rs)]
      /\ deliveredTo' = [r \in Requests |-> deliveredTo[r] \cup IF r \in rs THEN {c} ELSE {}]
      /\ copies' = [r \in Requests |-> [copies[r] EXCEPT ![c] = @ + IF r \in rs THEN 1 ELSE 0]]
  BY DEF ReplayPendingTo, Deliver
<1>3. SetToSeq(rs) \in Seq(Requests) /\ (rs = {} => SetToSeq(rs) = <<>>)
  BY SetToSeqIsSeq, RequestsAssumption
<1>4. \A r \in rs : state[r] = "pending" /\ c \notin deliveredTo[r] /\ Eligible(c, r, subs)
  OBVIOUS
<1>5. \A r \in Requests \ rs : state[r] = "pending" /\ Eligible(c, r, subs) => c \in deliveredTo[r]
  OBVIOUS
<1>6. rs \subseteq Requests
  OBVIOUS
<1>. HIDE DEF rs
<1>7. deliveredTo' \in [Requests -> SUBSET Clients]
  BY <1>1, <1>2 DEF TypeOK
<1>8. CopiesCount' /\ copies' \in [Requests -> [Clients -> 0..1]]
  <2>1. ASSUME NEW r \in Requests, NEW d \in Clients
        PROVE  copies'[r][d] = IF d \in deliveredTo'[r] THEN 1 ELSE 0
    <3>1. copies[r] \in [Clients -> 0..1] /\ copies[r][d] = IF d \in deliveredTo[r] THEN 1 ELSE 0
      BY <1>1 DEF TypeOK, CopiesCount
    <3>2. copies'[r][d] = IF d = c /\ r \in rs THEN copies[r][d] + 1 ELSE copies[r][d]
      BY <1>2, <3>1
    <3>3. d \in deliveredTo'[r] <=> d \in deliveredTo[r] \/ (d = c /\ r \in rs)
      BY <1>2
    <3>. QED BY <1>4, <3>1, <3>2, <3>3
  <2>2. DOMAIN copies' = Requests /\ \A r \in Requests : DOMAIN copies'[r] = Clients
    BY <1>1, <1>2 DEF TypeOK
  <2>3. ASSUME NEW r \in Requests PROVE copies'[r] \in [Clients -> 0..1]
    <3>1. copies'[r] = [d \in Clients |-> copies'[r][d]]
      BY <1>1, <1>2 DEF TypeOK
    <3>2. \A d \in Clients : copies'[r][d] \in 0..1
      BY <2>1
    <3>. QED BY <3>1, <3>2
  <2>4. copies' = [r \in Requests |-> copies'[r]]
    BY <1>2
  <2>. QED BY <2>1, <2>3, <2>4 DEF CopiesCount
<1>9. down' \in [Clients -> Seq(Requests)]
  <2>1. down[c] \in Seq(Requests)
    BY <1>1 DEF TypeOK
  <2>2. down[c] \o SetToSeq(rs) \in Seq(Requests)
    BY <1>3, <2>1
  <2>. QED BY <1>1, <1>2, <2>2 DEF TypeOK
<1>10. TypeOK'
  BY <1>1, <1>7, <1>8, <1>9 DEF TypeOK, app
<1>11. EligibleWereAsked'
  <2>1. ASSUME NEW r \in Requests, NEW d \in authed', Pending(r)', Eligible(d, r, subscribed[d])'
        PROVE  d \in deliveredTo'[r]
    <3>1. d \in Clients /\ Pending(r) /\ Eligible(d, r, subscribed'[d])
      BY <1>1, <2>1 DEF TypeOK, Pending, Eligible
    <3>2. CASE d = c
      <4>1. Eligible(c, r, subs)
        BY <1>1, <3>1, <3>2 DEF TypeOK
      <4>. QED BY <1>2, <1>5, <3>1, <3>2, <4>1 DEF Pending
    <3>3. CASE d # c
      <4>1. d \in authed /\ Eligible(d, r, subscribed[d])
        BY <1>1, <3>1, <3>3 DEF TypeOK
      <4>. QED BY <1>1, <1>2, <3>1, <4>1 DEF EligibleWereAsked
    <3>. QED BY <3>2, <3>3
  <2>. QED BY <2>1 DEF EligibleWereAsked
<1>12. AskedMayAnswer'
  <2>1. ASSUME NEW r \in Requests, NEW d \in Clients, Pending(r)', d \in deliveredTo'[r]
        PROVE  d \in authed' /\ Eligible(d, r, subscribed[d])'
    <3>1. Pending(r) /\ (d \in deliveredTo[r] \/ (d = c /\ r \in rs))
      BY <1>2, <2>1 DEF Pending
    <3>2. CASE d \in deliveredTo[r]
      <4>1. d \in authed /\ Eligible(d, r, subscribed[d]) /\ subscribed[d] \subseteq subscribed'[d]
        BY <1>1, <3>1, <3>2 DEF AskedMayAnswer, TypeOK
      <4>. QED BY <4>1 DEF Eligible
    <3>3. CASE d = c /\ r \in rs
      <4>1. Eligible(c, r, subs) /\ subscribed'[c] = subs
        BY <1>1, <1>4, <3>3 DEF TypeOK
      <4>. QED BY <3>3, <4>1 DEF Eligible
    <3>. QED BY <3>1, <3>2, <3>3
  <2>. QED BY <2>1 DEF AskedMayAnswer
<1>13. AgentsAreNeverAsked'
  <2>1. ASSUME NEW a \in Agents PROVE shown'[a] = {} /\ down'[a] = <<>>
    <3>1. shown[a] = {} /\ down[a] = <<>> /\ a \in Clients
      BY <1>1, AgentsAssumption DEF AgentsAreNeverAsked
    <3>2. CASE a = c
      <4>1. rs = {}
        BY <1>4, <3>2 DEF Eligible
      <4>2. down'[a] = <<>> \o <<>>
        BY <1>1, <1>2, <1>3, <3>1, <3>2, <4>1 DEF TypeOK
      <4>. QED BY <3>1, <4>2 DEF app
    <3>3. CASE a # c
      BY <1>1, <1>2, <3>1, <3>3 DEF TypeOK, app
    <3>. QED BY <3>2, <3>3
  <2>. QED BY <2>1 DEF AgentsAreNeverAsked
<1>. QED BY <1>8, <1>10, <1>11, <1>12, <1>13 DEF PromptSafety

-----------------------------------------------------------------------------
(* The audience: those who are asked are those who may answer. *)

LEMMA NearestIsWatched ==
  ASSUME TypeOK, NEW s \in Sessions
  PROVE  /\ NearestWatched(s) \subseteq Sessions
         /\ \A t \in NearestWatched(s) : Watchers(t) # {}
         /\ Watchers(s) # {} => s \in NearestWatched(s)
<1>1. s \in Line(s)
  BY DEF Line
<1>2. Line(s) \subseteq Sessions
  BY DEF Line
<1>. QED BY <1>1, <1>2 DEF NearestWatched, Watched

LEMMA AudienceIsEligible ==
  ASSUME TypeOK, NEW s \in Sessions \cup {NoSession}
  PROVE  /\ Audience(s).targets \subseteq authed \cap Humans
         /\ Audience(s).eligible \in {Everyone} \cup SUBSET Sessions
         /\ \A c \in authed :
              c \in Audience(s).targets <=>
                c \notin Agents /\ (Audience(s).eligible = Everyone
                                    \/ Audience(s).eligible \cap subscribed[c] # {})
<1>. DEFINE near == NearestWatched(s)
<1>1. authed \subseteq Clients
  BY DEF TypeOK
<1>2. CASE s = NoSession \/ near = {}
  <2>1. Audience(s).targets = authed \cap Humans /\ Audience(s).eligible = Everyone
    BY <1>2 DEF Audience, AskEverybody
  <2>. QED BY <1>1, <2>1 DEF Humans
<1>3. CASE ~(s = NoSession \/ near = {})
  <2>1. /\ Audience(s).targets = UNION {Watchers(at) : at \in near}
        /\ Audience(s).eligible = {s} \cup near
    BY <1>3 DEF Audience
  <2>2. s \in Sessions /\ near \subseteq Sessions /\ (Watchers(s) # {} => s \in near)
    BY <1>3, NearestIsWatched
  <2>3. Audience(s).eligible # Everyone
    BY <2>1, <2>2, SessionsAssumption DEF SessionsAssumption, Everyone, NoSession
  <2>4. ASSUME NEW c, NEW t \in {s} \cup near, c \in Watchers(t) PROVE c \in Audience(s).targets
    <3>1. t \in near
      BY <2>2, <2>4
    <3>. QED BY <2>1, <2>4, <3>1
  <2>. HIDE DEF near
  <2>5. Audience(s).targets \subseteq authed \cap Humans
    BY <2>1 DEF Watchers
  <2>6. ASSUME NEW c \in authed
        PROVE  c \in Audience(s).targets <=>
                 c \notin Agents /\ Audience(s).eligible \cap subscribed[c] # {}
    <3>1. ASSUME c \in Audience(s).targets
          PROVE  c \notin Agents /\ Audience(s).eligible \cap subscribed[c] # {}
      <4>1. PICK t \in near : c \in Watchers(t)
        BY <2>1, <3>1
      <4>. QED BY <2>1, <4>1 DEF Watchers, Humans
    <3>2. ASSUME c \notin Agents, Audience(s).eligible \cap subscribed[c] # {}
          PROVE  c \in Audience(s).targets
      <4>1. PICK t \in {s} \cup near : t \in subscribed[c]
        BY <2>1, <3>2
      <4>2. c \in Watchers(t)
        BY <1>1, <3>2, <4>1 DEF Watchers, Humans
      <4>. QED BY <2>4, <4>2
    <3>. QED BY <3>1, <3>2
  <2>7. Audience(s).eligible \in SUBSET Sessions
    BY <2>1, <2>2
  <2>. QED BY <2>3, <2>5, <2>6, <2>7
<1>. QED BY <1>2, <1>3

-----------------------------------------------------------------------------
(* Each action keeps the invariant. *)

LEMMA AskKept ==
  ASSUME Inv, NEW r \in Requests, NEW s \in Sessions \cup {NoSession}, AskDevice(r, s)
  PROVE  Inv'
<1>. DEFINE targets == Audience(s).targets
            who == Audience(s).eligible
<1>1. TypeOK /\ EligibleWereAsked /\ AskedMayAnswer /\ AgentsAreNeverAsked /\ CopiesCount /\ HelloFirst
  BY DEF Inv, PromptSafety
<1>2. /\ targets \subseteq authed \cap Humans
      /\ who \in {Everyone} \cup SUBSET Sessions
      /\ \A c \in authed : c \in targets <=>
           c \notin Agents /\ (who = Everyone \/ who \cap subscribed[c] # {})
  BY <1>1, AudienceIsEligible
<1>3. /\ sessionOf' = [sessionOf EXCEPT ![r] = s]
      /\ eligible' = [eligible EXCEPT ![r] = who]
      /\ down' = [c \in Clients |-> down[c] \o IF c \in targets THEN <<r>> ELSE <<>>]
      /\ deliveredTo' = [deliveredTo EXCEPT ![r] = targets]
      /\ copies' = [copies EXCEPT ![r] = [c \in Clients |-> IF c \in targets THEN 1 ELSE 0]]
      /\ UNCHANGED <<server, connected, up, app, drops>>
  BY DEF AskDevice
<1>4. PICK woken \in BOOLEAN :
        state' = [state EXCEPT ![r] = IF targets # {} \/ woken THEN "pending" ELSE "refused"]
  BY DEF AskDevice
<1>. HIDE DEF targets, who
<1>5. authed \subseteq Clients /\ UNCHANGED <<authed, subscribed, parent, shown, opened, responded>>
  BY <1>1, <1>3 DEF TypeOK, server, app
<1>6. down' \in [Clients -> Seq(Requests)]
  <2>1. ASSUME NEW c \in Clients PROVE down'[c] \in Seq(Requests)
    <3>1. down[c] \in Seq(Requests)
      BY <1>1 DEF TypeOK
    <3>2. <<r>> \in Seq(Requests) /\ <<>> \in Seq(Requests)
      OBVIOUS
    <3>3. down'[c] = down[c] \o IF c \in targets THEN <<r>> ELSE <<>>
      BY <1>3
    <3>. QED BY <3>1, <3>2, <3>3
  <2>2. down' = [c \in Clients |-> down'[c]]
    BY <1>3
  <2>. QED BY <2>1, <2>2
<1>7. state' \in [Requests -> States]
  BY <1>1, <1>4 DEF TypeOK, States
<1>8. copies' \in [Requests -> [Clients -> 0..1]] /\ deliveredTo' \in [Requests -> SUBSET Clients]
  BY <1>1, <1>2, <1>3, <1>5 DEF TypeOK
<1>9. eligible' \in [Requests -> {Everyone} \cup SUBSET Sessions]
  BY <1>1, <1>2, <1>3 DEF TypeOK
<1>10. TypeOK'
  BY <1>1, <1>3, <1>5, <1>6, <1>7, <1>8, <1>9 DEF TypeOK
<1>11. CopiesCount'
  BY <1>1, <1>3 DEF CopiesCount, TypeOK
<1>12. EligibleWereAsked'
  <2>1. ASSUME NEW q \in Requests, NEW c \in authed, Pending(q)', Eligible(c, q, subscribed[c])'
        PROVE  c \in deliveredTo'[q]
    <3>1. CASE q = r
      <4>1. eligible'[q] = who /\ deliveredTo'[q] = targets
        BY <1>1, <1>3, <3>1 DEF TypeOK
      <4>. QED BY <1>2, <1>5, <2>1, <4>1 DEF Eligible
    <3>2. CASE q # r
      <4>1. Pending(q) /\ Eligible(c, q, subscribed[c]) /\ deliveredTo'[q] = deliveredTo[q]
        BY <1>1, <1>3, <1>4, <1>5, <2>1, <3>2 DEF TypeOK, Pending, Eligible
      <4>. QED BY <1>1, <4>1 DEF EligibleWereAsked
    <3>. QED BY <3>1, <3>2
  <2>. QED BY <1>5, <2>1 DEF EligibleWereAsked
<1>13. AskedMayAnswer'
  <2>1. ASSUME NEW q \in Requests, NEW c \in Clients, Pending(q)', c \in deliveredTo'[q]
        PROVE  c \in authed /\ Eligible(c, q, subscribed[c])'
    <3>1. CASE q = r
      <4>1. eligible'[q] = who /\ deliveredTo'[q] = targets
        BY <1>1, <1>3, <3>1 DEF TypeOK
      <4>. QED BY <1>2, <1>5, <2>1, <4>1 DEF Eligible
    <3>2. CASE q # r
      <4>1. Pending(q) /\ c \in deliveredTo[q] /\ eligible'[q] = eligible[q]
        BY <1>1, <1>3, <1>4, <2>1, <3>2 DEF TypeOK, Pending
      <4>. QED BY <1>1, <1>5, <4>1 DEF AskedMayAnswer, Eligible
    <3>. QED BY <3>1, <3>2
  <2>. QED BY <1>5, <2>1 DEF AskedMayAnswer
<1>14. AgentsAreNeverAsked'
  <2>1. ASSUME NEW a \in Agents PROVE shown'[a] = {} /\ down'[a] = <<>>
    <3>1. shown[a] = {} /\ down[a] = <<>> /\ a \in Clients /\ a \notin targets
      BY <1>1, <1>2, AgentsAssumption DEF AgentsAreNeverAsked, Humans
    <3>2. down'[a] = <<>> \o <<>>
      BY <1>3, <3>1
    <3>. QED BY <1>5, <3>1, <3>2
  <2>. QED BY <2>1 DEF AgentsAreNeverAsked
<1>15. HelloFirst'
  BY <1>1, <1>3, <1>5 DEF HelloFirst
<1>. QED BY <1>10, <1>11, <1>12, <1>13, <1>14, <1>15 DEF Inv, PromptSafety

(* What leaves the audience alone, and settles prompts at most, keeps the  *)
(* four parts about prompts.                                               *)
LEMMA PromptsKept ==
  ASSUME Inv, UNCHANGED <<authed, subscribed, eligible, deliveredTo, copies>>,
         \A r \in Requests : Pending(r)' => Pending(r),
         \A a \in Agents : shown'[a] = {} /\ down'[a] = <<>>
  PROVE  EligibleWereAsked' /\ AskedMayAnswer' /\ AgentsAreNeverAsked' /\ CopiesCount'
<1>1. EligibleWereAsked /\ AskedMayAnswer /\ CopiesCount
  BY DEF Inv, PromptSafety
<1>2. EligibleWereAsked'
  BY <1>1 DEF EligibleWereAsked, Eligible
<1>3. AskedMayAnswer'
  BY <1>1 DEF AskedMayAnswer, Eligible
<1>. QED BY <1>1, <1>2, <1>3 DEF AgentsAreNeverAsked, CopiesCount

LEMMA AgentsKept ==
  ASSUME Inv, UNCHANGED <<shown, down>>
  PROVE  \A a \in Agents : shown'[a] = {} /\ down'[a] = <<>>
BY DEF Inv, PromptSafety, AgentsAreNeverAsked

LEMMA TimeoutKept ==
  ASSUME Inv, NEW r \in Requests, Timeout(r)
  PROVE  Inv'
<1>1. TypeOK /\ HelloFirst
  BY DEF Inv, PromptSafety
<1>2. TypeOK'
  BY <1>1 DEF Timeout, TypeOK, States, server, app
<1>3. HelloFirst'
  BY <1>1 DEF Timeout, HelloFirst, server
<1>4. \A q \in Requests : Pending(q)' => Pending(q)
  BY <1>1 DEF Timeout, Pending, TypeOK
<1>5. UNCHANGED <<authed, subscribed, eligible, deliveredTo, copies, shown, down>>
  BY DEF Timeout, server, app
<1>. QED BY <1>2, <1>3, <1>4, <1>5, PromptsKept, AgentsKept DEF Inv, PromptSafety

LEMMA ResponseKept ==
  ASSUME Inv, NEW c \in Clients, HandleResponse(c)
  PROVE  Inv'
<1>1. TypeOK /\ HelloFirst
  BY DEF Inv, PromptSafety
<1>2. /\ up[c] # <<>> /\ Head(up[c]).type = "response"
      /\ up' = [up EXCEPT ![c] = Tail(@)]
      /\ UNCHANGED <<server, sessionOf, eligible, deliveredTo, copies, connected, down, app, drops>>
  BY DEF HandleResponse
<1>3. up' \in [Clients -> Seq(Frames)] /\ Head(up[c]) # Hello
  BY <1>1, <1>2, LineTaken, HelloIsNoOther
<1>4. state' \in [Requests -> States] /\ \A q \in Requests : Pending(q)' => Pending(q)
  BY <1>1 DEF HandleResponse, TypeOK, States, Pending
<1>5. TypeOK'
  BY <1>1, <1>2, <1>3, <1>4 DEF TypeOK, server, app
<1>6. HelloFirst'
  <2>1. ASSUME NEW d \in Clients
        PROVE  /\ d \notin connected' => up'[d] = <<>>
               /\ d \in connected' => d \in authed' \/ (up'[d] # <<>> /\ Head(up'[d]) = Hello)
    <3>1. CASE d = c
      BY <1>1, <1>2, <1>3, <3>1 DEF HelloFirst, server
    <3>2. CASE d # c
      BY <1>1, <1>2, <3>2 DEF HelloFirst, server, TypeOK
    <3>. QED BY <3>1, <3>2
  <2>. QED BY <2>1 DEF HelloFirst
<1>7. UNCHANGED <<authed, subscribed, eligible, deliveredTo, copies, shown, down>>
  BY <1>2 DEF server, app
<1>. QED BY <1>4, <1>5, <1>6, <1>7, PromptsKept, AgentsKept DEF Inv, PromptSafety

(* Taking a frame from a client that is authenticated afterwards. *)
LEMMA LineKept ==
  ASSUME Inv, NEW c \in Clients, c \in authed', authed \subseteq authed', UNCHANGED connected,
         up[c] # <<>>, up' = [up EXCEPT ![c] = Tail(@)]
  PROVE  HelloFirst'
<1>1. TypeOK /\ HelloFirst
  BY DEF Inv, PromptSafety
<1>2. ASSUME NEW d \in Clients
      PROVE  /\ d \notin connected' => up'[d] = <<>>
             /\ d \in connected' => d \in authed' \/ (up'[d] # <<>> /\ Head(up'[d]) = Hello)
  <2>1. CASE d = c
    BY <1>1, <2>1 DEF HelloFirst
  <2>2. CASE d # c
    BY <1>1, <2>2 DEF HelloFirst, TypeOK
  <2>. QED BY <2>1, <2>2
<1>. QED BY <1>2 DEF HelloFirst

LEMMA SubKept ==
  ASSUME Inv, NEW c \in Clients, HandleSub(c)
  PROVE  Inv'
<1>. DEFINE subs == subscribed[c] \cup {Head(up[c]).session}
<1>1. TypeOK /\ HelloFirst
  BY DEF Inv, PromptSafety
<1>2. /\ up[c] # <<>> /\ Head(up[c]).type = "sub"
      /\ subscribed' = [subscribed EXCEPT ![c] = subs]
      /\ ReplayPendingTo(c, subscribed'[c])
      /\ up' = [up EXCEPT ![c] = Tail(@)]
      /\ UNCHANGED <<parent, authed, state, sessionOf, eligible, connected, app, drops>>
  BY DEF HandleSub
<1>3. up' \in [Clients -> Seq(Frames)] /\ Head(up[c]) \in Frames
  BY <1>1, <1>2, LineTaken
<1>4. subs \in SUBSET Sessions /\ subscribed'[c] = subs
  BY <1>1, <1>2, <1>3, FramesHold DEF TypeOK
<1>5. c \in authed
  BY <1>1, <1>2, HelloIsNoOther DEF HelloFirst
<1>6. PromptSafety' /\ CopiesCount'
  BY <1>2, <1>3, <1>4, <1>5, ReplayKept
<1>7. HelloFirst'
  BY <1>2, <1>5, LineKept
<1>. QED BY <1>6, <1>7 DEF Inv

LEMMA HelloKept ==
  ASSUME Inv, NEW c \in Clients, HandleHello(c)
  PROVE  Inv'
<1>1. TypeOK
  BY DEF Inv, PromptSafety
<1>2. /\ up[c] # <<>> /\ authed' = authed \cup {c}
      /\ ReplayPendingTo(c, subscribed[c])
      /\ up' = [up EXCEPT ![c] = Tail(@)]
      /\ UNCHANGED <<parent, subscribed, state, sessionOf, eligible, connected, app, drops>>
  BY DEF HandleHello
<1>3. up' \in [Clients -> Seq(Frames)]
  BY <1>1, <1>2, LineTaken
<1>4. subscribed[c] \in SUBSET Sessions /\ subscribed' = [subscribed EXCEPT ![c] = subscribed[c]]
  BY <1>1, <1>2 DEF TypeOK
<1>5. PromptSafety' /\ CopiesCount'
  BY <1>2, <1>3, <1>4, ReplayKept
<1>6. HelloFirst'
  BY <1>2, LineKept
<1>. QED BY <1>5, <1>6 DEF Inv

LEMMA ConnectKept ==
  ASSUME Inv, NEW c \in Clients, Connect(c)
  PROVE  Inv'
<1>. DEFINE subs == SetToSeq(opened[c])
            frames == [i \in DOMAIN subs |-> Sub(subs[i])]
<1>1. TypeOK /\ HelloFirst
  BY DEF Inv, PromptSafety
<1>2. /\ connected' = connected \cup {c}
      /\ up' = [up EXCEPT ![c] = <<Hello>> \o frames]
      /\ UNCHANGED <<server, rpc, down, app, drops>>
  BY DEF Connect
<1>3. subs \in Seq(Sessions)
  BY <1>1, SetToSeqIsSeq, SessionsAssumption DEF TypeOK
<1>4. frames \in Seq(Frames)
  <2>. HIDE DEF subs
  <2>1. DOMAIN subs = 1..Len(subs) /\ Len(subs) \in Nat
    BY <1>3
  <2>2. \A i \in DOMAIN subs : Sub(subs[i]) \in Frames
    BY <1>3, HelloIsNoOther
  <2>. QED BY <2>1, <2>2
<1>. HIDE DEF frames
<1>5. <<Hello>> \o frames \in Seq(Frames) /\ Head(<<Hello>> \o frames) = Hello /\ <<Hello>> \o frames # <<>>
  BY <1>4, HelloIsNoOther
<1>6. TypeOK'
  BY <1>1, <1>2, <1>5 DEF TypeOK, server, rpc, app
<1>7. HelloFirst'
  <2>1. ASSUME NEW d \in Clients
        PROVE  /\ d \notin connected' => up'[d] = <<>>
               /\ d \in connected' => d \in authed' \/ (up'[d] # <<>> /\ Head(up'[d]) = Hello)
    <3>1. CASE d = c
      <4>1. up'[d] = <<Hello>> \o frames
        BY <1>1, <1>2, <3>1 DEF TypeOK
      <4>. QED BY <1>2, <1>5, <3>1, <4>1
    <3>2. CASE d # c
      BY <1>1, <1>2, <3>2 DEF HelloFirst, TypeOK, server
    <3>. QED BY <3>1, <3>2
  <2>. QED BY <2>1 DEF HelloFirst
<1>8. UNCHANGED <<authed, subscribed, state, eligible, deliveredTo, copies, shown, down>>
  BY <1>2 DEF server, rpc, app
<1>9. \A r \in Requests : Pending(r)' => Pending(r)
  BY <1>8 DEF Pending
<1>. QED BY <1>6, <1>7, <1>8, <1>9, PromptsKept, AgentsKept DEF Inv, PromptSafety

LEMMA DisconnectKept ==
  ASSUME Inv, NEW c \in Clients, Disconnect(c)
  PROVE  Inv'
<1>1. TypeOK /\ EligibleWereAsked /\ AskedMayAnswer /\ AgentsAreNeverAsked /\ CopiesCount /\ HelloFirst
  BY DEF Inv, PromptSafety
<1>2. /\ connected' = connected \ {c} /\ drops < MaxDrops /\ drops' = drops + 1
      /\ authed' = authed \ {c} /\ subscribed' = [subscribed EXCEPT ![c] = {}]
      /\ deliveredTo' = [r \in Requests |-> deliveredTo[r] \ {c}]
      /\ copies' = [r \in Requests |-> [copies[r] EXCEPT ![c] = 0]]
      /\ up' = [up EXCEPT ![c] = <<>>] /\ down' = [down EXCEPT ![c] = <<>>]
      /\ UNCHANGED <<parent, state, sessionOf, eligible, opened, shown, responded>>
  BY DEF Disconnect, app
<1>3. drops' \in 0..MaxDrops
  BY <1>1, <1>2, BoundsAssumption DEF TypeOK
<1>4. copies' \in [Requests -> [Clients -> 0..1]] /\ deliveredTo' \in [Requests -> SUBSET Clients]
  BY <1>1, <1>2 DEF TypeOK
<1>5. TypeOK'
  BY <1>1, <1>2, <1>3, <1>4 DEF TypeOK
<1>6. CopiesCount'
  BY <1>1, <1>2 DEF CopiesCount, TypeOK
<1>7. EligibleWereAsked'
  BY <1>1, <1>2 DEF EligibleWereAsked, Eligible, Pending, TypeOK
<1>8. AskedMayAnswer'
  BY <1>1, <1>2 DEF AskedMayAnswer, Eligible, Pending, TypeOK
<1>9. AgentsAreNeverAsked'
  BY <1>1, <1>2, AgentsAssumption DEF AgentsAreNeverAsked, TypeOK
<1>10. HelloFirst'
  BY <1>1, <1>2 DEF HelloFirst, TypeOK
<1>. QED BY <1>5, <1>6, <1>7, <1>8, <1>9, <1>10 DEF Inv, PromptSafety

(* What an app sends is kept behind its hello, or swallowed. *)
LEMMA SendKept ==
  ASSUME TypeOK, HelloFirst, NEW c \in Clients, NEW f \in Frames, Send(c, f),
         UNCHANGED <<connected, authed>>
  PROVE  up' \in [Clients -> Seq(Frames)] /\ HelloFirst'
<1>1. up \in [Clients -> Seq(Frames)] /\ up[c] \in Seq(Frames)
  BY DEF TypeOK
<1>2. CASE c \in connected
  <2>1. up' = [up EXCEPT ![c] = Append(@, f)]
    BY <1>2 DEF Send
  <2>2. Append(up[c], f) \in Seq(Frames) /\ Append(up[c], f) # <<>>
    BY <1>1
  <2>3. up[c] # <<>> => Head(Append(up[c], f)) = Head(up[c])
    BY <1>1
  <2>4. ASSUME NEW d \in Clients
        PROVE  /\ d \notin connected' => up'[d] = <<>>
               /\ d \in connected' => d \in authed' \/ (up'[d] # <<>> /\ Head(up'[d]) = Hello)
    <3>1. CASE d = c
      <4>1. up'[d] = Append(up[c], f)
        BY <1>1, <2>1, <3>1
      <4>. QED BY <1>2, <2>2, <2>3, <3>1, <4>1 DEF HelloFirst
    <3>2. CASE d # c
      <4>1. up'[d] = up[d]
        BY <1>1, <2>1, <3>2
      <4>. QED BY <4>1 DEF HelloFirst
    <3>. QED BY <3>1, <3>2
  <2>. QED BY <1>1, <2>1, <2>2, <2>4 DEF HelloFirst
<1>3. CASE c \notin connected
  BY <1>1, <1>3 DEF Send, HelloFirst
<1>. QED BY <1>2, <1>3

LEMMA AppKept ==
  ASSUME Inv, NEW c \in Clients,
         \/ \E s \in Sessions : OpenSession(c, s)
         \/ \E r \in Requests : RespondTo(c, r)
         \/ ReceiveRequest(c)
  PROVE  Inv'
<1>1. TypeOK /\ HelloFirst /\ AgentsAreNeverAsked
  BY DEF Inv, PromptSafety
<1>2. ASSUME NEW s \in Sessions, OpenSession(c, s) PROVE Inv'
  <2>1. /\ opened' = [opened EXCEPT ![c] = @ \cup {s}] /\ Send(c, Sub(s))
        /\ UNCHANGED <<server, rpc, connected, down, shown, responded, drops>>
    BY <1>2 DEF OpenSession
  <2>2. up' \in [Clients -> Seq(Frames)] /\ HelloFirst'
    BY <1>1, <2>1, SendKept, HelloIsNoOther DEF server
  <2>3. TypeOK'
    BY <1>1, <2>1, <2>2 DEF TypeOK, server, rpc
  <2>4. \A r \in Requests : Pending(r)' => Pending(r)
    BY <2>1 DEF Pending, rpc
  <2>. QED BY <2>1, <2>2, <2>3, <2>4, PromptsKept, AgentsKept DEF Inv, PromptSafety, server, rpc
<1>3. ASSUME NEW r \in Requests, RespondTo(c, r) PROVE Inv'
  <2>1. /\ responded' = [responded EXCEPT ![c] = @ \cup {r}] /\ Send(c, Response(r))
        /\ UNCHANGED <<server, rpc, connected, down, opened, shown, drops>>
    BY <1>3 DEF RespondTo
  <2>2. up' \in [Clients -> Seq(Frames)] /\ HelloFirst'
    BY <1>1, <2>1, SendKept, HelloIsNoOther DEF server
  <2>3. TypeOK'
    BY <1>1, <2>1, <2>2 DEF TypeOK, server, rpc
  <2>4. \A q \in Requests : Pending(q)' => Pending(q)
    BY <2>1 DEF Pending, rpc
  <2>. QED BY <2>1, <2>2, <2>3, <2>4, PromptsKept, AgentsKept DEF Inv, PromptSafety, server, rpc
<1>4. CASE ReceiveRequest(c)
  <2>1. /\ down[c] # <<>> /\ shown' = [shown EXCEPT ![c] = @ \cup {Head(down[c])}]
        /\ down' = [down EXCEPT ![c] = Tail(@)]
        /\ UNCHANGED <<server, rpc, connected, up, opened, responded, drops>>
    BY <1>4 DEF ReceiveRequest
  <2>2. down \in [Clients -> Seq(Requests)] /\ down[c] \in Seq(Requests)
    BY <1>1 DEF TypeOK
  <2>3. Head(down[c]) \in Requests /\ Tail(down[c]) \in Seq(Requests)
    BY <2>1, <2>2
  <2>4. TypeOK'
    BY <1>1, <2>1, <2>3 DEF TypeOK, server, rpc
  <2>5. HelloFirst'
    BY <1>1, <2>1 DEF HelloFirst, server
  <2>6. \A r \in Requests : Pending(r)' => Pending(r)
    BY <2>1 DEF Pending, rpc
  <2>7. ASSUME NEW a \in Agents PROVE shown'[a] = {} /\ down'[a] = <<>>
    <3>1. shown[a] = {} /\ down[a] = <<>> /\ a \in Clients
      BY <1>1, AgentsAssumption DEF AgentsAreNeverAsked
    <3>2. a # c
      BY <2>1, <3>1
    <3>. QED BY <1>1, <2>1, <3>1, <3>2 DEF TypeOK
  <2>. QED BY <2>1, <2>4, <2>5, <2>6, <2>7, PromptsKept DEF Inv, PromptSafety, server, rpc
<1>. QED BY <1>2, <1>3, <1>4

LEMMA InitInv == Init => Inv
<1>. SUFFICES ASSUME Init PROVE Inv
  OBVIOUS
<1>1. TypeOK
  BY BoundsAssumption DEF Init, TypeOK, States
<1>2. EligibleWereAsked /\ AskedMayAnswer /\ CopiesCount
  BY DEF Init, EligibleWereAsked, AskedMayAnswer, CopiesCount, Pending
<1>3. AgentsAreNeverAsked
  BY AgentsAssumption DEF Init, AgentsAreNeverAsked
<1>4. HelloFirst
  BY DEF Init, HelloFirst
<1>. QED BY <1>1, <1>2, <1>3, <1>4 DEF Inv, PromptSafety

LEMMA StepKept ==
  ASSUME Inv, [Next]_vars
  PROVE  Inv'
<1>1. CASE UNCHANGED vars
  <2>1. UNCHANGED <<parent, authed, subscribed, state, sessionOf, eligible, deliveredTo, copies, connected,
                    up, down, opened, shown, responded, drops>>
    BY <1>1 DEF vars, server, rpc, app
  <2>2. TypeOK' /\ HelloFirst'
    BY <2>1 DEF Inv, PromptSafety, TypeOK, HelloFirst
  <2>3. \A r \in Requests : Pending(r)' => Pending(r)
    BY <2>1 DEF Pending
  <2>. QED BY <2>1, <2>2, <2>3, PromptsKept, AgentsKept DEF Inv, PromptSafety
<1>2. ASSUME NEW r \in Requests, NEW s \in Sessions \cup {NoSession}, AskDevice(r, s) PROVE Inv'
  BY <1>2, AskKept
<1>3. ASSUME NEW r \in Requests, Timeout(r) PROVE Inv'
  BY <1>3, TimeoutKept
<1>4. ASSUME NEW c \in Clients, Serve(c) PROVE Inv'
  BY <1>4, HelloKept, SubKept, ResponseKept, ConnectKept, AppKept DEF Serve, HandleEnvelope
<1>5. ASSUME NEW c \in Clients, Disconnect(c) PROVE Inv'
  BY <1>5, DisconnectKept
<1>6. ASSUME NEW c \in Clients,
             (\E s \in Sessions : OpenSession(c, s)) \/ (\E r \in Requests : RespondTo(c, r))
      PROVE Inv'
  BY <1>6, AppKept
<1>. QED BY <1>1, <1>2, <1>3, <1>4, <1>5, <1>6 DEF Next

(* Whoever may answer a pending prompt has been sent it, once, and whoever  *)
(* was sent it may answer it; no agent is ever asked: over any lineage, any *)
(* loss of connections and any order of hellos, subscriptions and answers   *)
(* (ws/reverse_rpc.ts).                                                     *)
THEOREM PromptsAreAlwaysSafe == Spec => []PromptSafety
<1>1. Inv /\ [Next]_vars => Inv'
  BY StepKept
<1>2. Inv => PromptSafety
  BY DEF Inv
<1>. QED BY InitInv, <1>1, <1>2, PTL DEF Spec

-----------------------------------------------------------------------------
(* Induction over the numbers *)

(* A set of numbers has a least one. *)
LEMMA NatMin ==
  ASSUME NEW T, T \subseteq Nat, T # {}
  PROVE  \E x \in T : \A y \in T : ~(y < x)
<1>. DEFINE R == OpToRel(<, Nat)
<1>1. IsWellFoundedOn(R, Nat)
  BY NatLessThanWellFounded
<1>2. \A x, y \in Nat : x < y => <<x, y>> \in R
  BY DEF OpToRel
<1>. HIDE DEF R
<1>3. \E x \in T : \A y \in T : ~(<<y, x>> \in R)
  BY <1>1, WFMin
<1>. QED BY <1>2, <1>3

(* Induction, for a set instead of a predicate. *)
LEMMA NatInd ==
  ASSUME NEW S, 0 \in S, \A n \in Nat : n \in S => n + 1 \in S
  PROVE  Nat \subseteq S
<1>1. SUFFICES ASSUME Nat \ S # {} PROVE FALSE
  OBVIOUS
<1>2. PICK n \in Nat \ S : \A y \in Nat \ S : ~(y < n)
  BY <1>1, NatMin
<1>3. n # 0 /\ n - 1 \in Nat
  BY <1>2
<1>4. n - 1 \notin S
  BY <1>3
<1>. QED BY <1>2, <1>3, <1>4

(* The values f that start at a and are computed one from the other by G.  *)
Computes(G, V, a, N) == a \in V /\ N \in Nat /\ G \in [V \X (1 .. N) -> V]
IsRun(f, G, V, a, N) ==
  f \in [0 .. N -> V] /\ f[0] = a /\ \A n \in 1 .. N : f[n] = G[<<f[n - 1], n>>]

(* They exist. *)
LEMMA RunExists ==
  ASSUME NEW V, NEW a, NEW N, NEW G, Computes(G, V, a, N)
  PROVE  \E f : IsRun(f, G, V, a, N)
<1>0. a \in V /\ N \in Nat /\ G \in [V \X (1 .. N) -> V]
  BY DEF Computes
<1>. DEFINE Good(f, m) == /\ f \in [0 .. m -> V] /\ f[0] = a
                          /\ \A n \in 1 .. m : f[n] = G[<<f[n - 1], n>>]
            S == {m \in Nat : m <= N => \E f : Good(f, m)}
<1>1. 0 \in S
  <2>. DEFINE h == [n \in 0 .. 0 |-> a]
  <2>1. h \in [0 .. 0 -> V] /\ h[0] = a
    BY <1>0
  <2>. HIDE DEF h
  <2>2. Good(h, 0)
    BY <2>1
  <2>. QED BY <2>2
<1>2. ASSUME NEW m \in Nat, m \in S PROVE m + 1 \in S
  <2>. SUFFICES ASSUME m + 1 <= N PROVE \E f : Good(f, m + 1)
    OBVIOUS
  <2>1. PICK f : Good(f, m)
    BY <1>0, <1>2
  <2>. DEFINE g == [n \in 0 .. m + 1 |-> IF n = m + 1 THEN G[<<f[m], m + 1>>] ELSE f[n]]
  <2>2. f[m] \in V /\ <<f[m], m + 1>> \in V \X (1 .. N)
    BY <1>0, <2>1
  <2>3. G[<<f[m], m + 1>>] \in V
    BY <1>0, <2>2
  <2>4. g \in [0 .. m + 1 -> V] /\ g[0] = a
    BY <2>1, <2>3
  <2>5. \A n \in 0 .. m : g[n] = f[n]
    OBVIOUS
  <2>6. g[m + 1] = G[<<f[m], m + 1>>]
    OBVIOUS
  <2>. HIDE DEF g
  <2>7. ASSUME NEW n \in 1 .. m + 1 PROVE g[n] = G[<<g[n - 1], n>>]
    <3>1. CASE n = m + 1
      <4>1. g[n - 1] = f[m]
        BY <2>5, <3>1
      <4>. QED BY <2>6, <3>1, <4>1
    <3>2. CASE n # m + 1
      <4>1. n \in 1 .. m /\ n - 1 \in 0 .. m
        BY <3>2
      <4>2. f[n] = G[<<f[n - 1], n>>]
        BY <2>1, <4>1
      <4>. QED BY <2>5, <4>1, <4>2
    <3>. QED BY <3>1, <3>2
  <2>. QED BY <2>4, <2>7
<1>. HIDE DEF S
<1>3. N \in S
  BY <1>0, <1>1, <1>2, NatInd
<1>. QED BY <1>0, <1>3 DEF S, IsRun

-----------------------------------------------------------------------------
(* The line of a session *)

(* What is closed upwards holds the parents of what it holds. *)
ClosedUpwards(S) == \A u \in S : parent[u] \in S \cup {NoSession}

(* A line holds its session, is closed upwards, and is the least such set. *)
LEMMA LineIsLeast ==
  ASSUME TypeOK, NEW s \in Sessions
  PROVE  /\ s \in Line(s) /\ Line(s) \subseteq Sessions /\ ClosedUpwards(Line(s))
         /\ \A S \in SUBSET Sessions : s \in S /\ ClosedUpwards(S) => Line(s) \subseteq S
<1>1. s \in Line(s) /\ Line(s) \subseteq Sessions
  BY DEF Line
<1>2. \A S \in SUBSET Sessions : s \in S /\ ClosedUpwards(S) => Line(s) \subseteq S
  BY DEF Line, ClosedUpwards
<1>3. ASSUME NEW u \in Line(s), parent[u] # NoSession PROVE parent[u] \in Line(s)
  <2>1. u \in Sessions /\ parent[u] \in Sessions
    BY <1>1, <1>3 DEF TypeOK
  <2>2. ASSUME NEW S \in SUBSET Sessions, s \in S, \A v \in S : parent[v] \in S \cup {NoSession}
        PROVE  parent[u] \in S
    <3>1. u \in S
      BY <2>2 DEF Line
    <3>. QED BY <1>3, <2>2, <3>1
  <2>. QED BY <2>1, <2>2 DEF Line
<1>. QED BY <1>1, <1>2, <1>3 DEF ClosedUpwards

(* The line of what is on a line is part of it. *)
LEMMA LineOfLine ==
  ASSUME TypeOK, NEW s \in Sessions, NEW t \in Line(s)
  PROVE  Line(t) \subseteq Line(s)
BY LineIsLeast

(* Beyond the session itself its line is the parent's. *)
LEMMA LineOfParent ==
  ASSUME TypeOK, NEW s \in Sessions, NEW t \in Line(s), t # s
  PROVE  parent[s] \in Sessions /\ t \in Line(parent[s])
<1>1. CASE parent[s] = NoSession
  <2>1. ClosedUpwards({s})
    BY <1>1 DEF ClosedUpwards
  <2>. QED BY <2>1, LineIsLeast
<1>2. CASE parent[s] # NoSession
  <2>1. parent[s] \in Sessions
    BY <1>2 DEF TypeOK
  <2>. DEFINE S == {s} \cup Line(parent[s])
  <2>2. S \in SUBSET Sessions /\ s \in S /\ parent[s] \in S
    BY <2>1, LineIsLeast
  <2>3. ClosedUpwards(Line(parent[s]))
    BY <2>1, LineIsLeast
  <2>4. ClosedUpwards(S)
    BY <2>2, <2>3 DEF ClosedUpwards
  <2>5. Line(s) \subseteq S
    BY <2>2, <2>4, LineIsLeast
  <2>. QED BY <2>1, <2>5
<1>. QED BY <1>1, <1>2

(* Of two sessions only one is above the other. *)
LEMMA LinesDoNotCycle ==
  ASSUME TypeOK, Acyclic(parent), NEW s \in Sessions, NEW t \in Line(s), s \in Line(t)
  PROVE  s = t
<1>. SUFFICES ASSUME s # t PROVE FALSE
  OBVIOUS
<1>. DEFINE S == {u \in Line(s) : s \in Line(u)}
<1>1. s \in Line(s) /\ Line(s) \subseteq Sessions /\ ClosedUpwards(Line(s))
  BY LineIsLeast
<1>2. ASSUME NEW u \in S, u # s PROVE parent[u] \in S
  <2>1. u \in Sessions /\ s \in Line(u)
    BY <1>1
  <2>2. parent[u] \in Sessions /\ s \in Line(parent[u])
    BY <1>2, <2>1, LineOfParent
  <2>3. parent[u] \in Line(s) \cup {NoSession}
    BY <1>1 DEF ClosedUpwards
  <2>. QED BY <2>2, <2>3, SessionsAssumption DEF NoSession
<1>3. parent[s] \in S
  <2>1. parent[s] \in Sessions /\ t \in Line(parent[s])
    BY LineOfParent
  <2>2. s \in Line(parent[s])
    BY <2>1, LineOfLine
  <2>3. parent[s] \in Line(s) \cup {NoSession}
    BY <1>1 DEF ClosedUpwards
  <2>. QED BY <2>1, <2>2, <2>3, SessionsAssumption DEF NoSession
<1>4. S \in (SUBSET Sessions) \ {{}}
  BY <1>1
<1>5. \A u \in S : parent[u] \in S
  BY <1>2, <1>3
<1>. HIDE DEF S
<1>. QED BY <1>4, <1>5 DEF Acyclic

-----------------------------------------------------------------------------
(* The climb *)

Top == Cardinality(Sessions)

(* The climb goes from each session to its parent. *)
LEMMA ClimbSteps ==
  ASSUME TypeOK, NEW s \in Sessions \cup {NoSession}
  PROVE  /\ Top \in Nat /\ Climb(s) \in [0..Top -> Sessions \cup {NoSession}]
         /\ Climb(s)[0] = s
         /\ \A k \in 1..Top :
              Climb(s)[k] = IF Climb(s)[k - 1] = NoSession THEN NoSession ELSE parent[Climb(s)[k - 1]]
<1>. DEFINE V == Sessions \cup {NoSession}
            Up(x) == IF x = NoSession THEN NoSession ELSE parent[x]
            Body(f, k) == IF k = 0 THEN s ELSE IF f[k - 1] = NoSession THEN NoSession ELSE parent[f[k - 1]]
            at == CHOOSE f : f = [k \in 0..Top |-> Body(f, k)]
            G == [p \in V \X (1..Top) |-> Up(p[1])]
<1>1. Climb(s) = at
  BY DEF Climb, Top
<1>2. Top \in Nat
  BY SessionsAssumption, FS_CardinalityType DEF Top
<1>3. \A x \in V : Up(x) \in V
  BY DEF TypeOK
<1>4. s \in V /\ G \in [V \X (1..Top) -> V]
  BY <1>3
<1>5. \A v \in V, k \in 1..Top : G[<<v, k>>] = Up(v)
  OBVIOUS
<1>. HIDE DEF G, V, Top
<1>6. PICK f : IsRun(f, G, V, s, Top)
  BY <1>2, <1>4, RunExists DEF Computes
<1>7. /\ f \in [0..Top -> V] /\ f[0] = s
      /\ \A k \in 1..Top : f[k - 1] \in V /\ f[k] = Up(f[k - 1])
  <2>1. ASSUME NEW k \in 1..Top PROVE f[k - 1] \in V /\ f[k] = Up(f[k - 1])
    <3>1. k - 1 \in 0..Top
      BY <1>2
    <3>. QED BY <1>5, <1>6, <3>1 DEF IsRun
  <2>. QED BY <1>6, <2>1 DEF IsRun
<1>8. f = [k \in 0..Top |-> Body(f, k)]
  <2>1. ASSUME NEW k \in 0..Top PROVE f[k] = Body(f, k)
    <3>1. CASE k = 0
      BY <1>7, <3>1
    <3>2. CASE k # 0
      <4>1. k \in 1..Top
        BY <1>2, <3>2
      <4>. QED BY <1>7, <3>2, <4>1
    <3>. QED BY <3>1, <3>2
  <2>. QED BY <1>7, <2>1
<1>9. at = [k \in 0..Top |-> Body(at, k)]
  BY <1>8
<1>. HIDE DEF at
<1>10. at[0] = s /\ \A k \in 1..Top : at[k] = Up(at[k - 1])
  <2>1. \A k \in 0..Top : at[k] = Body(at, k)
    BY <1>9
  <2>2. 0 \in 0..Top /\ \A k \in 1..Top : k \in 0..Top /\ k # 0
    BY <1>2
  <2>. QED BY <2>1, <2>2
<1>. DEFINE S == {k \in Nat : k <= Top => at[k] \in V}
<1>11. 0 \in S
  BY <1>4, <1>10
<1>12. ASSUME NEW k \in Nat, k \in S PROVE k + 1 \in S
  <2>. SUFFICES ASSUME k + 1 <= Top PROVE at[k + 1] \in V
    OBVIOUS
  <2>1. at[k] \in V /\ k + 1 \in 1..Top /\ (k + 1) - 1 = k
    BY <1>2, <1>12
  <2>2. at[k + 1] = Up(at[k])
    BY <1>10, <2>1
  <2>. QED BY <1>3, <2>1, <2>2
<1>. HIDE DEF S
<1>13. Nat \subseteq S
  BY <1>11, <1>12, NatInd
<1>14. \A k \in 0..Top : at[k] \in V
  BY <1>2, <1>13 DEF S
<1>15. DOMAIN at = 0..Top /\ at = [k \in 0..Top |-> at[k]]
  <2>1. at = [k \in DOMAIN at |-> at[k]]
    BY <1>9
  <2>2. DOMAIN at = 0..Top
    BY <1>9
  <2>. QED BY <2>1, <2>2
<1>16. at \in [0..Top -> V]
  BY <1>14, <1>15
<1>. QED BY <1>1, <1>2, <1>10, <1>16 DEF V

(* It meets the sessions of the line and no other, each after those below it. *)
LEMMA ClimbIsLine ==
  ASSUME TypeOK, Acyclic(parent), NEW s \in Sessions
  PROVE  /\ \A k \in 0..Top : Climb(s)[k] # NoSession => Climb(s)[k] \in Line(s)
         /\ \A t \in Line(s) : \E k \in 0..Top : Climb(s)[k] = t
         /\ \A j, k \in 0..Top : j <= k /\ Climb(s)[k] # NoSession => Climb(s)[k] \in Line(Climb(s)[j])
<1>. DEFINE at == Climb(s)
<1>1. /\ Top \in Nat /\ at \in [0..Top -> Sessions \cup {NoSession}] /\ at[0] = s
      /\ \A k \in 1..Top : at[k] = IF at[k - 1] = NoSession THEN NoSession ELSE parent[at[k - 1]]
  BY ClimbSteps
<1>. HIDE DEF at
<1>2. NoSession \notin Sessions
  BY SessionsAssumption DEF NoSession
<1>3. ASSUME NEW j \in 0..Top, NEW k \in 0..Top, j <= k, at[k] # NoSession
      PROVE  at[j] \in Sessions /\ at[k] \in Line(at[j])
  <2>. DEFINE S == {n \in Nat : j + n <= Top /\ at[j + n] # NoSession =>
                                  at[j] \in Sessions /\ at[j + n] \in Line(at[j])}
  <2>1. 0 \in S
    <3>. SUFFICES ASSUME at[j] # NoSession PROVE at[j] \in Sessions /\ at[j] \in Line(at[j])
      BY <1>1
    <3>1. at[j] \in Sessions
      BY <1>1
    <3>. QED BY <3>1, LineIsLeast
  <2>2. ASSUME NEW n \in Nat, n \in S PROVE n + 1 \in S
    <3>. SUFFICES ASSUME j + (n + 1) <= Top, at[j + (n + 1)] # NoSession
                  PROVE  at[j] \in Sessions /\ at[j + (n + 1)] \in Line(at[j])
      OBVIOUS
    <3>1. j + n \in 0..Top /\ j + (n + 1) \in 1..Top /\ (j + (n + 1)) - 1 = j + n /\ j + n <= Top
      BY <1>1
    <3>2. at[j + n] # NoSession /\ at[j + (n + 1)] = parent[at[j + n]]
      BY <1>1, <3>1
    <3>3. at[j] \in Sessions /\ at[j + n] \in Line(at[j])
      BY <2>2, <3>1, <3>2
    <3>4. ClosedUpwards(Line(at[j]))
      BY <3>3, LineIsLeast
    <3>5. parent[at[j + n]] \in Line(at[j])
      BY <3>2, <3>3, <3>4 DEF ClosedUpwards
    <3>. QED BY <3>2, <3>3, <3>5
  <2>. HIDE DEF S
  <2>3. Nat \subseteq S
    BY <2>1, <2>2, NatInd
  <2>4. k - j \in Nat /\ j + (k - j) = k /\ k <= Top
    BY <1>1, <1>3
  <2>5. k - j \in S
    BY <2>3, <2>4
  <2>. QED BY <1>3, <2>4, <2>5 DEF S
<1>4. \A k \in 0..Top : at[k] # NoSession => at[k] \in Line(s)
  <2>1. 0 \in 0..Top /\ \A k \in 0..Top : 0 <= k
    BY <1>1
  <2>. QED BY <1>1, <1>3, <2>1
<1>5. at[Top] = NoSession
  (* Each step up leaves a session behind: the line gets shorter.           *)
  <2>. DEFINE S == {n \in Nat : n <= Top /\ at[n] # NoSession =>
                                  IsFiniteSet(Line(at[n])) /\ Cardinality(Line(at[n])) <= Top - n}
  <2>1. 0 \in S
    <3>1. Line(s) \in SUBSET Sessions
      BY LineIsLeast
    <3>2. IsFiniteSet(Line(s)) /\ Cardinality(Line(s)) <= Top
      BY <3>1, SessionsAssumption, FS_Subset DEF Top
    <3>. QED BY <1>1, <3>2
  <2>2. ASSUME NEW n \in Nat, n \in S PROVE n + 1 \in S
    <3>. SUFFICES ASSUME n + 1 <= Top, at[n + 1] # NoSession
                  PROVE  /\ IsFiniteSet(Line(at[n + 1]))
                         /\ Cardinality(Line(at[n + 1])) <= Top - (n + 1)
      OBVIOUS
    <3>1. n \in 0..Top /\ n + 1 \in 1..Top /\ n + 1 \in 0..Top /\ (n + 1) - 1 = n /\ n <= Top
      BY <1>1
    <3>2. at[n] # NoSession /\ at[n + 1] = parent[at[n]]
      BY <1>1, <3>1
    <3>. DEFINE u == at[n]
                v == at[n + 1]
    <3>3. u \in Sessions /\ v \in Sessions /\ v = parent[u]
      BY <1>1, <3>1, <3>2
    <3>4. IsFiniteSet(Line(u)) /\ Cardinality(Line(u)) <= Top - n
      BY <2>2, <3>1, <3>2
    <3>. HIDE DEF u, v
    <3>5. u \in Line(u) /\ v \in Line(u)
      BY <1>2, <3>3, LineIsLeast DEF ClosedUpwards
    <3>6. u \notin Line(v)
      <4>. SUFFICES ASSUME u \in Line(v) PROVE FALSE
        OBVIOUS
      <4>1. u = v
        BY <3>3, <3>5, LinesDoNotCycle
      <4>2. {u} \in (SUBSET Sessions) \ {{}}
        BY <3>3
      <4>. QED BY <3>3, <4>1, <4>2 DEF Acyclic
    <3>7. Line(v) \subseteq Line(u) \ {u}
      BY <3>3, <3>5, <3>6, LineOfLine
    <3>8. IsFiniteSet(Line(u) \ {u}) /\ Cardinality(Line(u) \ {u}) = Cardinality(Line(u)) - 1
      BY <3>4, <3>5, FS_RemoveElement
    <3>9. IsFiniteSet(Line(v)) /\ Cardinality(Line(v)) <= Cardinality(Line(u) \ {u})
      BY <3>7, <3>8, FS_Subset
    <3>10. Cardinality(Line(v)) \in Nat /\ Cardinality(Line(u)) \in Nat
      BY <3>4, <3>9, FS_CardinalityType
    <3>11. Cardinality(Line(v)) <= Top - (n + 1)
      BY <1>1, <3>4, <3>8, <3>9, <3>10
    <3>. QED BY <3>9, <3>11 DEF v
  <2>. HIDE DEF S
  <2>3. Top \in S
    BY <1>1, <2>1, <2>2, NatInd
  <2>4. SUFFICES ASSUME at[Top] # NoSession PROVE FALSE
    OBVIOUS
  <2>. DEFINE L == Line(at[Top])
  <2>5. IsFiniteSet(L) /\ Cardinality(L) <= 0
    BY <1>1, <2>3, <2>4 DEF S
  <2>6. at[Top] \in L
    <3>1. at[Top] \in Sessions
      BY <1>1, <2>4
    <3>. QED BY <3>1, LineIsLeast
  <2>. HIDE DEF L
  <2>7. Cardinality(L) \in Nat
    BY <2>5, FS_CardinalityType
  <2>8. L = {}
    BY <2>5, <2>7, FS_EmptySet
  <2>. QED BY <2>6, <2>8
<1>6. ASSUME NEW t \in Line(s) PROVE \E k \in 0..Top : at[k] = t
  <2>. DEFINE S == {u \in Sessions : \E k \in 0..Top : at[k] = u}
  <2>1. s \in S
    BY <1>1
  <2>2. ASSUME NEW u \in S, parent[u] # NoSession PROVE parent[u] \in S
    <3>1. PICK k \in 0..Top : at[k] = u
      OBVIOUS
    <3>2. u \in Sessions /\ u # NoSession
      BY <1>2
    <3>3. k # Top
      BY <1>5, <3>1, <3>2
    <3>4. k + 1 \in 1..Top /\ k + 1 \in 0..Top /\ (k + 1) - 1 = k
      BY <1>1, <3>3
    <3>5. at[k + 1] = parent[u]
      BY <1>1, <3>1, <3>2, <3>4
    <3>6. parent[u] \in Sessions
      BY <2>2, <3>2 DEF TypeOK
    <3>. QED BY <3>4, <3>5, <3>6
  <2>3. ClosedUpwards(S) /\ S \in SUBSET Sessions
    BY <2>2 DEF ClosedUpwards
  <2>4. Line(s) \subseteq S
    BY <2>1, <2>3, LineIsLeast
  <2>. QED BY <2>4
<1>. QED BY <1>3, <1>4, <1>6 DEF at

-----------------------------------------------------------------------------
(* Who is asked *)

(* The nearest watched session is the first one the climb meets. *)
LEMMA NearestIsFirst ==
  ASSUME TypeOK, Acyclic(parent), NEW s \in Sessions,
         NEW m \in 0..Top, Climb(s)[m] # NoSession, Watchers(Climb(s)[m]) # {},
         \A k \in 0..Top : Climb(s)[k] # NoSession /\ Watchers(Climb(s)[k]) # {} => m <= k
  PROVE  NearestWatched(s) = {Climb(s)[m]}
<1>. DEFINE at == Climb(s)
<1>1. /\ \A k \in 0..Top : at[k] # NoSession => at[k] \in Line(s)
      /\ \A t \in Line(s) : \E k \in 0..Top : at[k] = t
      /\ \A j, k \in 0..Top : j <= k /\ at[k] # NoSession => at[k] \in Line(at[j])
  BY ClimbIsLine
<1>2. NoSession \notin Sessions /\ Line(s) \subseteq Sessions
  BY SessionsAssumption, LineIsLeast DEF NoSession
<1>3. /\ m \in 0..Top /\ at[m] # NoSession /\ Watchers(at[m]) # {}
      /\ \A k \in 0..Top : at[k] # NoSession /\ Watchers(at[k]) # {} => m <= k
  OBVIOUS
<1>. HIDE DEF at
<1>4. at[m] \in Watched(s) /\ at[m] \in Sessions
  BY <1>1, <1>2, <1>3 DEF Watched
<1>5. ASSUME NEW t \in Watched(s) PROVE t \in Line(at[m]) /\ t \in Sessions
  <2>1. t \in Line(s) /\ Watchers(t) # {}
    BY DEF Watched
  <2>2. PICK k \in 0..Top : at[k] = t
    BY <1>1, <2>1
  <2>3. at[k] # NoSession /\ Watchers(at[k]) # {}
    BY <1>2, <2>1, <2>2
  <2>4. m <= k
    BY <1>3, <2>3
  <2>. QED BY <1>1, <1>2, <2>1, <2>2, <2>3, <2>4
<1>6. at[m] \in NearestWatched(s)
  BY <1>4, <1>5 DEF NearestWatched
<1>7. ASSUME NEW t \in NearestWatched(s) PROVE t = at[m]
  <2>1. t \in Watched(s) /\ at[m] \in Line(t)
    BY <1>4 DEF NearestWatched
  <2>. QED BY <1>4, <1>5, <2>1, LinesDoNotCycle
<1>. QED BY <1>6, <1>7 DEF at

(* When the climb meets no watched session there is none on the line.       *)
LEMMA NobodyIsNearest ==
  ASSUME TypeOK, Acyclic(parent), NEW s \in Sessions,
         \A k \in 0..Top : Climb(s)[k] # NoSession => Watchers(Climb(s)[k]) = {}
  PROVE  NearestWatched(s) = {}
<1>1. \A t \in Line(s) : Watchers(t) = {}
  <2>. SUFFICES ASSUME NEW t \in Line(s) PROVE Watchers(t) = {}
    OBVIOUS
  <2>1. PICK k \in 0..Top : Climb(s)[k] = t
    BY ClimbIsLine
  <2>2. t \in Sessions
    BY LineIsLeast
  <2>. QED BY <2>1, <2>2, SessionsAssumption DEF NoSession
<1>. QED BY <1>1 DEF NearestWatched, Watched

(* The sets of AskDevice and the climb choose the same audience.            *)
LEMMA AskingIsNearest ==
  ASSUME TypeOK, Acyclic(parent), NEW r \in Requests, NEW s \in Sessions \cup {NoSession}, AskDevice(r, s)
  PROVE  AsksNearest(r)
<1>. DEFINE at == Climb(s)
            watched == {k \in DOMAIN at : at[k] # NoSession /\ Watchers(at[k]) # {}}
            first == CHOOSE k \in watched : \A j \in watched : k <= j
<1>1. sessionOf'[r] = s /\ deliveredTo'[r] = Audience(s).targets
  BY DEF AskDevice, TypeOK
<1>2. /\ Top \in Nat /\ at \in [0..Top -> Sessions \cup {NoSession}] /\ at[0] = s
      /\ \A k \in 1..Top : at[k] = IF at[k - 1] = NoSession THEN NoSession ELSE parent[at[k - 1]]
  BY ClimbSteps
<1>3. watched \subseteq 0..Top /\ watched \subseteq Nat
  BY <1>2
<1>4. CASE s = NoSession
  <2>. DEFINE S == {k \in Nat : k <= Top => at[k] = NoSession}
  <2>. HIDE DEF at
  <2>1. 0 \in S
    BY <1>2, <1>4
  <2>2. ASSUME NEW k \in Nat, k \in S PROVE k + 1 \in S
    <3>. SUFFICES ASSUME k + 1 <= Top PROVE at[k + 1] = NoSession
      OBVIOUS
    <3>1. k + 1 \in 1..Top /\ (k + 1) - 1 = k /\ k <= Top
      BY <1>2
    <3>. QED BY <1>2, <2>2, <3>1
  <2>. HIDE DEF S
  <2>3. Nat \subseteq S
    BY <2>1, <2>2, NatInd
  <2>4. \A k \in 0..Top : at[k] = NoSession
    BY <1>2, <2>3 DEF S
  <2>5. watched = {}
    BY <1>2, <2>4
  <2>6. Audience(s).targets = authed \cap Humans
    BY <1>4 DEF Audience, AskEverybody
  <2>. QED BY <1>1, <2>5, <2>6 DEF AsksNearest, at
<1>5. CASE s \in Sessions /\ watched = {}
  <2>1. \A k \in 0..Top : at[k] # NoSession => Watchers(at[k]) = {}
    BY <1>2, <1>5
  <2>2. NearestWatched(s) = {}
    BY <1>5, <2>1, NobodyIsNearest
  <2>3. Audience(s).targets = authed \cap Humans
    BY <2>2 DEF Audience, AskEverybody
  <2>. QED BY <1>1, <1>5, <2>3 DEF AsksNearest
<1>6. CASE s \in Sessions /\ watched # {}
  <2>1. PICK x \in watched : \A y \in watched : ~(y < x)
    BY <1>3, <1>6, NatMin
  <2>2. \A y \in watched : x <= y
    BY <1>3, <2>1
  <2>3. first \in watched /\ \A y \in watched : first <= y
    BY <2>1, <2>2
  <2>. HIDE DEF first
  <2>4. /\ first \in 0..Top /\ at[first] # NoSession /\ Watchers(at[first]) # {}
        /\ \A k \in 0..Top : at[k] # NoSession /\ Watchers(at[k]) # {} => first <= k
    BY <1>2, <2>3
  <2>5. NearestWatched(s) = {at[first]}
    BY <1>6, <2>4, NearestIsFirst
  <2>6. Audience(s).targets = UNION {Watchers(t) : t \in {at[first]}}
    BY <1>6, <2>5, SessionsAssumption DEF Audience, NoSession
  <2>7. Audience(s).targets = Watchers(at[first])
    BY <2>6
  <2>. QED BY <1>1, <1>6, <2>7 DEF AsksNearest, first
<1>. QED BY <1>4, <1>5, <1>6

(* Nothing but asking makes a new request anything else. *)
LEMMA OnlyAskingAsks ==
  ASSUME TypeOK, [Next]_vars, NEW r \in Requests, state[r] = "new", state'[r] # "new"
  PROVE  \E s \in Sessions \cup {NoSession} : AskDevice(r, s)
<1>1. ~UNCHANGED state /\ state \in [Requests -> States]
  BY DEF TypeOK
<1>2. ASSUME NEW q \in Requests, NEW s \in Sessions \cup {NoSession}, AskDevice(q, s)
      PROVE  q = r
  BY <1>1, <1>2 DEF AskDevice
<1>3. ASSUME NEW q \in Requests, Timeout(q) PROVE FALSE
  BY <1>1, <1>3 DEF Timeout
<1>4. ASSUME NEW c \in Clients, Serve(c) PROVE FALSE
  <2>1. CASE HandleResponse(c)
    BY <1>1, <2>1 DEF HandleResponse
  <2>. QED BY <1>1, <1>4, <2>1
       DEF Serve, HandleEnvelope, HandleHello, HandleSub, Connect, ReceiveRequest, rpc
<1>5. ASSUME NEW c \in Clients, Disconnect(c) PROVE FALSE
  BY <1>1, <1>5 DEF Disconnect
<1>6. ASSUME NEW c \in Clients, NEW s \in Sessions, OpenSession(c, s) PROVE FALSE
  BY <1>1, <1>6 DEF OpenSession, rpc
<1>7. ASSUME NEW c \in Clients, NEW q \in Requests, RespondTo(c, q) PROVE FALSE
  BY <1>1, <1>7 DEF RespondTo, rpc
<1>8. CASE UNCHANGED vars
  BY <1>1, <1>8 DEF vars, rpc
<1>. QED BY <1>2, <1>3, <1>4, <1>5, <1>6, <1>7, <1>8 DEF Next

(* The lineage is given. *)
LEMMA LineageStays == [Next]_vars => UNCHANGED parent
BY DEF Next, vars, server, AskDevice, Timeout, Serve, HandleEnvelope, HandleHello, HandleSub, HandleResponse,
       Connect, ReceiveRequest, Disconnect, OpenSession, RespondTo

(* A prompt goes to the humans who watch its session or, when nobody does,  *)
(* its nearest ancestor that somebody watches, and to everybody only when   *)
(* there is none, in lineages of any depth (ReverseRpc.resolveAudience).    *)
THEOREM NearestWatchersAreAlwaysAsked == Spec => NearestWatchersAreAsked
<1>1. Init => Acyclic(parent)
  BY DEF Init
<1>2. Acyclic(parent) /\ [Next]_vars => Acyclic(parent)'
  BY LineageStays DEF Acyclic
<1>3. Inv /\ Acyclic(parent) /\ [Next]_vars
        => [\A r \in Requests : state[r] = "new" /\ state'[r] # "new" => AsksNearest(r)]_vars
  <2>. SUFFICES ASSUME Inv, Acyclic(parent), [Next]_vars,
                       NEW r \in Requests, state[r] = "new", state'[r] # "new"
                PROVE  AsksNearest(r)
    OBVIOUS
  <2>1. TypeOK
    BY DEF Inv, PromptSafety
  <2>2. PICK s \in Sessions \cup {NoSession} : AskDevice(r, s)
    BY <2>1, OnlyAskingAsks
  <2>. QED BY <2>1, <2>2, AskingIsNearest
<1>. QED BY <1>1, <1>2, <1>3, InitInv, StepKept, PTL DEF Spec, NearestWatchersAreAsked

(* A prompt goes to the nearest humans who watch, and everybody who may     *)
(* answer it has been sent it, once, and nobody else: over any lineage, any *)
(* loss of connections and any order of hellos, subscriptions and answers   *)
(* (ws/reverse_rpc.ts).                                                     *)
THEOREM PromptsAreAlwaysRouted == Spec => PromptRouting
BY PromptsAreAlwaysSafe, NearestWatchersAreAlwaysAsked DEF PromptRouting

-----------------------------------------------------------------------------
(* A prompt is on its way to whoever has its session open *)

(* A human who has the session of a pending prompt open was shown it, or it *)
(* is on the line down, or the app has yet to connect, or its hello or its  *)
(* subscription is on the line up.                                          *)
NoPromptIsForgotten ==
  \A c \in Humans, r \in Requests :
    Pending(r) /\ sessionOf[r] \in opened[c] =>
      \/ r \in shown[c] \/ Contains(down[c], r)
      \/ c \notin connected \/ Contains(up[c], Hello) \/ Contains(up[c], Sub(sessionOf[r]))

(* Beside it: a connected app has subscribed to what it has open, or is     *)
(* about to; what was delivered is on the line or was shown; and whoever    *)
(* has a prompt's session open may answer it.                               *)
Subscribes == \A c \in connected : \A s \in opened[c] : s \in subscribed[c] \/ Contains(up[c], Sub(s))
Arrives == \A r \in Requests : \A c \in deliveredTo[r] : r \in shown[c] \/ Contains(down[c], r)
ItsSessionMayAnswer ==
  \A r \in Requests : sessionOf[r] # NoSession => eligible[r] = Everyone \/ sessionOf[r] \in eligible[r]

OnTheWay == Subscribes /\ Arrives /\ ItsSessionMayAnswer

LEMMA ContainsEither ==
  ASSUME NEW T, NEW s \in Seq(T), NEW t \in Seq(T), NEW x
  PROVE  Contains(s \o t, x) <=> Contains(s, x) \/ Contains(t, x)
<1>0. /\ Len(s) \in Nat /\ Len(t) \in Nat /\ Len(s \o t) = Len(s) + Len(t)
      /\ \A i \in 1 .. Len(s) : (s \o t)[i] = s[i]
      /\ \A i \in 1 .. Len(t) : (s \o t)[Len(s) + i] = t[i]
  OBVIOUS
<1>1. ASSUME NEW i \in 1 .. Len(s) + Len(t), (s \o t)[i] = x PROVE Contains(s, x) \/ Contains(t, x)
  <2>1. CASE i \in 1 .. Len(s)
    BY <1>0, <1>1, <2>1 DEF Contains
  <2>2. CASE i \notin 1 .. Len(s)
    <3>1. i - Len(s) \in 1 .. Len(t) /\ Len(s) + (i - Len(s)) = i
      BY <1>0, <2>2
    <3>2. t[i - Len(s)] = x
      BY <1>0, <1>1, <3>1
    <3>. QED BY <3>1, <3>2 DEF Contains
  <2>. QED BY <2>1, <2>2
<1>2. ASSUME NEW i \in 1 .. Len(s), s[i] = x PROVE Contains(s \o t, x)
  <2>1. i \in 1 .. Len(s \o t) /\ (s \o t)[i] = x
    BY <1>0, <1>2
  <2>. QED BY <2>1 DEF Contains
<1>3. ASSUME NEW i \in 1 .. Len(t), t[i] = x PROVE Contains(s \o t, x)
  <2>1. Len(s) + i \in 1 .. Len(s \o t) /\ (s \o t)[Len(s) + i] = x
    BY <1>0, <1>3
  <2>. QED BY <2>1 DEF Contains
<1>4. Contains(s \o t, x) => \E i \in 1 .. Len(s) + Len(t) : (s \o t)[i] = x
  BY <1>0 DEF Contains
<1>. QED BY <1>1, <1>2, <1>3, <1>4 DEF Contains

LEMMA ContainsAlone ==
  ASSUME NEW x
  PROVE  Contains(<<x>>, x)
BY DEF Contains

LEMMA ContainsAppended ==
  ASSUME NEW T, NEW s \in Seq(T), NEW f \in T, NEW x
  PROVE  Contains(Append(s, f), x) <=> Contains(s, x) \/ f = x
<1>1. /\ Len(s) \in Nat /\ Len(Append(s, f)) = Len(s) + 1 /\ Append(s, f)[Len(s) + 1] = f
      /\ \A i \in 1 .. Len(s) : Append(s, f)[i] = s[i]
  OBVIOUS
<1>2. 1 .. Len(s) + 1 = 1 .. Len(s) \cup {Len(s) + 1}
  BY <1>1
<1>. QED BY <1>1, <1>2 DEF Contains

(* What is taken off a line was its head. *)
LEMMA ContainsRest ==
  ASSUME NEW T, NEW s \in Seq(T), s # <<>>, NEW x, Contains(s, x), x # Head(s)
  PROVE  Contains(Tail(s), x)
<1>1. PICK i \in 1 .. Len(s) : s[i] = x
  BY DEF Contains
<1>2. Len(s) \in Nat /\ Head(s) = s[1] /\ Len(Tail(s)) = Len(s) - 1
      /\ \A j \in 1 .. Len(Tail(s)) : Tail(s)[j] = s[j + 1]
  OBVIOUS
<1>3. i - 1 \in 1 .. Len(Tail(s)) /\ (i - 1) + 1 = i
  BY <1>1, <1>2
<1>. QED BY <1>1, <1>2, <1>3 DEF Contains

LEMMA SetToSeqHasAll ==
  ASSUME NEW T, IsFiniteSet(T), NEW S \in SUBSET T, NEW x \in S
  PROVE  Contains(SetToSeq(S), x)
<1>1. IsFiniteSet(S)
  BY FS_Subset
<1>. DEFINE n == Cardinality(S)
            f == SetToSeq(S)
<1>2. n \in Nat /\ ExistsBijection(1..n, S)
  BY <1>1, FS_CardinalityType
<1>3. \E g \in [1..n -> S] : IsInjective(g)
  BY <1>2 DEF ExistsBijection, Bijection, Injection, IsInjective
<1>4. f \in [1..n -> S] /\ IsInjective(f)
  BY <1>3 DEF SetToSeq
<1>5. f \in Injection(1..n, S)
  BY <1>4 DEF Injection, IsInjective
<1>6. Cardinality(1..n) = n
  BY <1>2, FS_Interval
<1>7. f \in Surjection(1..n, S)
  BY <1>1, <1>5, <1>6, FS_Injection
<1>8. PICK i \in 1..n : f[i] = x
  BY <1>7 DEF Surjection
<1>9. Len(f) = n
  BY <1>2, <1>4
<1>. QED BY <1>8, <1>9 DEF Contains

(* The three facts leave nobody out. *)
LEMMA NobodyIsLeftOut ==
  ASSUME Inv, OnTheWay
  PROVE  NoPromptIsForgotten
<1>. SUFFICES ASSUME NEW c \in Humans, NEW r \in Requests, Pending(r), sessionOf[r] \in opened[c],
                     c \in connected, ~Contains(up[c], Sub(sessionOf[r])), ~Contains(up[c], Hello)
              PROVE  r \in shown[c] \/ Contains(down[c], r)
  BY DEF NoPromptIsForgotten
<1>1. TypeOK /\ HelloFirst /\ EligibleWereAsked /\ c \in Clients /\ c \notin Agents
  BY DEF Inv, PromptSafety, Humans
<1>2. c \in authed
  <2>1. ASSUME up[c] # <<>>, Head(up[c]) = Hello PROVE Contains(up[c], Hello)
    <3>1. up[c] \in Seq(Frames)
      BY <1>1 DEF TypeOK
    <3>2. 1 \in 1 .. Len(up[c]) /\ up[c][1] = Hello
      BY <2>1, <3>1
    <3>. QED BY <3>2 DEF Contains
  <2>. QED BY <1>1, <2>1 DEF HelloFirst
<1>3. sessionOf[r] \in subscribed[c] /\ sessionOf[r] # NoSession
  BY <1>1, SessionsAssumption DEF OnTheWay, Subscribes, TypeOK, SessionsAssumption, NoSession
<1>4. Eligible(c, r, subscribed[c])
  BY <1>1, <1>3 DEF OnTheWay, ItsSessionMayAnswer, Eligible
<1>. QED BY <1>1, <1>2, <1>4 DEF EligibleWereAsked, OnTheWay, Arrives

(* A replay puts what it delivers on the line. *)
LEMMA ReplayArrives ==
  ASSUME TypeOK, Arrives, NEW c \in Clients, NEW subs, ReplayPendingTo(c, subs), UNCHANGED shown
  PROVE  Arrives'
<1>. DEFINE rs == {r \in Requests : /\ state[r] = "pending"
                                    /\ c \notin deliveredTo[r]
                                    /\ Eligible(c, r, subs)}
<1>1. /\ down' = [down EXCEPT ![c] = @ \o SetToSeq(rs)]
      /\ deliveredTo' = [r \in Requests |-> deliveredTo[r] \cup IF r \in rs THEN {c} ELSE {}]
  BY DEF ReplayPendingTo, Deliver
<1>2. rs \in SUBSET Requests
  OBVIOUS
<1>. HIDE DEF rs
<1>3. SetToSeq(rs) \in Seq(Requests) /\ \A r \in rs : Contains(SetToSeq(rs), r)
  BY <1>2, SetToSeqIsSeq, SetToSeqHasAll, RequestsAssumption DEF RequestsAssumption
<1>4. down \in [Clients -> Seq(Requests)] /\ deliveredTo \in [Requests -> SUBSET Clients]
  BY DEF TypeOK
<1>5. ASSUME NEW r \in Requests, NEW d \in deliveredTo'[r] PROVE r \in shown[d] \/ Contains(down'[d], r)
  <2>1. d \in Clients
    BY <1>1, <1>4, <1>5
  <2>2. CASE d = c
    <3>1. down'[d] = down[c] \o SetToSeq(rs) /\ down[c] \in Seq(Requests)
      BY <1>1, <1>4, <2>2
    <3>2. d \in deliveredTo[r] \/ r \in rs
      BY <1>1, <1>5
    <3>. QED BY <1>3, <2>2, <3>1, <3>2, ContainsEither DEF Arrives
  <2>3. CASE d # c
    BY <1>1, <1>4, <1>5, <2>3 DEF Arrives
  <2>. QED BY <2>2, <2>3
<1>. QED BY <1>5 DEF Arrives

(* Taking a frame off the line keeps the subscriptions behind it. *)
LEMMA TakenSubscribes ==
  ASSUME TypeOK, Subscribes, NEW c \in Clients, up[c] # <<>>, up' = [up EXCEPT ![c] = Tail(@)],
         UNCHANGED <<connected, opened>>,
         \A d \in Clients : subscribed[d] \subseteq subscribed'[d],
         \A s \in Sessions : Head(up[c]) = Sub(s) => s \in subscribed'[c]
  PROVE  Subscribes'
<1>1. up \in [Clients -> Seq(Frames)] /\ connected \subseteq Clients /\ opened \in [Clients -> SUBSET Sessions]
  BY DEF TypeOK
<1>2. ASSUME NEW d \in connected, NEW s \in opened[d] PROVE s \in subscribed'[d] \/ Contains(up'[d], Sub(s))
  <2>0. d \in Clients /\ s \in Sessions
    BY <1>1, <1>2
  <2>1. CASE s \in subscribed[d] \/ d # c
    BY <1>1, <2>0, <2>1 DEF Subscribes
  <2>2. CASE d = c /\ Contains(up[c], Sub(s))
    <3>1. up[c] \in Seq(Frames) /\ up'[c] = Tail(up[c])
      BY <1>1
    <3>2. CASE Head(up[c]) = Sub(s)
      BY <2>0, <2>2, <3>2
    <3>3. CASE Head(up[c]) # Sub(s)
      BY <2>2, <3>1, <3>3, ContainsRest
    <3>. QED BY <3>2, <3>3
  <2>. QED BY <1>2, <2>1, <2>2 DEF Subscribes
<1>. QED BY <1>2 DEF Subscribes

(* A prompt is asked of those the stored audience names. *)
LEMMA AskOnTheWay ==
  ASSUME Inv, OnTheWay, NEW r \in Requests, NEW s \in Sessions \cup {NoSession}, AskDevice(r, s)
  PROVE  OnTheWay'
<1>. DEFINE targets == Audience(s).targets
            who == Audience(s).eligible
<1>1. TypeOK /\ targets \subseteq authed \cap Humans
  BY AudienceIsEligible DEF Inv, PromptSafety
<1>2. /\ sessionOf' = [sessionOf EXCEPT ![r] = s]
      /\ eligible' = [eligible EXCEPT ![r] = who]
      /\ down' = [c \in Clients |-> down[c] \o IF c \in targets THEN <<r>> ELSE <<>>]
      /\ deliveredTo' = [deliveredTo EXCEPT ![r] = targets]
      /\ UNCHANGED <<subscribed, connected, up, opened, shown>>
  BY DEF AskDevice, server, app
<1>3. s # NoSession => who = Everyone \/ s \in who
  BY DEF Audience, AskEverybody
<1>. HIDE DEF targets, who
<1>4. ASSUME NEW q \in Requests, NEW c \in deliveredTo'[q] PROVE q \in shown[c] \/ Contains(down'[c], q)
  <2>1. c \in Clients /\ down[c] \in Seq(Requests) /\ <<r>> \in Seq(Requests) /\ <<>> \in Seq(Requests)
    <3>1. deliveredTo'[q] = (IF q = r THEN targets ELSE deliveredTo[q]) /\ targets \subseteq Clients
      BY <1>1, <1>2 DEF TypeOK
    <3>2. c \in Clients
      BY <1>1, <1>4, <3>1 DEF TypeOK
    <3>. QED BY <1>1, <3>2 DEF TypeOK
  <2>2. CASE q = r /\ c \in targets
    <3>1. down'[c] = down[c] \o <<r>>
      BY <1>2, <2>1, <2>2
    <3>2. Contains(<<r>>, r)
      BY ContainsAlone
    <3>3. Contains(down[c] \o <<r>>, r)
      BY <2>1, <3>2, ContainsEither
    <3>. QED BY <2>2, <3>1, <3>3
  <2>3. CASE c \in deliveredTo[q]
    <3>1. PICK more \in Seq(Requests) : down'[c] = down[c] \o more
      BY <1>2, <2>1
    <3>. QED BY <2>1, <2>3, <3>1, ContainsEither DEF OnTheWay, Arrives
  <2>. QED BY <1>1, <1>2, <1>4, <2>2, <2>3 DEF TypeOK
<1>5. Arrives'
  BY <1>2, <1>4 DEF Arrives
<1>6. Subscribes'
  BY <1>2 DEF OnTheWay, Subscribes
<1>7. ItsSessionMayAnswer'
  BY <1>1, <1>2, <1>3 DEF OnTheWay, ItsSessionMayAnswer, TypeOK
<1>. QED BY <1>5, <1>6, <1>7 DEF OnTheWay

LEMMA EnvelopeOnTheWay ==
  ASSUME Inv, OnTheWay, NEW c \in Clients, HandleEnvelope(c)
  PROVE  OnTheWay'
<1>1. TypeOK /\ Subscribes /\ Arrives /\ ItsSessionMayAnswer
  BY DEF Inv, PromptSafety, OnTheWay
<1>2. ItsSessionMayAnswer'
  BY <1>1 DEF HandleEnvelope, HandleHello, HandleSub, HandleResponse, ItsSessionMayAnswer
<1>3. \A s \in Sessions : Sub(s).type = "sub" /\ Sub(s).session = s
  BY DEF Sub
<1>4. up[c] # <<>> /\ up' = [up EXCEPT ![c] = Tail(@)] /\ UNCHANGED <<connected, opened, shown>>
  BY DEF HandleEnvelope, HandleHello, HandleSub, HandleResponse, app
<1>5. CASE HandleHello(c) \/ HandleResponse(c)
  <2>1. UNCHANGED subscribed /\ \A s \in Sessions : Head(up[c]) # Sub(s)
    BY <1>3, <1>5, HelloIsNoOther DEF HandleHello, HandleResponse, server
  <2>2. Subscribes'
    BY <1>1, <1>4, <2>1, TakenSubscribes
  <2>3. Arrives'
    BY <1>1, <1>4, <1>5, ReplayArrives DEF HandleHello, HandleResponse, Arrives
  <2>. QED BY <1>2, <2>2, <2>3 DEF OnTheWay
<1>6. CASE HandleSub(c)
  <2>1. subscribed' = [subscribed EXCEPT ![c] = @ \cup {Head(up[c]).session}] /\ ReplayPendingTo(c, subscribed'[c])
    BY <1>6 DEF HandleSub
  <2>2. /\ \A d \in Clients : subscribed[d] \subseteq subscribed'[d]
        /\ \A s \in Sessions : Head(up[c]) = Sub(s) => s \in subscribed'[c]
    BY <1>1, <1>3, <2>1 DEF TypeOK
  <2>3. Subscribes'
    BY <1>1, <1>4, <2>2, TakenSubscribes
  <2>4. Arrives'
    BY <1>1, <1>4, <2>1, ReplayArrives
  <2>. QED BY <1>2, <2>3, <2>4 DEF OnTheWay
<1>. QED BY <1>5, <1>6 DEF HandleEnvelope

(* A connecting app subscribes to all it has open. *)
LEMMA ConnectOnTheWay ==
  ASSUME Inv, OnTheWay, NEW c \in Clients, Connect(c)
  PROVE  OnTheWay'
<1>. DEFINE subs == SetToSeq(opened[c])
            frames == [i \in DOMAIN subs |-> Sub(subs[i])]
<1>1. TypeOK /\ Subscribes /\ Arrives /\ ItsSessionMayAnswer
  BY DEF Inv, PromptSafety, OnTheWay
<1>2. /\ connected' = connected \cup {c} /\ up' = [up EXCEPT ![c] = <<Hello>> \o frames]
      /\ UNCHANGED <<subscribed, sessionOf, eligible, deliveredTo, down, opened, shown>>
  BY DEF Connect, server, rpc, app
<1>3. subs \in Seq(Sessions) /\ \A s \in opened[c] : Contains(subs, s)
  BY <1>1, SetToSeqIsSeq, SetToSeqHasAll, SessionsAssumption DEF TypeOK, SessionsAssumption
<1>4. frames \in Seq(Frames) /\ \A s \in opened[c] : Contains(frames, Sub(s))
  <2>. HIDE DEF subs
  <2>1. DOMAIN subs = 1..Len(subs) /\ Len(subs) \in Nat
    BY <1>3
  <2>2. \A i \in DOMAIN subs : Sub(subs[i]) \in Frames
    BY <1>3, HelloIsNoOther
  <2>3. frames \in Seq(Frames) /\ Len(frames) = Len(subs)
    BY <2>1, <2>2
  <2>. QED BY <1>3, <2>1, <2>3 DEF Contains
<1>5. <<Hello>> \in Seq(Frames)
  BY HelloIsNoOther
<1>. HIDE DEF frames
<1>6. ASSUME NEW d \in connected', NEW s \in opened[d] PROVE s \in subscribed[d] \/ Contains(up'[d], Sub(s))
  <2>1. CASE d = c
    <3>1. up'[c] = <<Hello>> \o frames
      BY <1>1, <1>2 DEF TypeOK
    <3>2. Contains(frames, Sub(s))
      BY <1>4, <1>6, <2>1
    <3>3. Contains(<<Hello>> \o frames, Sub(s))
      BY <1>4, <1>5, <3>2, ContainsEither
    <3>. QED BY <2>1, <3>1, <3>3
  <2>2. CASE d # c
    BY <1>1, <1>2, <1>6, <2>2 DEF Subscribes, TypeOK
  <2>. QED BY <2>1, <2>2
<1>7. Subscribes'
  BY <1>2, <1>6 DEF Subscribes
<1>8. Arrives' /\ ItsSessionMayAnswer'
  BY <1>1, <1>2 DEF Arrives, ItsSessionMayAnswer
<1>. QED BY <1>7, <1>8 DEF OnTheWay

(* What an app sends goes behind what it has sent. *)
LEMMA SendSubscribes ==
  ASSUME TypeOK, NEW c \in Clients, NEW f \in Frames, Send(c, f), NEW d \in connected
  PROVE  /\ \A x : Contains(up[d], x) => Contains(up'[d], x)
         /\ d = c => Contains(up'[d], f)
<1>1. up \in [Clients -> Seq(Frames)] /\ d \in Clients
  BY DEF TypeOK
<1>2. CASE d = c
  <2>1. up'[d] = Append(up[c], f) /\ up[c] \in Seq(Frames)
    BY <1>1, <1>2 DEF Send
  <2>. QED BY <1>2, <2>1, ContainsAppended
<1>3. CASE d # c
  BY <1>1, <1>3 DEF Send
<1>. QED BY <1>2, <1>3

LEMMA AppOnTheWay ==
  ASSUME Inv, OnTheWay, NEW c \in Clients,
         \/ \E s \in Sessions : OpenSession(c, s)
         \/ \E r \in Requests : RespondTo(c, r)
         \/ ReceiveRequest(c)
  PROVE  OnTheWay'
<1>1. TypeOK /\ Subscribes /\ Arrives /\ ItsSessionMayAnswer
  BY DEF Inv, PromptSafety, OnTheWay
<1>2. ItsSessionMayAnswer'
  BY <1>1 DEF OpenSession, RespondTo, ReceiveRequest, rpc, ItsSessionMayAnswer
<1>3. ASSUME NEW s \in Sessions, OpenSession(c, s) PROVE Subscribes' /\ Arrives'
  <2>1. /\ opened' = [opened EXCEPT ![c] = @ \cup {s}] /\ Send(c, Sub(s)) /\ Sub(s) \in Frames
        /\ UNCHANGED <<subscribed, connected, down, deliveredTo, shown>>
    BY <1>3, HelloIsNoOther DEF OpenSession, server, rpc
  <2>2. ASSUME NEW d \in connected, NEW t \in opened'[d] PROVE t \in subscribed[d] \/ Contains(up'[d], Sub(t))
    <3>1. d \in Clients /\ (t \in opened[d] \/ (d = c /\ t = s))
      BY <1>1, <2>1, <2>2 DEF TypeOK
    <3>. QED BY <1>1, <2>1, <2>2, <3>1, SendSubscribes DEF Subscribes
  <2>. QED BY <1>1, <2>1, <2>2 DEF Subscribes, Arrives
<1>4. ASSUME NEW r \in Requests, RespondTo(c, r) PROVE Subscribes' /\ Arrives'
  <2>1. /\ Send(c, Response(r)) /\ Response(r) \in Frames
        /\ UNCHANGED <<subscribed, connected, down, deliveredTo, shown, opened>>
    BY <1>4, HelloIsNoOther DEF RespondTo, server, rpc
  <2>. QED BY <1>1, <2>1, SendSubscribes DEF Subscribes, Arrives
<1>5. CASE ReceiveRequest(c)
  <2>1. /\ down[c] # <<>> /\ shown' = [shown EXCEPT ![c] = @ \cup {Head(down[c])}]
        /\ down' = [down EXCEPT ![c] = Tail(@)]
        /\ UNCHANGED <<subscribed, deliveredTo, connected, up, opened>>
    BY <1>5 DEF ReceiveRequest, server, rpc
  <2>2. ASSUME NEW r \in Requests, NEW d \in deliveredTo[r] PROVE r \in shown'[d] \/ Contains(down'[d], r)
    <3>1. d \in Clients /\ (r \in shown[d] \/ Contains(down[d], r))
      BY <1>1, <2>2 DEF TypeOK, Arrives
    <3>2. CASE d = c
      <4>1. down[c] \in Seq(Requests) /\ down'[c] = Tail(down[c]) /\ shown'[c] = shown[c] \cup {Head(down[c])}
        BY <1>1, <2>1 DEF TypeOK
      <4>. QED BY <2>1, <3>1, <3>2, <4>1, ContainsRest
    <3>3. CASE d # c
      BY <1>1, <2>1, <3>1, <3>3 DEF TypeOK
    <3>. QED BY <3>2, <3>3
  <2>3. Subscribes'
    BY <1>1, <2>1 DEF Subscribes
  <2>4. Arrives'
    BY <2>1, <2>2 DEF Arrives
  <2>. QED BY <1>2, <2>3, <2>4 DEF OnTheWay
<1>. QED BY <1>2, <1>3, <1>4, <1>5 DEF OnTheWay

LEMMA OnTheWayKept ==
  ASSUME Inv, OnTheWay, [Next]_vars
  PROVE  OnTheWay'
<1>1. CASE UNCHANGED vars
  BY <1>1 DEF vars, server, rpc, app, OnTheWay, Subscribes, Arrives, ItsSessionMayAnswer
<1>2. ASSUME NEW r \in Requests, NEW s \in Sessions \cup {NoSession}, AskDevice(r, s) PROVE OnTheWay'
  BY <1>2, AskOnTheWay
<1>3. ASSUME NEW r \in Requests, Timeout(r) PROVE OnTheWay'
  BY <1>3 DEF Timeout, server, app, OnTheWay, Subscribes, Arrives, ItsSessionMayAnswer
<1>4. ASSUME NEW c \in Clients, Serve(c) PROVE OnTheWay'
  BY <1>4, EnvelopeOnTheWay, ConnectOnTheWay, AppOnTheWay DEF Serve
<1>5. ASSUME NEW c \in Clients, Disconnect(c) PROVE OnTheWay'
  <2>1. TypeOK
    BY DEF Inv, PromptSafety
  <2>2. /\ connected' = connected \ {c} /\ subscribed' = [subscribed EXCEPT ![c] = {}]
        /\ deliveredTo' = [r \in Requests |-> deliveredTo[r] \ {c}]
        /\ up' = [up EXCEPT ![c] = <<>>] /\ down' = [down EXCEPT ![c] = <<>>]
        /\ UNCHANGED <<sessionOf, eligible, opened, shown>>
    BY <1>5 DEF Disconnect, app
  <2>3. Subscribes'
    BY <2>1, <2>2 DEF OnTheWay, Subscribes, TypeOK
  <2>4. Arrives'
    BY <2>1, <2>2 DEF OnTheWay, Arrives, TypeOK
  <2>. QED BY <2>2, <2>3, <2>4 DEF OnTheWay, ItsSessionMayAnswer
<1>6. ASSUME NEW c \in Clients,
             (\E s \in Sessions : OpenSession(c, s)) \/ (\E r \in Requests : RespondTo(c, r))
      PROVE OnTheWay'
  BY <1>6, AppOnTheWay
<1>. QED BY <1>1, <1>2, <1>3, <1>4, <1>5, <1>6 DEF Next

(* A human who has the session of a pending prompt open is shown it, or the *)
(* prompt, or what will bring it, is on the line or waits for the app to    *)
(* connect: over lost connections and sessions opened after the prompt was  *)
(* asked (ws/reverse_rpc.ts: replayPendingTo; connection.dart).             *)
THEOREM NoPromptIsEverForgotten == Spec => []NoPromptIsForgotten
<1>1. Inv /\ OnTheWay /\ [Next]_vars => Inv' /\ OnTheWay'
  BY StepKept, OnTheWayKept
<1>2. Init => OnTheWay
  BY DEF Init, OnTheWay, Subscribes, Arrives, ItsSessionMayAnswer
<1>3. Inv /\ OnTheWay => NoPromptIsForgotten
  BY NobodyIsLeftOut
<1>. QED BY InitInv, <1>1, <1>2, <1>3, PTL DEF Spec
=============================================================================
