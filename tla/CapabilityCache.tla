----------------------------- MODULE CapabilityCache -----------------------------
(***************************************************************************)
(* The catalog of one harness (adapters/capability_cache.ts): its options are  *)
(* cached under a fingerprint of what they depend on (adapters/catalog.ts), a   *)
(* probe that is running is shared by whoever asks, and the store is written     *)
(* to disk. Edits move what the options depend on from version to version; the    *)
(* fingerprint is the version, and options are the version that a probe saw,       *)
(* or None for the empty catalog of a probe that failed.                          *)
(***************************************************************************)
EXTENDS Naturals

CONSTANTS
    Callers,            \* calls of serve and refresh
    None,
    MaxVersion,         \* bound: edits of the binary, models.json, config.toml or a login
    MaxCrashes          \* bound

VARIABLES
    version,        \* of the harness's inputs now
    cached,         \* an entry [fingerprint, options, crossed] or None
    disk,           \* the entry in capability-cache.json
    probe,          \* the probe in flight: [began, saw] or None; saw is 0 until it has read
    call,           \* of a caller: "idle", "waiting" or "answered"
    asked,          \* the fingerprint in the descriptor it passed
    answer,         \* the entry its answer is of
    crashes

\* history, in an entry: an edit came while its probe was in flight
Entry(fingerprint, options, crossed) ==
    [fingerprint |-> fingerprint, options |-> options, crossed |-> crossed]

vars == <<version, cached, disk, probe, call, asked, answer, crashes>>

Init ==
    /\ version = 1 /\ cached = None /\ disk = None /\ probe = None
    /\ call = [c \in Callers |-> "idle"]
    /\ asked = [c \in Callers |-> 0]
    /\ answer = [c \in Callers |-> None]
    /\ crashes = 0

-----------------------------------------------------------------------------
(* Callers: listAgents takes the fingerprint in the step that asks the cache. *)

\* mutant: an entry is as good as any other
WarmWhatever == cached # None

Warm == cached # None /\ cached.fingerprint = version

\* the options come from the cache, and nothing is spawned
ServeWarm(c) ==
    /\ call[c] = "idle" /\ Warm
    /\ call' = [call EXCEPT ![c] = "answered"]
    /\ asked' = [asked EXCEPT ![c] = version]
    /\ answer' = [answer EXCEPT ![c] = cached]
    /\ UNCHANGED <<version, cached, disk, probe, crashes>>

\* probeDeduped: join the probe that runs, whatever it was begun for, or begin one
Ask(c, force) ==
    /\ call[c] = "idle" /\ (force \/ ~Warm)
    /\ call' = [call EXCEPT ![c] = "waiting"]
    /\ asked' = [asked EXCEPT ![c] = version]
    /\ probe' = IF probe = None THEN [began |-> version, saw |-> 0] ELSE probe
    /\ UNCHANGED <<version, cached, disk, answer, crashes>>

ServeCold(c) == Ask(c, FALSE)

Refresh(c) == Ask(c, TRUE)

-----------------------------------------------------------------------------
(* The probe: a process that reads the inputs some time while it runs. *)

ProbeReads ==
    /\ probe # None /\ probe.saw = 0
    /\ probe' = [probe EXCEPT !.saw = version]
    /\ UNCHANGED <<version, cached, disk, call, asked, answer, crashes>>

Waiting == {c \in Callers : call[c] = "waiting"}

(* The probe settles: each of its callers stores the options under its own      *)
(* fingerprint and has the store written. They run in the order they joined, so  *)
(* the last has the newest fingerprint. A write that fails is only logged.      *)
Settle(options) ==
    LET of(c) == Entry(asked[c], options, probe.began # version)
    IN  /\ probe' = None
        /\ \E last \in Waiting :
             /\ \A c \in Waiting : asked[c] <= asked[last]
             /\ cached' = of(last)
        /\ disk' \in {disk, cached'}
        /\ call' = [c \in Callers |-> IF c \in Waiting THEN "answered" ELSE call[c]]
        /\ answer' = [c \in Callers |-> IF c \in Waiting THEN of(c) ELSE answer[c]]
        /\ UNCHANGED <<version, asked, crashes>>

ProbeEnds == probe # None /\ probe.saw # 0 /\ Settle(probe.saw)

ProbeFails == probe # None /\ Settle(None)

-----------------------------------------------------------------------------
(* The world. *)

Edit ==
    /\ version < MaxVersion
    /\ version' = version + 1
    /\ UNCHANGED <<cached, disk, probe, call, asked, answer, crashes>>

\* the next server loads the file; who waited may ask again
Restart ==
    /\ crashes < MaxCrashes
    /\ crashes' = crashes + 1
    /\ cached' = disk /\ probe' = None
    /\ call' = [c \in Callers |-> IF c \in Waiting THEN "idle" ELSE call[c]]
    /\ UNCHANGED <<version, disk, asked, answer>>

Next ==
    \/ \E c \in Callers : ServeWarm(c) \/ ServeCold(c) \/ Refresh(c)
    \/ ProbeReads \/ ProbeEnds \/ ProbeFails
    \/ Edit \/ Restart

Spec == Init /\ [][Next]_vars

-----------------------------------------------------------------------------
(* Properties. *)

(* Whoever is given options is given those of the inputs as they were when it  *)
(* asked, over edits, shared probes, failed writes and restarts, but for those *)
(* of a probe that was in flight when an edit came: that probe may have seen     *)
(* either side of it, and a caller from after the edit joins it all the same.    *)
AnswersFitTheFingerprint ==
    \A c \in Callers :
        call[c] = "answered" =>
            \/ answer[c].options = None \/ answer[c].crossed
            \/ answer[c].options = asked[c]
=============================================================================
