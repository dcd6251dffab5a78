----------------------------- MODULE Admission ------------------------------
(***************************************************************************)
(* A pod on its way through admission: the defaulting of the API server,    *)
(* the mutating webhook (pkg/webhook/pod.go), defaulting again, validation, *)
(* and afterwards what the agent reads from the stored pod (pkg/qos/qos.go).*)
(* A stored pod can be submitted again as it is, with the annotations and   *)
(* the resources an earlier pass left in it, under another policy.          *)
(*                                                                         *)
(* CPU is in milli-cores and memory in KiB, so that the rounding to MiB     *)
(* shows.  The API server's side is external: its webhook configuration     *)
(* (deploy/manifests/40-webhook-config.yaml) lets a pod through when the    *)
(* webhook does not answer, and calls it once per creation.                 *)
(***************************************************************************)
EXTENDS Integers, Sequences, FiniteSets, FiniteSetsExt, Functions

CONSTANTS
  Specs,     \* [init, main] as users write them, lists of containers
  Asked,     \* the values of the QoS annotation users write
  Classes,   \* the priority classes they choose
  Policies   \* the webhook configurations an operator writes

None   == -1                              \* a field that is not there
Levels == {"system", "dedicated", "shared", "reclaimed"}
Res    == {"cpu", "mem"}
Unit   == [r \in Res |-> IF r = "cpu" THEN 1 ELSE 1024]   \* of the extended resource

Quantity  == {q \in Int : q >= None}
Container == [req : [Res -> Quantity], lim : [Res -> Quantity], ext : [Res -> Quantity]]
PodSpec   == [init : Seq(Container), main : Seq(Container)]
Config    == [level : Levels \cup {"none"}, rewrite : BOOLEAN, exempt : BOOLEAN]

ASSUME InputAssumption ==
  /\ Specs \subseteq PodSpec
  /\ \A s \in Specs : s.main # <<>>
       /\ \A c \in Range(s.init) \cup Range(s.main), r \in Res : c.ext[r] = None
  /\ "none" \in Asked /\ Classes \subseteq {"none", "high", "critical"}
  /\ Policies \subseteq Config

VARIABLES
  policy,    \* the webhook part of the QoSPolicy object
  stage,     \* how far the pod has come
  asked,     \* history: the pod as its author submitted it, defaulted
  pod,       \* the pod as it is now
  passes     \* history: "new", "handled" by the webhook each time, or "bypassed"

vars == <<policy, stage, asked, pod, passes>>

-----------------------------------------------------------------------------
(* Reading a pod: pkg/qos/qos.go.                                           *)

All(p) == Range(p.init) \cup Range(p.main)

NativeQoS(p) ==
  IF \A c \in All(p), r \in Res : c.req[r] <= 0 /\ c.lim[r] <= 0 THEN "BestEffort"
  ELSE IF \A c \in All(p), r \in Res : c.lim[r] > 0 /\ c.req[r] \in {None, c.lim[r]}
       THEN "Guaranteed"
  ELSE "Burstable"

LevelOf(p) ==
  CASE p.level \in Levels                                         -> p.level
    [] p.level \notin Levels /\ p.class = "critical"              -> "system"
    [] OTHER -> CASE NativeQoS(p) = "Guaranteed" -> "dedicated"
                  [] NativeQoS(p) = "BestEffort" -> "reclaimed"
                  [] OTHER                       -> "shared"

Given(q, r) == {i \in DOMAIN q : q[i].req[r] # None}
Total(q, r) == SumFunction([i \in Given(q, r) |-> q[i].req[r]])

\* sumPod: the sum of the app containers, or a larger single init container.
PodRequest(p, r) ==
  Max((IF Given(p.main, r) = {} THEN {None} ELSE {Total(p.main, r)})
      \cup {p.init[i].req[r] : i \in Given(p.init, r)})

ExtendedTotal(p, r) ==
  SumFunction([i \in {i \in DOMAIN p.main : p.main[i].ext[r] # None} |-> p.main[i].ext[r]])

EffectiveRequest(p, r) ==
  IF PodRequest(p, r) # None THEN PodRequest(p, r)
  ELSE IF ExtendedTotal(p, r) > 0 THEN ExtendedTotal(p, r) * Unit[r] ELSE None

-----------------------------------------------------------------------------
(* The webhook: pkg/webhook/pod.go.                                         *)

Defaults == [level |-> "shared", rewrite |-> TRUE, exempt |-> FALSE]

\* Mutant of Filled: a policy without a level leaves it empty.
FilledNot(cfg) == cfg

Filled(cfg) == IF cfg.level \in Levels THEN cfg ELSE [cfg EXCEPT !.level = Defaults.level]

\* config: the policy, or the defaults when it cannot be read.
ReadConfig == {Filled(policy), Defaults}

Explicit(p) == p.level \in Levels

\* Mutant of Chosen: the configured default comes before the inference.
ChosenByPolicy(p, cfg) ==
  IF Explicit(p) THEN p.level ELSE IF cfg.level # "shared" THEN cfg.level ELSE LevelOf(p)

Chosen(p, cfg) ==
  IF Explicit(p) THEN p.level ELSE IF LevelOf(p) # "shared" THEN LevelOf(p) ELSE cfg.level

\* Mutant of WholeCores: only the first container is looked at.
WholeCoresOfFirst(p) == p.main[1].req["cpu"] > 0 /\ p.main[1].req["cpu"] % 1000 = 0

WholeCores(p) == \A c \in Range(p.main) : c.req["cpu"] > 0 /\ c.req["cpu"] % 1000 = 0

Yields(p) == p.class = "none" /\ \A c \in Range(p.main) : c.lim["mem"] # 0

\* validate
Acceptable(p, level) ==
  /\ level = "dedicated" => WholeCores(p)
  /\ level = "reclaimed" => Yields(p)
  /\ p.numa => level = "dedicated"

\* Mutants of Rewritten: the CPU limit stays, or no memory limit is made up.
RewrittenKeepingLimit(c) ==
  LET moved == {r \in Res : c.req[r] > 0}
  IN [req |-> [r \in Res |-> IF r \in moved THEN None ELSE c.req[r]],
      lim |-> [c.lim EXCEPT !["mem"] =
                 IF "mem" \in moved /\ @ = None THEN c.req["mem"] ELSE @],
      ext |-> [r \in Res |-> IF r \in moved THEN Max({1, c.req[r] \div Unit[r]}) ELSE c.ext[r]]]

RewrittenUnbounded(c) ==
  LET moved == {r \in Res : c.req[r] > 0}
  IN [req |-> [r \in Res |-> IF r \in moved THEN None ELSE c.req[r]],
      lim |-> [c.lim EXCEPT !["cpu"] = IF "cpu" \in moved THEN None ELSE @],
      ext |-> [r \in Res |-> IF r \in moved THEN Max({1, c.req[r] \div Unit[r]}) ELSE c.ext[r]]]

\* What a container asks for moves into the extended resources; its CPU limit goes
\* too, and a memory limit stays or is made up from the request.
Rewritten(c) ==
  LET moved == {r \in Res : c.req[r] > 0}
  IN [req |-> [r \in Res |-> IF r \in moved THEN None ELSE c.req[r]],
      lim |-> [r \in Res |->
                 IF r \notin moved THEN c.lim[r]
                 ELSE IF r = "cpu" THEN None
                 ELSE IF c.lim[r] = None THEN c.req[r] ELSE c.lim[r]],
      ext |-> [r \in Res |-> IF r \in moved THEN Max({1, c.req[r] \div Unit[r]}) ELSE c.ext[r]]]

\* rewriteReclaimed: the app containers, and a record of what they asked for.
RewriteReclaimed(p) ==
  LET asking == {i \in DOMAIN p.main : \E r \in Res : p.main[i].req[r] # None}
      moving == \E i \in DOMAIN p.main, r \in Res : p.main[i].req[r] > 0
  IN [p EXCEPT !.main = [i \in DOMAIN @ |-> Rewritten(@[i])],
               !.original = IF moving THEN [i \in asking |-> p.main[i]] ELSE @]

\* Mutant of Mutated: the level is written down only where it was given.
MutatedSilently(p, level, rewrite) ==
  IF level = "reclaimed" /\ rewrite THEN RewriteReclaimed(p) ELSE p

Mutated(p, level, rewrite) ==
  LET annotated == [p EXCEPT !.level = level]
  IN IF level = "reclaimed" /\ rewrite THEN RewriteReclaimed(annotated) ELSE annotated

-----------------------------------------------------------------------------
(* The API server.                                                          *)

\* A limit without a request becomes the request.
WithDefaults(c) ==
  [c EXCEPT !.req = [r \in Res |-> IF c.req[r] = None THEN c.lim[r] ELSE c.req[r]]]

Defaulted(p) == [p EXCEPT !.init = [i \in DOMAIN @ |-> WithDefaults(@[i])],
                          !.main = [i \in DOMAIN @ |-> WithDefaults(@[i])]]

Consistent(p) == \A c \in All(p), r \in Res : c.lim[r] # None => c.req[r] <= c.lim[r]

Unrecorded == [i \in {} |-> None]

Written(s, level, class, numa) ==
  [init |-> s.init, main |-> s.main, level |-> level, class |-> class, numa |-> numa,
   original |-> Unrecorded]

Nothing == Written([init |-> <<>>, main |-> <<>>], "none", "none", FALSE)

Init == /\ policy \in Policies /\ stage = "absent"
        /\ asked = Nothing /\ pod = Nothing /\ passes = "new"

\* A pod is created, by a user or by the controller of a template.
Submit ==
  /\ stage = "absent" /\ stage' = "submitted"
  /\ \E s \in Specs, level \in Asked, class \in Classes, numa \in BOOLEAN :
       asked' = Defaulted(Written(s, level, class, numa)) /\ pod' = asked'
  /\ passes' = "new"
  /\ UNCHANGED policy

\* The stored object is copied and created once more.
Resubmit ==
  /\ stage = "stored" /\ stage' = "submitted"
  /\ UNCHANGED <<policy, asked, pod, passes>>

Store(p) == pod' = Defaulted(p) /\ stage' = IF Consistent(Defaulted(p)) THEN "stored" ELSE "invalid"

\* Handle, with an answer other than "admit unchanged".
Denies(cfg) ==
  /\ stage = "submitted" /\ ~cfg.exempt /\ ~Acceptable(pod, Chosen(pod, cfg))
  /\ stage' = "denied"
  /\ UNCHANGED <<policy, asked, pod, passes>>

Mutates(cfg) ==
  /\ stage = "submitted" /\ ~cfg.exempt /\ Acceptable(pod, Chosen(pod, cfg))
  /\ Store(Mutated(pod, Chosen(pod, cfg), cfg.rewrite))
  /\ passes' = IF passes = "new" THEN "handled" ELSE passes
  /\ UNCHANGED <<policy, asked>>

\* An exempt namespace, a pod the webhook cannot decode, a webhook that is down or
\* too slow: the pod is stored as it is.
Bypass ==
  /\ stage = "submitted"
  /\ Store(pod) /\ passes' = "bypassed"
  /\ UNCHANGED <<policy, asked>>

Deleted ==
  /\ stage \in {"stored", "denied", "invalid"} /\ stage' = "absent"
  /\ asked' = Nothing /\ pod' = Nothing /\ passes' = "new"
  /\ UNCHANGED policy

PolicyChanges ==
  /\ policy' \in Policies \ {policy}
  /\ UNCHANGED <<stage, asked, pod, passes>>

Next ==
  \/ Submit \/ Resubmit \/ Deleted \/ PolicyChanges \/ Bypass
  \/ \E cfg \in ReadConfig : Denies(cfg) \/ Mutates(cfg)

Spec == Init /\ [][Next]_vars

-----------------------------------------------------------------------------
(* Properties.                                                              *)

IsPod(p) ==
  /\ p.init \in Seq(Container) /\ p.main \in Seq(Container)
  /\ p.level \in Asked \cup Levels /\ p.class \in Classes \cup {"none"} /\ p.numa \in BOOLEAN
  /\ DOMAIN p.original \subseteq DOMAIN p.main
  /\ \A i \in DOMAIN p.original : p.original[i] \in Container

\* A pod the webhook has handled carries a valid level.
TypeOK ==
  /\ policy \in Policies
  /\ stage \in {"absent", "submitted", "stored", "denied", "invalid"}
  /\ IsPod(asked) /\ IsPod(pod)
  /\ passes \in {"new", "handled", "bypassed"}
  /\ passes = "handled" => pod.level \in Levels

Oversold == stage = "stored" /\ DOMAIN pod.original # {}

\* An oversold pod has no CPU request in its app containers, not even one that the
\* API server makes up from a limit after the webhook (pod.go, rewriteReclaimed;
\* README, How the capacity is sold).
NoCpuRequest == Oversold => \A c \in Range(pod.main) : c.req["cpu"] <= 0

\* Nothing that would hide the extended resource from EffectiveRequests.
Plain(p) == Given(p.init, "cpu") = {} /\ \A c \in Range(p.main) : c.req["cpu"] # 0

\* No memory request above its limit: the API server would refuse that pod, but the
\* rewrite drops the request and keeps the limit.
Bounded(p) == \A c \in Range(p.main) : c.lim["mem"] # None => c.req["mem"] <= c.lim["mem"]

\* However often a pod has been through the webhook, the agent reads from it the CPU
\* its author asked for, and no less memory (qos.go, EffectiveRequests).
Footprint ==
  Oversold =>
    /\ Plain(asked) => EffectiveRequest(pod, "cpu") = PodRequest(asked, "cpu")
    /\ Bounded(asked) => EffectiveRequest(pod, "mem") >= PodRequest(asked, "mem")

\* A pod of a critical class that names no level is in the system tier, whatever the
\* policy's default is and whether the webhook saw it or not (qos.go, LevelOf).
CriticalIsSystem ==
  stage = "stored" /\ asked.class = "critical" /\ asked.level \notin Levels
    => LevelOf(pod) = "system"

\* A pod that the webhook has admitted is admitted again as it was stored, under any
\* later policy: the level is written into the pod (pod.go, Handle).
Readmitted == ~(stage = "denied" /\ passes = "handled")

\* The agent's CPU pools need no rounding for a dedicated pod that the webhook has
\* admitted, unless an init container asks for more than the pod (pod.go, validate;
\* pool.go, wholeCoresFor).
WholeCoresStored ==
  /\ stage = "stored" /\ passes = "handled" /\ LevelOf(pod) = "dedicated"
  /\ \A c \in Range(pod.init) : c.req["cpu"] <= PodRequest([pod EXCEPT !.init = <<>>], "cpu")
  => EffectiveRequest(pod, "cpu") > 0 /\ EffectiveRequest(pod, "cpu") % 1000 = 0
=============================================================================
