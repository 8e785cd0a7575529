---------------------------- MODULE ReadinessProbe ----------------------------
(* The readiness of one replica, field by field.  The main thread runs the     *)
(* loop of Runtime.run_forever and writes the fields of RuntimeStats without a *)
(* lock; threads of the health server evaluate readiness_diagnosis, which      *)
(* reads every field twice, in an order of its own, and takes leadership away  *)
(* when it finds it stale; a signal handler runs stop() in the main thread     *)
(* between any two of its steps.  A step reads or writes one field.            *)
EXTENDS Naturals, Sequences

CONSTANTS Thread,      \* threads of the health server
          Window,      \* leader_fresh_seconds
          MaxClock,    \* bound: the monotonic clock stops here
          MaxFaults,   \* bound: failures of the preflight, the gate, the Lease, the API
          MaxProbes    \* bound: evaluations of readiness

ASSUME BoundsAssumption ==
  Window \in Nat /\ MaxClock \in Nat \ {0} /\ MaxFaults \in Nat /\ MaxProbes \in Nat

VARIABLES stats,     \* the fields of the runtime that make up its readiness
          loop,      \* where the main thread is, and its writes still to do
          probe,     \* the evaluation a thread is in
          clock,     \* time.monotonic()
          proven,    \* history: when the loop last saw its Lease held, 0 if not
          seen,      \* history: what happened while an evaluation was going on
          faults,    \* failures so far
          probes     \* evaluations so far

vars == <<stats, loop, probe, clock, proven, seen, faults, probes>>

Flags == {"preflight", "inventory", "api", "leader", "stored", "terminating", "stop"}

(* The loop has confirmed its Lease within the window, and is not to stop.     *)
Leading == ~stats.terminating /\ proven > 0 /\ clock - proven <= Window

(* Every gate is open: what 200 on /readyz says of the replica.                *)
Serving == Leading /\ stats.preflight /\ stats.inventory /\ stats.api /\ stats.stored
-----------------------------------------------------------------------------
(* The main thread.  A handler leaves the writes it will do, in their order.   *)
(* <<"proof", TRUE>> is `_leader_verified_monotonic = time.monotonic()`.       *)
Writes(todo, pc) == loop' = [loop EXCEPT !.todo = todo, !.pc = pc]

At(pc) == loop.pc = pc /\ loop.todo = <<>>

Fails == faults < MaxFaults /\ faults' = faults + 1

DoWrite ==
  /\ loop.todo # <<>>
  /\ LET field == Head(loop.todo)[1]
         value == Head(loop.todo)[2]
     IN /\ stats' = IF field = "proof"
                    THEN [stats EXCEPT !.verified = IF value THEN clock ELSE 0]
                    ELSE [stats EXCEPT ![field] = value]
        /\ proven' = IF field \notin {"leader", "proof"} THEN proven
                     ELSE IF value THEN clock ELSE 0
  /\ loop' = [loop EXCEPT !.todo = Tail(@)]
  /\ UNCHANGED <<probe, clock, faults, probes>>

LosesLeadership == << <<"leader", FALSE>>, <<"proof", FALSE>> >>
LosesInventory == << <<"inventory", FALSE>> >>

(* run_forever, and the preflight, which is not ready while it is checked.     *)
Cycle ==
  /\ At("pause")
  /\ IF stats.stop THEN Writes(<<>>, "over")
                   ELSE Writes(<< <<"preflight", FALSE>> >>, "checking")
  /\ UNCHANGED <<stats, probe, clock, proven, faults, probes>>

CheckPasses ==
  /\ At("checking")
  /\ Writes(<< <<"preflight", TRUE>> >>, "gate")
  /\ UNCHANGED <<stats, probe, clock, proven, faults, probes>>

CheckFails ==
  /\ At("checking") /\ Fails
  /\ Writes(LosesInventory, "pause")
  /\ UNCHANGED <<stats, probe, clock, proven, probes>>

(* The continuity gate: it accepts, or saves first, or refuses.                *)
GateAccepts ==
  /\ At("gate")
  /\ Writes(<< <<"stored", TRUE>>, <<"inventory", FALSE>> >>, "list")
  /\ UNCHANGED <<stats, probe, clock, proven, faults, probes>>

GateSaves ==
  /\ At("gate")
  /\ Writes(<<>>, "save")
  /\ UNCHANGED <<stats, probe, clock, proven, faults, probes>>

GateRefuses ==
  /\ At("gate") /\ Fails
  /\ Writes(<< <<"preflight", FALSE>> >> \o LosesInventory, "pause")
  /\ UNCHANGED <<stats, probe, clock, proven, probes>>

(* _leader is asked for a save, before the list, for a fleet of the list and   *)
(* for an event of the watch.  It looks whether the process is terminating     *)
(* before it asks the Lease.                                                   *)
Asking == {"save", "list", "item", "event"}

Without(purpose) ==
  CASE purpose = "save"  -> [todo |-> << <<"preflight", FALSE>> >> \o LosesInventory, pc |-> "pause"]
    [] purpose = "list"  -> [todo |-> <<>>, pc |-> "listing"]
    [] purpose = "item"  -> [todo |-> <<>>, pc |-> "items"]
    [] purpose = "event" -> [todo |-> LosesInventory, pc |-> "pause"]

NotLeader(purpose) ==
  loop' = [loop EXCEPT !.todo = LosesLeadership \o Without(purpose).todo,
                       !.pc = Without(purpose).pc,
                       !.deferred = @ \/ purpose = "item"]

(* A mistake: the cycle does not refresh its leadership before the list.       *)
AsksForFleetsOnly ==
  /\ loop.pc \in Asking /\ loop.todo = <<>>
  /\ IF loop.pc = "list" THEN Writes(<<>>, "listing")
     ELSE IF stats.terminating THEN NotLeader(loop.pc)
     ELSE loop' = [loop EXCEPT !.pc = "asked", !.why = loop.pc]
  /\ UNCHANGED <<stats, probe, clock, proven, faults, probes>>

AskLease ==
  /\ loop.pc \in Asking /\ loop.todo = <<>>
  /\ IF stats.terminating THEN NotLeader(loop.pc)
     ELSE loop' = [loop EXCEPT !.pc = "asked", !.why = loop.pc]
  /\ UNCHANGED <<stats, probe, clock, proven, faults, probes>>

Leads ==
  /\ At("asked")
  /\ LET confirmed == << <<"leader", TRUE>>, <<"proof", TRUE>> >> IN
     CASE loop.why = "save"  -> Writes(confirmed \o << <<"stored", TRUE>>, <<"inventory", FALSE>> >>, "list")
       [] loop.why = "list"  -> Writes(confirmed, "listing")
       [] loop.why = "item"  -> Writes(confirmed, "items")
       [] loop.why = "event" -> Writes(confirmed, "watch")
  /\ UNCHANGED <<stats, probe, clock, proven, faults, probes>>

DoesNotLead ==
  /\ At("asked") /\ Fails
  /\ NotLeader(loop.why)
  /\ UNCHANGED <<stats, probe, clock, proven, probes>>

ListAnswers ==
  /\ At("listing")
  /\ loop' = [loop EXCEPT !.todo = << <<"api", TRUE>> >>, !.pc = "items", !.deferred = FALSE]
  /\ UNCHANGED <<stats, probe, clock, proven, faults, probes>>

ListFails ==
  /\ loop.pc \in {"listing", "items"} /\ loop.todo = <<>> /\ Fails
  /\ Writes(LosesInventory \o LosesLeadership \o << <<"api", FALSE>> >>, "pause")
  /\ UNCHANGED <<stats, probe, clock, proven, probes>>

(* A fleet of the list, or of an event, is reconciled, which begins with       *)
(* _leader; stop() is noticed before it.                                       *)
Fleet(pc, purpose) ==
  /\ At(pc)
  /\ IF stats.stop THEN Writes(LosesInventory, "over") ELSE Writes(<<>>, purpose)
  /\ UNCHANGED <<stats, probe, clock, proven, faults, probes>>

(* A fleet stays unsettled, its deletion held say.                             *)
ItemDeferred ==
  /\ At("items") /\ Fails
  /\ loop' = [loop EXCEPT !.deferred = TRUE]
  /\ UNCHANGED <<stats, probe, clock, proven, probes>>

(* After the last fleet: the watch, or, if one stayed unsettled, an exception, *)
(* which no leadership survives.                                               *)
ListSettled ==
  /\ At("items") /\ ~loop.deferred
  /\ Writes(<< <<"inventory", TRUE>> >>, "watch")
  /\ UNCHANGED <<stats, probe, clock, proven, faults, probes>>

ListDeferred ==
  /\ At("items") /\ loop.deferred
  /\ Writes(LosesInventory \o LosesLeadership, "pause")
  /\ UNCHANGED <<stats, probe, clock, proven, faults, probes>>

WatchEnds ==
  /\ At("watch")
  /\ Writes(LosesInventory, "pause")
  /\ UNCHANGED <<stats, probe, clock, proven, faults, probes>>

WatchFails ==
  /\ At("watch") /\ Fails
  /\ Writes(<< <<"api", FALSE>> >> \o LosesLeadership \o LosesInventory, "pause")
  /\ UNCHANGED <<stats, probe, clock, proven, probes>>

(* SIGTERM: stop() runs before whatever the main thread would have done next.  *)
Stop ==
  /\ ~loop.signalled /\ loop.pc # "over"
  /\ loop' = [loop EXCEPT !.signalled = TRUE,
                          !.todo = << <<"terminating", TRUE>>, <<"leader", FALSE>>, <<"stop", TRUE>>,
                                      <<"proof", FALSE>>, <<"inventory", FALSE>> >> \o @]
  /\ UNCHANGED <<stats, probe, clock, proven, faults, probes>>
-----------------------------------------------------------------------------
(* A thread of the health server.  ready() looks at its gates in this order,   *)
(* reading the clock before the proof whose age it computes ...                *)
ReadyReads ==
  <<"preflight", "inventory", "api", "api", "inventory", "running", "leader", "verified",
    "now", "age", "running", "stored">>
(* ... and readiness_diagnosis captures them once more, in another order.      *)
CaptureReads ==
  <<"api", "leader", "inventory", "running", "preflight", "proof", "fresh", "stored">>

(* A mistake: the gates are only captured, ready() is not asked first.         *)
ReadsOnce == CaptureReads

Reads == ReadyReads \o CaptureReads

(* Finding one of these closed, ready() invalidates the leadership.            *)
Invalidates(i) == i = 3 \/ i \in 6..10

(* A mistake: a proof is good for one moment more than the window.             *)
OpenTooLong(t, read) ==
  CASE read = "running"  -> ~stats.terminating
    [] read \in {"verified", "proof"} -> stats.verified > 0
    [] read = "now"      -> TRUE
    [] read = "age"      -> probe[t].now - stats.verified <= Window + 1
    [] read = "fresh"    -> clock - probe[t].proof <= Window + 1
    [] OTHER             -> stats[read]

(* What a read finds: a proof from the future or too old closes the gate, and  *)
(* so does one that was zeroed since it was found positive, by its age.        *)
Open(t, read) ==
  CASE read = "running"  -> ~stats.terminating
    [] read = "verified" -> stats.verified > 0
    [] read = "now"      -> TRUE
    [] read = "age"      -> /\ stats.verified <= probe[t].now
                            /\ probe[t].now - stats.verified <= Window
    [] read = "proof"    -> stats.verified > 0
    [] read = "fresh"    -> clock - probe[t].proof <= Window
    [] OTHER             -> stats[read]

Evaluating(t) == probe[t].pc > 0

NoProbe == [pc |-> 0, now |-> 0, proof |-> 0, status |-> 0]

Begin(t) ==
  /\ probe[t].pc = 0 /\ probes < MaxProbes
  /\ probe' = [probe EXCEPT ![t] = [NoProbe EXCEPT !.pc = 1]]
  /\ probes' = probes + 1
  /\ UNCHANGED <<stats, loop, clock, proven, faults>>

Look(t) ==
  /\ probe[t].pc \in 1..Len(Reads)
  /\ LET i == probe[t].pc IN
     probe' = [probe EXCEPT ![t] =
       IF Open(t, Reads[i])
       THEN [pc |-> IF i = Len(Reads) THEN 0 ELSE i + 1,
             now |-> IF Reads[i] = "now" THEN clock ELSE @.now,
             proof |-> IF Reads[i] = "proof" THEN stats.verified ELSE @.proof,
             status |-> IF i = Len(Reads) THEN 200 ELSE 0]
       ELSE IF Invalidates(i) THEN [NoProbe EXCEPT !.pc = Len(Reads) + 1]
       ELSE [NoProbe EXCEPT !.status = 503]]
  /\ UNCHANGED <<stats, loop, clock, proven, faults, probes>>

(* _invalidate_leadership, two assignments.                                    *)
Invalidate(t) ==
  /\ probe[t].pc > Len(Reads)
  /\ IF probe[t].pc = Len(Reads) + 1
     THEN /\ stats' = [stats EXCEPT !.leader = FALSE]
          /\ probe' = [probe EXCEPT ![t].pc = @ + 1]
     ELSE /\ stats' = [stats EXCEPT !.verified = 0]
          /\ probe' = [probe EXCEPT ![t] = [NoProbe EXCEPT !.status = 503]]
  /\ UNCHANGED <<loop, clock, proven, faults, probes>>

Tick ==
  /\ clock < MaxClock
  /\ clock' = clock + 1
  /\ UNCHANGED <<stats, loop, probe, proven, faults, probes>>
-----------------------------------------------------------------------------
Init ==
  /\ stats = [preflight |-> TRUE, inventory |-> FALSE, api |-> FALSE, leader |-> FALSE,
              stored |-> FALSE, terminating |-> FALSE, stop |-> FALSE, verified |-> 0]
  /\ loop = [pc |-> "pause", why |-> "list", todo |-> <<>>, signalled |-> FALSE,
           deferred |-> FALSE]
  /\ probe = [t \in Thread |-> NoProbe]
  /\ clock = 1
  /\ proven = 0
  /\ seen = [t \in Thread |-> {}]
  /\ faults = 0
  /\ probes = 0

Loop ==
  \/ DoWrite \/ Cycle \/ CheckPasses \/ GateAccepts \/ GateSaves
  \/ AskLease \/ Leads \/ ListAnswers \/ Fleet("items", "item") \/ Fleet("watch", "event")
  \/ ListSettled \/ ListDeferred \/ WatchEnds
Failure ==
  CheckFails \/ GateRefuses \/ DoesNotLead \/ ListFails \/ ItemDeferred \/ WatchFails
Evaluation(t) == Begin(t) \/ Look(t) \/ Invalidate(t)

(* What each evaluation has seen so far.  It is delayed when time passes, or   *)
(* another cycle begins, between its first read and its answer.                *)
Observed ==
  seen' = [t \in Thread |->
             IF ~(Evaluating(t))' THEN {}
             ELSE seen[t] \cup {what \in {"serving", "leading", "delay"} :
                     \/ what = "serving" /\ Serving'
                     \/ what = "leading" /\ Leading'
                     \/ /\ what = "delay"
                        /\ Evaluating(t)
                        /\ clock' # clock \/ (At("pause") /\ loop' # loop)}]

Next ==
  /\ Loop \/ Failure \/ Stop \/ Tick \/ \E t \in Thread : Evaluation(t)
  /\ Observed

Spec == Init /\ [][Next]_vars

(* The main thread is scheduled and its requests are answered or time out; a   *)
(* list has an end.  Nothing is asked of the probes, of stop() or of failures. *)
Fairness ==
  /\ WF_vars(Loop /\ Observed)
  /\ SF_vars((ListSettled \/ ListDeferred) /\ Observed)

FairSpec == Spec /\ Fairness

(* Thread t's evaluation ends in this step, with this answer to /readyz.       *)
Answers(t, status) == Evaluating(t) /\ (probe[t].status)' = status

(* A 200 was true: at some instant of the evaluation all gates were open at    *)
(* once, the leadership confirmed and no older than its window.  No lock holds *)
(* the fields still, so neither pass over them can promise it alone; the two   *)
(* together do, in whatever place the loop writes, short of an evaluation that *)
(* a whole cycle passes by.                                                    *)
ReadyWasTrue ==
  [][\A t \in Thread : Answers(t, 200) /\ "delay" \notin seen[t] => "serving" \in seen[t]]_vars

(* However long the evaluation took, a replica that answers 200 was leading at *)
(* some instant of it: it had confirmed its Lease within the window and was    *)
(* not terminating.                                                            *)
ReadyWasLeading ==
  [][\A t \in Thread : Answers(t, 200) => "leading" \in seen[t]]_vars

(* The fields are as ready() wants them, the leadership's proof included.      *)
AllOpen == Serving /\ stats.leader /\ stats.verified > 0

(* Probes take leadership away, between any two writes of the loop that        *)
(* renews it; yet unless it is told to stop the replica is ready again and     *)
(* again: every cycle, and every fleet, restores both halves of the proof.     *)
Recovers == <>(loop.signalled \/ []<>AllOpen)
=============================================================================
