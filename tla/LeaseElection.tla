---------------------------- MODULE LeaseElection ----------------------------
(***************************************************************************)
(* Leader election against the clock.  LeaseElector.ensure_leader reads    *)
(* its clock, gets the Lease, and renews it or takes it over; the Runtime  *)
(* believes in a verified answer for leader_fresh_seconds.  The renewTime  *)
(* in the Lease is the one reading of the clock at the start of the call,  *)
(* while belief counts from the end of it, and every replica compares the  *)
(* renewTime of another with a clock of its own.                           *)
(*                                                                         *)
(* Time is discrete.  LeaseContinuity abstracts from it: there any Lease   *)
(* of another replica may be found expired.                                *)
(***************************************************************************)
EXTENDS Integers

CONSTANTS Replica,
          Nobody,        \* holderIdentity "", or no Lease at all
          Duration,      \* leaseDurationSeconds
          Tolerance,     \* max_clock_skew_seconds
          FreshWindow,   \* leader_fresh_seconds
          Latency,       \* the longest call of ensure_leader
          Skew,          \* how far clocks are apart
          Horizon        \* bound: time stops there

ASSUME NobodyAssumption == Nobody \notin Replica
ASSUME TimeAssumption ==
  /\ Duration \in Nat /\ Tolerance \in Nat /\ FreshWindow \in Nat
  /\ Latency \in Nat /\ Skew \in Nat /\ Horizon \in Nat

VARIABLES now,        \* true time
          offset,     \* how far the clock of a replica is ahead of it
          lease,      \* the Lease object, as far as election goes
          rvCurrent,  \* replicas whose last GET returned today's version
          call,       \* the call of ensure_leader in progress, by replica
          belief,     \* stats.leader, and when leadership was verified
          late        \* PATCHes given up by their sender but still under way

vars == <<now, offset, lease, rvCurrent, call, belief, late>>

Phase == {"idle", "get", "write", "answer"}

Lease == [holder: Replica \cup {Nobody}, renew: Int]

\* began: when the call read its clock.
Call == [pc: Phase, began: Int]

NoCall == [pc |-> "idle", began |-> 0]

\* at: _leader_verified_monotonic.
Belief == [leader: BOOLEAN, at: Int]

NoBelief == [leader |-> FALSE, at |-> 0]

TypeOK ==
  /\ now \in 0..Horizon
  /\ offset \in [Replica -> 0..Skew]
  /\ lease \in Lease
  /\ rvCurrent \subseteq Replica
  /\ call \in [Replica -> Call]
  /\ belief \in [Replica -> Belief]
  /\ late \subseteq [by: Replica, began: Int]

Init ==
  /\ now = 0
  /\ offset \in [Replica -> 0..Skew]
  /\ lease = [holder |-> Nobody, renew |-> 0]
  /\ rvCurrent = {}
  /\ call = [r \in Replica |-> NoCall]
  /\ belief = [r \in Replica |-> NoBelief]
  /\ late = {}

At(r, phase) == call[r].pc = phase

\* _fresh: a renewTime too far in the future is as good as an expired one.
Fresh(clock) ==
  /\ lease.renew - clock <= Tolerance
  /\ clock - lease.renew < Duration

\* What r stamps, and compares with: its clock when the call began.
Stamp(r) == call[r].began + offset[r]

-----------------------------------------------------------------------------

\* ensure_leader begins; belief in an earlier answer goes on meanwhile.
Begin(r) ==
  /\ At(r, "idle")
  /\ call' = [call EXCEPT ![r] = [pc |-> "get", began |-> now]]
  /\ UNCHANGED <<now, offset, lease, rvCurrent, belief, late>>

\* Wrong on purpose: a failed call leaves the belief of an earlier one alone.
DeniedSilently(r) ==
  /\ call' = [call EXCEPT ![r] = NoCall]
  /\ UNCHANGED belief

\* ensure_leader answers False.
Denied(r) ==
  /\ call' = [call EXCEPT ![r] = NoCall]
  /\ belief' = [belief EXCEPT ![r] = NoBelief]

\* Wrong on purpose: the Lease is judged by when it was asked for, whoever it
\* belongs to.
CompetesAlways(r) ==
  /\ At(r, "get")
  /\ rvCurrent' = rvCurrent \cup {r}
  /\ call' = [call EXCEPT ![r].pc = "write"]
  /\ UNCHANGED <<now, offset, lease, belief, late>>

\* The GET finds no Lease, our own, or one that seems to have expired.
Competes(r) ==
  /\ At(r, "get")
  /\ lease.holder \in {Nobody, r} \/ ~Fresh(Stamp(r))
  /\ rvCurrent' = rvCurrent \cup {r}
  /\ call' = [call EXCEPT ![r].pc = "write"]
  /\ UNCHANGED <<now, offset, lease, belief, late>>

\* The GET finds the Lease of another replica in force.
Standby(r) ==
  /\ At(r, "get")
  /\ lease.holder \notin {Nobody, r} /\ Fresh(Stamp(r))
  /\ Denied(r)
  /\ UNCHANGED <<now, offset, lease, rvCurrent, late>>

\* A POST or PATCH that read the clock at time t takes effect: requests that
\* are bound to an older version will be refused.
Applied(r, t) ==
  /\ lease' = [holder |-> r, renew |-> t + offset[r]]
  /\ rvCurrent' = {}
  /\ late' = {}

Write(r) ==
  /\ At(r, "write")
  /\ r \in rvCurrent
  /\ Applied(r, call[r].began)
  /\ call' = [call EXCEPT ![r].pc = "answer"]
  /\ UNCHANGED <<now, offset, belief>>

WriteConflicts(r) ==
  /\ At(r, "write")
  /\ r \notin rvCurrent
  /\ Denied(r)
  /\ UNCHANGED <<now, offset, lease, rvCurrent, late>>

\* Wrong on purpose: leadership is believed before the Lease is written.
VerifiedEarly(r) ==
  /\ call[r].pc \in {"write", "answer"}
  /\ now - call[r].began < Duration
  /\ call' = [call EXCEPT ![r] = NoCall]
  /\ belief' = [belief EXCEPT ![r] = [leader |-> TRUE, at |-> now]]
  /\ UNCHANGED <<now, offset, lease, rvCurrent, late>>

\* The answer shows our Lease, still in force by our clock: _verified_ours.
Verified(r) ==
  /\ At(r, "answer")
  /\ now - call[r].began < Duration
  /\ call' = [call EXCEPT ![r] = NoCall]
  /\ belief' = [belief EXCEPT ![r] = [leader |-> TRUE, at |-> now]]
  /\ UNCHANGED <<now, offset, lease, rvCurrent, late>>

\* A request fails, its answer is lost or comes when the Lease is over.  A
\* write that is given up may still reach the server.
Fails(r) ==
  /\ ~At(r, "idle")
  /\ Denied(r)
  /\ \/ UNCHANGED late
     \/ /\ At(r, "write") /\ r \in rvCurrent
        /\ late' = late \cup {[by |-> r, began |-> call[r].began]}
  /\ UNCHANGED <<now, offset, lease, rvCurrent>>

\* Leadership is given up: the API is lost, the loop stops, a request thread
\* finds the verification aged, or the process dies and starts again.
Invalidates(r) ==
  /\ belief[r].leader
  /\ belief' = [belief EXCEPT ![r] = NoBelief]
  /\ UNCHANGED <<now, offset, lease, rvCurrent, call, late>>

\* A write that was given up reaches the server after all.
Lands(w) ==
  /\ w \in late
  /\ Applied(w.by, w.began)
  /\ UNCHANGED <<now, offset, call, belief>>

\* Time goes on, but not past the end of the longest call.
Tick ==
  /\ now < Horizon
  /\ \A r \in Replica : ~At(r, "idle") => now < call[r].began + Latency
  /\ now' = now + 1
  /\ UNCHANGED <<offset, lease, rvCurrent, call, belief, late>>

Next ==
  \/ \E r \in Replica :
       \/ Begin(r) \/ Competes(r) \/ Standby(r)
       \/ Write(r) \/ WriteConflicts(r) \/ Verified(r) \/ Fails(r)
       \/ Invalidates(r)
  \/ \E w \in late : Lands(w)
  \/ Tick

Spec == Init /\ [][Next]_vars

-----------------------------------------------------------------------------
\* Wrong on purpose: the whole duration of the Lease is trusted.
LeadsLong(r) ==
  /\ belief[r].leader
  /\ now - belief[r].at <= Duration

\* leadership_fresh(), and the leader's share of ready().
Leads(r) ==
  /\ belief[r].leader
  /\ now - belief[r].at <= FreshWindow

\* The time between the holder's clock reading and now.
Age == now - (lease.renew - offset[lease.holder])

\* The settings and the network are such that belief ends before the Lease.
Timely ==
  /\ FreshWindow + Latency + Skew < Duration
  /\ Latency + Skew <= Tolerance

\* Two replicas never pass leadership_fresh() at once, although a deposed leader
\* is not told, writes may land late, and clocks disagree.
AtMostOneLeads == \A r, q \in Replica : Leads(r) /\ Leads(q) => r = q

\* A replica that passes leadership_fresh() holds the Lease, and the Lease is in
\* force: readiness needs a fresh Lease, not just a fresh answer.
LeadsByTheLease ==
  \A r \in Replica : Leads(r) => lease.holder = r /\ Age < Duration

\* ensure_leader takes no Lease over that its holder renewed recently, up to the
\* error of the clocks.
TakenWhenExpired ==
  [][lease.holder # Nobody /\ lease'.holder # lease.holder
       => Age >= Duration - Skew]_vars

-----------------------------------------------------------------------------
\* The inductive invariant.

\* What a replica that read its clock at time s may rely on: either it still
\* holds the Lease with a renewTime of s or later, or enough time has passed
\* for somebody else to take the Lease over.
Ground(r, s) ==
  \/ lease.holder = r /\ lease.renew >= s + offset[r]
  \/ now >= s + Duration - Skew

\* No stamp in the Lease is ahead of the fastest clock.
StampsArePast == lease.renew <= now + Skew

CallsAreShort ==
  \A r \in Replica :
    ~At(r, "idle") => /\ 0 <= call[r].began /\ call[r].began <= now
                      /\ now <= call[r].began + Latency

\* A write that began at t and would still be accepted from r does not take a
\* Lease in force from somebody else.
Justified(r, t) ==
  lease.holder \in {Nobody, r} \/ t + offset[r] - lease.renew >= Duration

WritesAreJustified ==
  /\ \A r \in rvCurrent : At(r, "write") => Justified(r, call[r].began)
  /\ \A w \in late : /\ Justified(w.by, w.began)
                     /\ w.began <= now
                     /\ ~belief[w.by].leader
                     /\ ~At(w.by, "answer")

BeliefIsGrounded ==
  \A r \in Replica :
    /\ At(r, "answer") => Ground(r, call[r].began)
    /\ belief[r].leader => /\ Ground(r, belief[r].at - Latency)
                           /\ belief[r].at <= now
                           /\ ~At(r, "idle") => belief[r].at <= call[r].began

\* The invariant the proofs rest on: a write that can still be accepted takes
\* nothing away, and belief is grounded in the Lease or has had its time.
Inv ==
  /\ TypeOK
  /\ StampsArePast
  /\ CallsAreShort
  /\ WritesAreJustified
  /\ BeliefIsGrounded
=============================================================================
