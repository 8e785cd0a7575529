------------------------- MODULE LeaseElectionProofs -------------------------
(***************************************************************************)
(* When the settings are Timely, leadership is exclusive: for every number *)
(* of replicas, all clocks within Skew of each other, and any settings.    *)
(***************************************************************************)
EXTENDS LeaseElection, TLAPS

\* What the constants are, in one place.
LEMMA Settings ==
  /\ Nobody \notin Replica
  /\ Duration \in Nat /\ Tolerance \in Nat /\ FreshWindow \in Nat
  /\ Latency \in Nat /\ Skew \in Nat /\ Horizon \in Nat
BY NobodyAssumption, TimeAssumption

\* The clock of a replica is an integer, ahead of true time by Skew at most.
LEMMA ClockTypes ==
  ASSUME TypeOK, NEW r \in Replica
  PROVE  /\ now \in Int /\ lease.renew \in Int
         /\ offset[r] \in Int /\ 0 <= offset[r] /\ offset[r] <= Skew
         /\ call[r] \in Call /\ call[r].began \in Int
         /\ belief[r] \in Belief /\ belief[r].at \in Int
BY Settings DEF TypeOK, Lease, Call, Belief

\* Nothing that answers False makes anybody believe.
LEMMA DeniedTypes ==
  ASSUME TypeOK, NEW r \in Replica, Denied(r)
  PROVE  call' \in [Replica -> Call] /\ belief' \in [Replica -> Belief]
<1>1. NoCall \in Call /\ NoBelief \in Belief
  BY DEF NoCall, NoBelief, Call, Belief, Phase
<1> QED BY <1>1 DEF Denied, TypeOK

\* An accepted write leaves a well-formed Lease.
LEMMA AppliedTypes ==
  ASSUME TypeOK, NEW r \in Replica, NEW t \in Int, Applied(r, t)
  PROVE  lease' \in Lease /\ rvCurrent' \subseteq Replica /\ late' = {}
<1>1. t + offset[r] \in Int
  BY ClockTypes
<1> QED BY <1>1 DEF Applied, Lease

\* Types: one step per action.
LEMMA TypeStep ==
  ASSUME TypeOK, [Next]_vars
  PROVE  TypeOK'
<1> USE DEF TypeOK
<1>1. ASSUME NEW r \in Replica, Begin(r)
      PROVE  TypeOK'
  <2>1. [pc |-> "get", began |-> now] \in Call
    BY Settings DEF Call, Phase
  <2> QED BY <1>1, <2>1 DEF Begin
<1>2. ASSUME NEW r \in Replica, Competes(r)
      PROVE  TypeOK'
  <2>1. [call[r] EXCEPT !.pc = "write"] \in Call
    BY DEF Call, Phase
  <2> QED BY <1>2, <2>1 DEF Competes
<1>3. ASSUME NEW r \in Replica, Standby(r)
      PROVE  TypeOK'
  BY <1>3, DeniedTypes DEF Standby
<1>4. ASSUME NEW r \in Replica, Write(r)
      PROVE  TypeOK'
  <2>1. [call[r] EXCEPT !.pc = "answer"] \in Call
    BY DEF Call, Phase
  <2>2. lease' \in Lease /\ rvCurrent' \subseteq Replica /\ late' = {}
    BY <1>4, ClockTypes, AppliedTypes DEF Write
  <2> QED BY <1>4, <2>1, <2>2 DEF Write
<1>5. ASSUME NEW r \in Replica, WriteConflicts(r)
      PROVE  TypeOK'
  BY <1>5, DeniedTypes DEF WriteConflicts
<1>6. ASSUME NEW r \in Replica, Verified(r)
      PROVE  TypeOK'
  <2>1. NoCall \in Call
    BY DEF NoCall, Call, Phase
  <2>2. [leader |-> TRUE, at |-> now] \in Belief
    BY Settings DEF Belief
  <2> QED BY <1>6, <2>1, <2>2 DEF Verified
<1>7. ASSUME NEW r \in Replica, Fails(r)
      PROVE  TypeOK'
  <2>1. [by |-> r, began |-> call[r].began] \in [by: Replica, began: Int]
    BY ClockTypes
  <2>2. late' \subseteq [by: Replica, began: Int]
    BY <1>7, <2>1 DEF Fails
  <2> QED BY <1>7, <2>2, DeniedTypes DEF Fails
<1>8. ASSUME NEW r \in Replica, Invalidates(r)
      PROVE  TypeOK'
  <2>1. NoBelief \in Belief
    BY DEF NoBelief, Belief
  <2> QED BY <1>8, <2>1 DEF Invalidates
<1>9. ASSUME NEW w \in late, Lands(w)
      PROVE  TypeOK'
  <2>1. w.by \in Replica /\ w.began \in Int
    OBVIOUS
  <2>2. lease' \in Lease /\ rvCurrent' \subseteq Replica /\ late' = {}
    BY <1>9, <2>1, AppliedTypes DEF Lands
  <2> QED BY <1>9, <2>2 DEF Lands
<1>10. CASE Tick
  BY <1>10, Settings DEF Tick
<1>11. CASE UNCHANGED vars
  BY <1>11 DEF vars
<1> QED BY <1>1, <1>2, <1>3, <1>4, <1>5, <1>6, <1>7, <1>8, <1>9, <1>10, <1>11 DEF Next

-----------------------------------------------------------------------------

\* What a replica relies on survives every accepted write that is justified:
\* another's comes too late to disturb it, its own renews it.
LEMMA GroundKept ==
  ASSUME TypeOK, NEW q \in Replica, NEW t \in Int, t <= now, Justified(q, t),
         Applied(q, t), UNCHANGED <<now, offset>>,
         NEW r \in Replica, NEW s \in Int, Ground(r, s), r = q => s <= t
  PROVE  Ground(r, s)'
<1>1. /\ now \in Int /\ lease.renew \in Int /\ offset[r] \in Int /\ offset[q] \in Int
      /\ 0 <= offset[r] /\ offset[q] <= Skew /\ Nobody # r
  BY ClockTypes, Settings
<1>2. lease'.holder = q /\ lease'.renew = t + offset[q]
  BY DEF Applied
<1>3. CASE now >= s + Duration - Skew
  BY <1>3 DEF Ground
<1>4. CASE lease.holder = r /\ lease.renew >= s + offset[r] /\ r = q
  BY <1>1, <1>2, <1>4 DEF Ground
<1>5. CASE lease.holder = r /\ lease.renew >= s + offset[r] /\ r # q
  <2>1. t + offset[q] - lease.renew >= Duration
    BY <1>1, <1>5 DEF Justified
  <2>2. now >= s + Duration - Skew
    BY <1>1, <1>5, <2>1, Settings
  <2> QED BY <2>2 DEF Ground
<1> QED BY <1>3, <1>4, <1>5 DEF Ground

\* Time only helps, and a weaker reliance is implied by a stronger one.
LEMMA GroundAges ==
  ASSUME TypeOK, NEW r \in Replica, NEW s \in Int, NEW u \in Int, u <= s, Ground(r, s),
         UNCHANGED <<lease, offset>>, now' \in Int, now <= now'
  PROVE  Ground(r, u)'
BY ClockTypes, Settings DEF Ground

\* An accepted write is justified, and ends every request of an older version.
LEMMA WriteKeeps ==
  ASSUME Inv, NEW q \in Replica, NEW t \in Int, t <= now, Justified(q, t),
         Applied(q, t), UNCHANGED <<now, offset, belief>>,
         belief[q].leader => belief[q].at <= t + Latency
  PROVE  /\ StampsArePast'
         /\ WritesAreJustified'
         /\ \A r \in Replica : belief[r].leader => Ground(r, belief[r].at - Latency)'
<1>1. TypeOK
  BY DEF Inv
<1>2. StampsArePast'
  <2>1. offset[q] \in Int /\ offset[q] <= Skew /\ now \in Int
    BY <1>1, ClockTypes
  <2> QED BY <2>1, Settings DEF StampsArePast, Applied
<1>3. WritesAreJustified'
  BY DEF Applied, WritesAreJustified
<1>4. ASSUME NEW r \in Replica, belief[r].leader
      PROVE  Ground(r, belief[r].at - Latency)'
  <2>1. belief[r].at - Latency \in Int /\ Ground(r, belief[r].at - Latency)
    BY <1>1, <1>4, ClockTypes, Settings DEF Inv, BeliefIsGrounded
  <2>2. r = q => belief[r].at - Latency <= t
    BY <1>1, <1>4, ClockTypes, Settings
  <2> DEFINE s == belief[r].at - Latency
  <2>3. Ground(r, s)'
    <3> SUFFICES ASSUME NEW u \in Int, u = s
                 PROVE  Ground(r, u)'
      BY <2>1 DEF Ground
    <3> HIDE DEF s
    <3>1. Ground(r, u) /\ (r = q => u <= t)
      BY <2>1, <2>2 DEF s
    <3> QED BY <1>1, <3>1, GroundKept
  <2> QED BY <2>3
<1> QED BY <1>2, <1>3, <1>4

\* A call that answers False ends reliance; what it leaves under way is
\* justified, and its sender does not believe.
LEMMA DeniedKeeps ==
  ASSUME Inv, NEW r \in Replica, ~At(r, "idle"), Denied(r),
         UNCHANGED <<now, offset, lease, rvCurrent>>,
         \/ late' = late
         \/ /\ At(r, "write") /\ r \in rvCurrent
            /\ late' = late \cup {[by |-> r, began |-> call[r].began]}
  PROVE  StampsArePast' /\ CallsAreShort' /\ WritesAreJustified' /\ BeliefIsGrounded'
<1>1. TypeOK /\ StampsArePast /\ CallsAreShort /\ WritesAreJustified /\ BeliefIsGrounded
  BY DEF Inv
<1>2. /\ call' = [call EXCEPT ![r] = NoCall] /\ belief' = [belief EXCEPT ![r] = NoBelief]
      /\ NoCall.pc = "idle" /\ ~NoBelief.leader
      /\ call \in [Replica -> Call] /\ belief \in [Replica -> Belief]
  BY <1>1 DEF Denied, NoCall, NoBelief, TypeOK
<1>3. /\ call'[r].pc = "idle" /\ ~belief'[r].leader
      /\ \A q \in Replica : q # r => call'[q] = call[q] /\ belief'[q] = belief[q]
  BY <1>2
<1>4. StampsArePast'
  BY <1>1 DEF StampsArePast
<1>5. CallsAreShort'
  BY <1>1, <1>3 DEF CallsAreShort, At
<1>6. \A q \in rvCurrent' : At(q, "write")' => Justified(q, call[q].began)'
  <2>1. rvCurrent \subseteq Replica
    BY <1>1 DEF TypeOK
  <2> QED BY <1>1, <1>3, <2>1 DEF WritesAreJustified, At, Justified
<1>7. ASSUME NEW w \in late'
      PROVE  /\ Justified(w.by, w.began)' /\ w.began <= now'
             /\ ~belief'[w.by].leader /\ ~At(w.by, "answer")'
  <2>1. CASE w \in late
    <3>1. w.by \in Replica
      BY <1>1, <2>1 DEF TypeOK
    <3> QED BY <1>1, <1>3, <2>1, <3>1 DEF WritesAreJustified, At, Justified
  <2>2. CASE w = [by |-> r, began |-> call[r].began] /\ At(r, "write") /\ r \in rvCurrent
    <3>1. Justified(r, call[r].began) /\ call[r].began <= now
      BY <1>1, <2>2 DEF WritesAreJustified, CallsAreShort
    <3> QED BY <1>3, <2>2, <3>1 DEF At, Justified
  <2> QED BY <1>7, <2>1, <2>2
<1>8. WritesAreJustified'
  BY <1>6, <1>7 DEF WritesAreJustified
<1>9. BeliefIsGrounded'
  BY <1>1, <1>3 DEF BeliefIsGrounded, At, Ground
<1> QED BY <1>4, <1>5, <1>8, <1>9

\* A Lease that seems to have expired has: the clock was read a short while ago,
\* and a renewTime that far ahead of it is nobody's.
LEMMA CompetesJustified ==
  ASSUME Inv, Timely, NEW r \in Replica, Competes(r)
  PROVE  Justified(r, call[r].began)
<1>1. TypeOK /\ lease.renew <= now + Skew /\ now <= call[r].began + Latency
  BY DEF Inv, StampsArePast, CallsAreShort, Competes, At
<1>2. CASE lease.holder \in {Nobody, r}
  BY <1>2 DEF Justified
<1>3. CASE ~Fresh(Stamp(r))
  <2>1. /\ now \in Int /\ lease.renew \in Int /\ call[r].began \in Int
        /\ offset[r] \in Int /\ 0 <= offset[r] /\ Latency + Skew <= Tolerance
    BY <1>1, ClockTypes DEF Timely
  <2>2. lease.renew - (call[r].began + offset[r]) <= Tolerance
    BY <1>1, <2>1, Settings
  <2>3. ~(call[r].began + offset[r] - lease.renew < Duration)
    BY <1>3, <2>1, <2>2 DEF Fresh, Stamp
  <2> QED BY <2>1, <2>3, Settings DEF Justified
<1> QED BY <1>2, <1>3 DEF Competes

\* The invariant: one step per action, and under it what the action disturbs.
LEMMA InvStep ==
  ASSUME Inv, Timely, [Next]_vars
  PROVE  Inv'
<1>1. TypeOK /\ StampsArePast /\ CallsAreShort /\ WritesAreJustified /\ BeliefIsGrounded
  BY DEF Inv
<1>2. TypeOK'
  BY <1>1, TypeStep
<1>t. call \in [Replica -> Call] /\ belief \in [Replica -> Belief] /\ rvCurrent \subseteq Replica
  BY <1>1 DEF TypeOK
<1>3. ASSUME NEW r \in Replica, Begin(r)
      PROVE  Inv'
  <2>1. /\ call'[r] = [pc |-> "get", began |-> now]
        /\ \A q \in Replica : q # r => call'[q] = call[q]
    BY <1>3, <1>t DEF Begin
  <2>2. StampsArePast'
    BY <1>1, <1>3 DEF Begin, StampsArePast
  <2>3. CallsAreShort'
    BY <1>1, <1>3, <2>1, Settings DEF Begin, CallsAreShort, At, TypeOK
  <2>4. WritesAreJustified'
    <3>1. \A w \in late : w.by \in Replica
      BY <1>1 DEF TypeOK
    <3> QED BY <1>1, <1>3, <1>t, <2>1, <3>1 DEF Begin, WritesAreJustified, Justified, At
  <2>5. BeliefIsGrounded'
    <3>1. \A q \in Replica : ~At(q, "idle")' /\ q # r => ~At(q, "idle")
      BY <2>1 DEF At
    <3> QED BY <1>1, <1>3, <2>1, <3>1 DEF Begin, BeliefIsGrounded, Ground, At
  <2> QED BY <1>2, <2>2, <2>3, <2>4, <2>5 DEF Inv
<1>4. ASSUME NEW r \in Replica, Competes(r)
      PROVE  Inv'
  <2>1. /\ call'[r].pc = "write" /\ call'[r].began = call[r].began
        /\ \A q \in Replica : q # r => call'[q] = call[q]
    BY <1>4, <1>t DEF Competes, Call
  <2>2. ~At(r, "idle") /\ Justified(r, call[r].began)
    BY <1>4, CompetesJustified DEF Competes, At
  <2>3. StampsArePast'
    BY <1>1, <1>4 DEF Competes, StampsArePast
  <2>4. CallsAreShort'
    BY <1>1, <1>4, <2>1, <2>2 DEF Competes, CallsAreShort, At
  <2>5. WritesAreJustified'
    <3>1. \A w \in late : w.by \in Replica
      BY <1>1 DEF TypeOK
    <3> QED BY <1>1, <1>4, <1>t, <2>1, <2>2, <3>1
            DEF Competes, WritesAreJustified, Justified, At
  <2>6. BeliefIsGrounded'
    BY <1>1, <1>4, <2>1, <2>2 DEF Competes, BeliefIsGrounded, Ground, At
  <2> QED BY <1>2, <2>3, <2>4, <2>5, <2>6 DEF Inv
<1>5. ASSUME NEW r \in Replica, Standby(r) \/ WriteConflicts(r) \/ Fails(r)
      PROVE  Inv'
  <2>1. ~At(r, "idle") /\ Denied(r) /\ UNCHANGED <<now, offset, lease, rvCurrent>>
    BY <1>5 DEF Standby, WriteConflicts, Fails, At
  <2>2. \/ late' = late
        \/ /\ At(r, "write") /\ r \in rvCurrent
           /\ late' = late \cup {[by |-> r, began |-> call[r].began]}
    BY <1>5 DEF Standby, WriteConflicts, Fails
  <2> QED BY <1>2, <2>1, <2>2, DeniedKeeps DEF Inv
<1>6. ASSUME NEW r \in Replica, Write(r)
      PROVE  Inv'
  <2>1. /\ call'[r].pc = "answer" /\ call'[r].began = call[r].began /\ ~At(r, "idle")
        /\ \A q \in Replica : q # r => call'[q] = call[q]
    BY <1>6, <1>t DEF Write, Call, At
  <2>2. /\ call[r].began \in Int /\ call[r].began <= now
        /\ Justified(r, call[r].began) /\ Applied(r, call[r].began)
        /\ UNCHANGED <<now, offset, belief>>
    BY <1>1, <1>6, <2>1, ClockTypes DEF Write, WritesAreJustified, CallsAreShort
  <2>3. belief[r].leader => belief[r].at <= call[r].began
    BY <1>1, <2>1 DEF BeliefIsGrounded
  <2>4. belief[r].leader => belief[r].at <= call[r].began + Latency
    BY <1>1, <2>2, <2>3, ClockTypes, Settings
  <2>5. /\ StampsArePast' /\ WritesAreJustified'
        /\ \A q \in Replica : belief[q].leader => Ground(q, belief[q].at - Latency)'
    BY <2>2, <2>4, WriteKeeps
  <2>6. CallsAreShort'
    BY <1>1, <2>1, <2>2 DEF CallsAreShort, At
  <2>7. ASSUME NEW q \in Replica, At(q, "answer")'
        PROVE  Ground(q, call[q].began)'
    <3>1. CASE q = r
      BY <2>1, <2>2, <3>1, <1>1, ClockTypes DEF Ground, Applied
    <3>2. CASE q # r
      <4>1. call'[q] = call[q] /\ Ground(q, call[q].began) /\ call[q].began \in Int
        BY <1>1, <2>1, <2>7, <3>2, ClockTypes DEF BeliefIsGrounded, At
      <4>2. \A s \in Int : s = call[q].began => Ground(q, s)'
        BY <1>1, <2>2, <3>2, <4>1, GroundKept
      <4> QED BY <4>1, <4>2 DEF Ground
    <3> QED BY <3>1, <3>2
  <2>8. BeliefIsGrounded'
    BY <1>1, <2>1, <2>2, <2>3, <2>5, <2>7 DEF BeliefIsGrounded, At
  <2> QED BY <1>2, <2>5, <2>6, <2>8 DEF Inv
<1>7. ASSUME NEW r \in Replica, Verified(r)
      PROVE  Inv'
  <2>1. /\ call'[r].pc = "idle" /\ belief'[r] = [leader |-> TRUE, at |-> now]
        /\ \A q \in Replica : q # r => call'[q] = call[q] /\ belief'[q] = belief[q]
    BY <1>7, <1>t DEF Verified, NoCall
  <2>2. /\ Ground(r, call[r].began) /\ now <= call[r].began + Latency
        /\ At(r, "answer") /\ UNCHANGED <<now, offset, lease, rvCurrent, late>>
    BY <1>1, <1>7 DEF Verified, BeliefIsGrounded, CallsAreShort, At
  <2>3. StampsArePast' /\ CallsAreShort'
    BY <1>1, <2>1, <2>2 DEF StampsArePast, CallsAreShort, At
  <2>4. WritesAreJustified'
    <3>1. \A w \in late : w.by \in Replica /\ w.by # r
      BY <1>1, <2>2 DEF TypeOK, WritesAreJustified
    <3> QED BY <1>1, <1>t, <2>1, <2>2, <3>1 DEF WritesAreJustified, Justified, At
  <2>5. Ground(r, now - Latency)'
    BY <1>1, <2>2, ClockTypes, Settings DEF Ground
  <2>6. now <= now'
    BY <1>1, <2>2, ClockTypes
  <2>7. BeliefIsGrounded'
    BY <1>1, <2>1, <2>2, <2>5, <2>6 DEF BeliefIsGrounded, Ground, At
  <2> QED BY <1>2, <2>3, <2>4, <2>7 DEF Inv
<1>8. ASSUME NEW r \in Replica, Invalidates(r)
      PROVE  Inv'
  <2>1. /\ ~belief'[r].leader /\ \A q \in Replica : q # r => belief'[q] = belief[q]
        /\ UNCHANGED <<now, offset, lease, rvCurrent, call, late>>
    BY <1>8, <1>t DEF Invalidates, NoBelief
  <2>2. StampsArePast' /\ CallsAreShort'
    BY <1>1, <2>1 DEF StampsArePast, CallsAreShort, At
  <2>3. WritesAreJustified'
    <3>1. \A w \in late : w.by \in Replica
      BY <1>1 DEF TypeOK
    <3> QED BY <1>1, <2>1, <3>1 DEF WritesAreJustified, Justified, At
  <2>4. BeliefIsGrounded'
    BY <1>1, <2>1 DEF BeliefIsGrounded, Ground, At
  <2> QED BY <1>2, <2>2, <2>3, <2>4 DEF Inv
<1>9. ASSUME NEW w \in late, Lands(w)
      PROVE  Inv'
  <2>1. /\ w.by \in Replica /\ w.began \in Int /\ w.began <= now
        /\ Justified(w.by, w.began) /\ Applied(w.by, w.began)
        /\ UNCHANGED <<now, offset, call, belief>>
        /\ ~belief[w.by].leader /\ ~At(w.by, "answer")
    BY <1>1, <1>9 DEF TypeOK, Lands, WritesAreJustified
  <2>2. /\ StampsArePast' /\ WritesAreJustified'
        /\ \A q \in Replica : belief[q].leader => Ground(q, belief[q].at - Latency)'
    BY <2>1, WriteKeeps
  <2>3. CallsAreShort'
    BY <1>1, <2>1 DEF CallsAreShort, At
  <2>4. ASSUME NEW q \in Replica, At(q, "answer")'
        PROVE  Ground(q, call[q].began)'
    <3>1. q # w.by /\ Ground(q, call[q].began) /\ call[q].began \in Int
      BY <1>1, <2>1, <2>4, ClockTypes DEF BeliefIsGrounded, At
    <3>2. \A s \in Int : s = call[q].began => Ground(q, s)'
      BY <1>1, <2>1, <3>1, GroundKept
    <3> QED BY <2>1, <3>1, <3>2 DEF Ground
  <2>5. BeliefIsGrounded'
    BY <1>1, <2>1, <2>2, <2>4 DEF BeliefIsGrounded, At
  <2> QED BY <1>2, <2>2, <2>3, <2>5 DEF Inv
<1>10. CASE Tick
  <2>1. /\ now' = now + 1 /\ UNCHANGED <<offset, lease, rvCurrent, call, belief, late>>
        /\ now \in Int /\ lease.renew \in Int
    BY <1>1, <1>10, Settings DEF Tick, TypeOK, Lease
  <2>2. StampsArePast'
    BY <1>1, <2>1, Settings DEF StampsArePast
  <2>3. CallsAreShort'
    <3> SUFFICES ASSUME NEW r \in Replica, ~At(r, "idle")
                 PROVE  /\ 0 <= call[r].began /\ call[r].began <= now + 1
                        /\ now + 1 <= call[r].began + Latency
      BY <2>1 DEF CallsAreShort, At
    <3>1. now < call[r].began + Latency /\ 0 <= call[r].began /\ call[r].began <= now
      BY <1>1, <1>10 DEF Tick, CallsAreShort
    <3> QED BY <1>1, <2>1, <3>1, ClockTypes, Settings
  <2>4. WritesAreJustified'
    <3>1. \A w \in late : w.began \in Int
      BY <1>1 DEF TypeOK
    <3> QED BY <1>1, <2>1, <3>1 DEF WritesAreJustified, Justified, At
  <2>5. ASSUME NEW r \in Replica, NEW s \in Int, Ground(r, s)
        PROVE  Ground(r, s)'
    BY <2>1, <2>5, Settings DEF Ground
  <2>6. BeliefIsGrounded'
    <3> SUFFICES ASSUME NEW r \in Replica
                 PROVE  /\ At(r, "answer") => Ground(r, call[r].began)'
                        /\ belief[r].leader =>
                             /\ Ground(r, belief[r].at - Latency)'
                             /\ belief[r].at <= now + 1
                             /\ ~At(r, "idle") => belief[r].at <= call[r].began
      BY <2>1 DEF BeliefIsGrounded, At
    <3>1. /\ call[r].began \in Int /\ belief[r].at \in Int /\ belief[r].at - Latency \in Int
      BY <1>1, ClockTypes, Settings
    <3>2. At(r, "answer") => Ground(r, call[r].began)'
      BY <1>1, <2>1, <2>5, <3>1 DEF BeliefIsGrounded, Ground
    <3>3. belief[r].leader => Ground(r, belief[r].at - Latency)'
      BY <1>1, <2>1, <2>5, <3>1, Settings DEF BeliefIsGrounded, Ground
    <3>4. belief[r].leader => belief[r].at <= now + 1
      BY <1>1, <2>1, <3>1 DEF BeliefIsGrounded
    <3> QED BY <1>1, <3>2, <3>3, <3>4 DEF BeliefIsGrounded
  <2> QED BY <1>2, <2>2, <2>3, <2>4, <2>6 DEF Inv
<1>11. CASE UNCHANGED vars
  BY <1>2, <1>1, <1>11 DEF vars, Inv, StampsArePast, CallsAreShort, WritesAreJustified,
                         BeliefIsGrounded, Ground, Justified, At
<1> QED BY <1>3, <1>4, <1>5, <1>6, <1>7, <1>8, <1>9, <1>10, <1>11 DEF Next

-----------------------------------------------------------------------------

\* Nobody believes at the start, and no Lease is held.
LEMMA InitInv == Init => Inv
<1> SUFFICES ASSUME Init
             PROVE  Inv
  OBVIOUS
<1>1. TypeOK
  BY Settings DEF Init, TypeOK, Lease, Call, Phase, Belief, NoCall, NoBelief
<1>2. StampsArePast
  BY Settings DEF Init, StampsArePast
<1>3. CallsAreShort /\ WritesAreJustified /\ BeliefIsGrounded
  BY DEF Init, CallsAreShort, WritesAreJustified, BeliefIsGrounded, At, NoCall, NoBelief
<1> QED BY <1>1, <1>2, <1>3 DEF Inv

\* A replica that passes leadership_fresh() still has its ground: the time it
\* was given has not passed, so it holds the Lease.
LEMMA LeadersHold ==
  ASSUME Inv, Timely, NEW r \in Replica, Leads(r)
  PROVE  lease.holder = r /\ Age < Duration
<1>1. TypeOK /\ Ground(r, belief[r].at - Latency)
  BY DEF Inv, BeliefIsGrounded, Leads
<1>2. now - belief[r].at <= FreshWindow /\ FreshWindow + Latency + Skew < Duration
  BY DEF Leads, Timely
<1>3. /\ now \in Int /\ lease.renew \in Int /\ offset[r] \in Int
      /\ belief[r].at \in Int
  BY <1>1, ClockTypes
<1>4. ~(now >= belief[r].at - Latency + Duration - Skew)
  BY <1>2, <1>3, Settings
<1>5. lease.holder = r /\ lease.renew >= belief[r].at - Latency + offset[r]
  BY <1>1, <1>4 DEF Ground
<1>6. now - (lease.renew - offset[r]) < Duration
  BY <1>2, <1>3, <1>5, Settings
<1> QED BY <1>5, <1>6 DEF Age

\* The invariant: whatever can still be written takes nothing away, and belief
\* in leadership is grounded in the Lease, or too old to count.
THEOREM Grounded == Timely => (Spec => []Inv)
<1> SUFFICES ASSUME Timely
             PROVE  Spec => []Inv
  OBVIOUS
<1>1. Inv /\ [Next]_vars => Inv'
  BY InvStep
<1> QED BY InitInv, <1>1, PTL DEF Spec

\* leadership_fresh() answers True in one replica at most, at any one time.
THEOREM Exclusion == Timely => (Spec => []AtMostOneLeads)
<1> SUFFICES ASSUME Timely
             PROVE  Spec => []AtMostOneLeads
  OBVIOUS
<1>1. Inv => AtMostOneLeads
  <2> SUFFICES ASSUME Inv, NEW r \in Replica, NEW q \in Replica, Leads(r), Leads(q)
               PROVE  r = q
    BY DEF AtMostOneLeads
  <2>1. lease.holder = r
    BY LeadersHold
  <2>2. lease.holder = q
    BY LeadersHold
  <2> QED BY <2>1, <2>2
<1>2. Spec => []Inv
  BY Grounded
<1> QED BY <1>1, <1>2, PTL

\* Where leadership_fresh() answers True, the Lease is held and in force.
THEOREM FreshReadiness == Timely => (Spec => []LeadsByTheLease)
<1> SUFFICES ASSUME Timely
             PROVE  Spec => []LeadsByTheLease
  OBVIOUS
<1>1. Inv => LeadsByTheLease
  <2> SUFFICES ASSUME Inv, NEW r \in Replica, Leads(r)
               PROVE  lease.holder = r /\ Age < Duration
    BY DEF LeadsByTheLease
  <2> QED BY LeadersHold
<1>2. Spec => []Inv
  BY Grounded
<1> QED BY <1>1, <1>2, PTL

\* A write that is accepted takes the Lease from another replica only when the
\* Lease has run its time.
LEMMA JustifiedTakeover ==
  ASSUME Inv, NEW q \in Replica, NEW t \in Int, t <= now, Justified(q, t), Applied(q, t),
         lease.holder # Nobody, lease'.holder # lease.holder
  PROVE  Age >= Duration - Skew
<1>1. TypeOK /\ lease'.holder = q
  BY DEF Inv, Applied
<1>2. lease.holder \in Replica /\ t + offset[q] - lease.renew >= Duration
  BY <1>1 DEF TypeOK, Lease, Justified
<1>3. /\ now \in Int /\ lease.renew \in Int /\ offset[q] \in Int /\ offset[q] <= Skew
      /\ offset[lease.holder] \in Int /\ 0 <= offset[lease.holder]
  BY <1>1, <1>2, ClockTypes
<1> QED BY <1>2, <1>3, Settings DEF Age

\* ensure_leader never takes over a Lease that its holder has just renewed.
THEOREM FairTakeover == Timely => (Spec => TakenWhenExpired)
<1> SUFFICES ASSUME Timely
             PROVE  Spec => TakenWhenExpired
  OBVIOUS
<1> DEFINE Taken == lease.holder # Nobody /\ lease'.holder # lease.holder
                      => Age >= Duration - Skew
<1>1. Inv /\ [Next]_vars => [Taken]_vars
  <2> SUFFICES ASSUME Inv, Next, lease.holder # Nobody, lease'.holder # lease.holder
               PROVE  Age >= Duration - Skew
    OBVIOUS
  <2>1. ASSUME NEW r \in Replica, Write(r)
        PROVE  Age >= Duration - Skew
    <3>1. /\ call[r].began \in Int /\ call[r].began <= now
          /\ Justified(r, call[r].began) /\ Applied(r, call[r].began)
      BY <2>1, ClockTypes DEF Inv, Write, WritesAreJustified, CallsAreShort, At
    <3> QED BY <3>1, JustifiedTakeover
  <2>2. ASSUME NEW w \in late, Lands(w)
        PROVE  Age >= Duration - Skew
    <3>1. /\ w.by \in Replica /\ w.began \in Int /\ w.began <= now
          /\ Justified(w.by, w.began) /\ Applied(w.by, w.began)
      BY <2>2 DEF Inv, TypeOK, Lands, WritesAreJustified
    <3> QED BY <3>1, JustifiedTakeover
  <2>3. \/ \E r \in Replica : Write(r)
        \/ \E w \in late : Lands(w)
    BY DEF Next, Begin, Competes, Standby, WriteConflicts, Verified, Fails, Invalidates, Tick
  <2> QED BY <2>1, <2>2, <2>3
<1>2. Spec => []Inv
  BY Grounded
<1>3. Spec => [][Taken]_vars
  BY <1>1, <1>2, PTL DEF Spec
<1> QED BY <1>3 DEF TakenWhenExpired
=============================================================================
