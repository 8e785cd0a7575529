--------------------------- MODULE FleetReconcile ---------------------------
(***************************************************************************)
(* The operator's work on the GPUFleet objects (runtime_v16 to             *)
(* runtime_v1629): list every fleet, reconcile each one, and only then     *)
(* trust the inventory and follow the watch.  A fleet that is not deleted  *)
(* gets a status, one that is deleted loses the protective finalizer when  *)
(* nothing holds it; either write carries the resourceVersion it was       *)
(* planned from, and a conflict is retried once, from a fresh GET.         *)
(*                                                                         *)
(* The API server, the users, the other replica and a watch that repeats   *)
(* old events are the environment.  A resourceVersion is opaque to the     *)
(* code, which only compares those of one object for equality: a version is *)
(* an element of Versions and is used again once nobody holds a copy of it. *)
(***************************************************************************)
EXTENDS Naturals, Sequences

CONSTANTS Fleets,      \* names of GPUFleet objects
          Versions,    \* resourceVersions
          CacheLimit,  \* watch_cache_limit
          MaxEdits,    \* bound on what users and the other replica do
          MaxFaults    \* bound on refused leadership, failed requests, repeated events, restarts

ASSUME VersionsAssumption == Versions # {}
ASSUME LimitAssumption == CacheLimit \in Nat \ {0}
ASSUME BoundAssumption == MaxEdits \in Nat /\ MaxFaults \in Nat

VARIABLES fleet,      \* the API server's object of each name
          edits,      \* what the environment did so far
          faults,
          stream,     \* events the watch will deliver, oldest first
          past,       \* a delivered event the server may deliver once more
          stage,      \* where list_and_watch_once is: "list", "items" or "watch"
          step,       \* where reconcile_object is: "idle", "try", "get" or "retry"
          todo,       \* listed objects not reconciled yet
          listed,     \* listed objects that settled, in order
          deferred,   \* _relist_deferred_in_cycle
          work,       \* the delivery being reconciled
          fresh,      \* the answer of the GET after a conflict
          seen,       \* _watch_seen, oldest entry first
          inventory,  \* stats.inventory_fresh
          done        \* history: the versions whose reconciliation settled

server == <<fleet, edits, faults>>
operator == <<stage, step, todo, listed, deferred, work, fresh, seen, inventory, done>>
vars == <<server, stream, past, operator>>

-----------------------------------------------------------------------------
NoFleet == [uid |-> <<>>]
NoStatus == [gen |-> 0]
NoEvent == [type |-> "NONE"]

Exists(n) == fleet[n] # NoFleet

(* What a status says of the object it was planned from: its generation and *)
(* whether it was approved (phase Progressing or Blocked).                  *)
Status(o) == [gen |-> o.gen, approved |-> o.approved]

Event(type, o) == [type |-> type, obj |-> o]

(* Every copy of an object that somebody still holds. *)
Copies == {fleet[n] : n \in {m \in Fleets : Exists(m)}} \cup todo
            \cup {listed[i] : i \in DOMAIN listed}
            \cup {stream[i].obj : i \in DOMAIN stream}
            \cup (IF past = NoEvent THEN {} ELSE {past.obj})
            \cup (IF step = "idle" THEN {} ELSE {work.obj})
            \cup (IF step = "retry" THEN {fresh} ELSE {})

InUse(n) == {o.rv : o \in {c \in Copies : c.name = n}}
              \cup {seen[i].rv : i \in {j \in DOMAIN seen : seen[j].uid[1] = n}}

Free(n) == Versions \ InUse(n)
NewVersion(n) == CHOOSE v \in Free(n) : TRUE

(* A uid is never given to a second object: the name and the edit that made it. *)
NewFleet(n, age, v) ==
  [name |-> n, uid |-> <<n, age>>, gen |-> 1, rv |-> v, approved |-> FALSE,
   deleting |-> FALSE, held |-> FALSE, guarded |-> TRUE, status |-> NoStatus]

Init == /\ edits = 0 /\ faults = 0
        /\ \E present, deleting \in SUBSET Fleets :
             fleet = [n \in Fleets |->
                        IF n \in present
                        THEN [NewFleet(n, 0, CHOOSE v \in Versions : TRUE) EXCEPT !.deleting = n \in deleting]
                        ELSE NoFleet]
        /\ stream = <<>> /\ past = NoEvent
        /\ stage = "list" /\ step = "idle"
        /\ todo = {} /\ listed = <<>> /\ deferred = FALSE
        /\ work = NoEvent /\ fresh = NoFleet
        /\ seen = <<>> /\ inventory = FALSE /\ done = {}

-----------------------------------------------------------------------------
(* The API server: a change of an object gets a new version and, while a    *)
(* list or a watch is under way, becomes an event of it.                    *)
Publish(event) == stream' = IF stage = "list" THEN <<>> ELSE Append(stream, event)

Becomes(n, type, o) ==
  /\ Free(n) # {}
  /\ LET new == [o EXCEPT !.rv = NewVersion(n)]
     IN  /\ fleet' = [fleet EXCEPT ![n] = IF type = "DELETED" THEN NoFleet ELSE new]
         /\ Publish(Event(type, new))

(* History: these versions were settled too; a version nobody holds any more *)
(* is forgotten, because it may be used again.                               *)
Key(o) == <<o.name, o.rv>>
Settled(objects) == done' = {k \in done \cup {Key(o) : o \in objects} : k[2] \in InUse(k[1])}

(* What a PATCH planned from a version o of the object does to it: the       *)
(* finalizer goes, and the object with it unless another finalizer keeps it, *)
(* or the status is written.                                                 *)
Patch(n, o) ==
  \/ /\ o.deleting
     /\ \E type \in {"DELETED", "MODIFIED"} :
          Becomes(n, type, [fleet[n] EXCEPT !.guarded = FALSE])
  \/ /\ ~o.deleting
     /\ Becomes(n, "MODIFIED", [fleet[n] EXCEPT !.status = Status(o)])

Matches(o) == Exists(o.name) /\ fleet[o.name].rv = o.rv

(* _finalizer_plan and _status_plan: nothing left to do, or a write to make. *)
ReleasedEarly(o) == o.deleting
HeldAlways(o) == o.held
Released(o) == o.deleting /\ ~o.guarded
Held(o) == o.deleting /\ o.guarded /\ o.held
Planned(o) == ~Released(o) /\ ~Held(o)

(* What users do to a fleet, and the same writes of another replica. *)
Edit(n) ==
  /\ edits < MaxEdits
  /\ edits' = edits + 1
  /\ \/ /\ Exists(n) /\ ~fleet[n].deleting
        /\ \/ Becomes(n, "MODIFIED", [fleet[n] EXCEPT !.gen = @ + 1])
           \/ Becomes(n, "MODIFIED", [fleet[n] EXCEPT !.approved = ~@])
           \/ fleet[n].guarded /\ Becomes(n, "MODIFIED", [fleet[n] EXCEPT !.deleting = TRUE, !.gen = @ + 1])
     \/ Exists(n) /\ Becomes(n, "MODIFIED", [fleet[n] EXCEPT !.held = ~@])
     \/ Exists(n) /\ Planned(fleet[n]) /\ Patch(n, fleet[n])
     \/ Exists(n) /\ Released(fleet[n]) /\ Becomes(n, "DELETED", fleet[n])
     \/ ~Exists(n) /\ Becomes(n, "ADDED", NewFleet(n, edits + 1, 0))
  /\ UNCHANGED <<faults, past, stage, step, todo, listed, deferred, work, fresh, seen, inventory>>
  /\ Settled({})

Fault == faults < MaxFaults /\ faults' = faults + 1
NoFault == faults' = faults

-----------------------------------------------------------------------------
(* The watch cache. *)
Known(uid) == {i \in DOMAIN seen : seen[i].uid = uid}
Entry(type, o) == [type |-> type, uid |-> o.uid, gen |-> o.gen, rv |-> o.rv]

RememberAll(cache, entry) ==
  IF \E i \in DOMAIN cache : cache[i].uid = entry.uid
  THEN [i \in DOMAIN cache |-> IF cache[i].uid = entry.uid THEN entry ELSE cache[i]]
  ELSE Append(cache, entry)

(* _remember_watch_state: a full cache forgets its oldest entry for a new one. *)
Remember(cache, entry) ==
  IF \E i \in DOMAIN cache : cache[i].uid = entry.uid
  THEN [i \in DOMAIN cache |-> IF cache[i].uid = entry.uid THEN entry ELSE cache[i]]
  ELSE Append(IF Len(cache) >= CacheLimit THEN Tail(cache) ELSE cache, entry)

(* The entries of the cache whose uids are among these. *)
Keep(cache, uids) ==
  LET kept[i \in 0..Len(cache)] ==
        IF i = 0 THEN <<>>
        ELSE IF cache[i].uid \in uids THEN Append(kept[i - 1], cache[i]) ELSE kept[i - 1]
  IN  kept[Len(cache)]

(* _seed_watch_state_from_list. *)
Seeded(cache, objects) ==
  LET after[i \in 0..Len(objects)] ==
        IF i = 0 THEN cache ELSE Remember(after[i - 1], Entry("LIST", objects[i]))
  IN  after[Len(objects)]

(* _watch_event_disposition. *)
RepeatsGeneration(e) == \E i \in Known(e.obj.uid) : seen[i].gen = e.obj.gen

Repeats(e) ==
  \E i \in Known(e.obj.uid) :
    /\ seen[i].rv = e.obj.rv /\ seen[i].gen = e.obj.gen
    /\ \/ e.type = seen[i].type
       \/ e.type # "DELETED" /\ seen[i].type # "DELETED"

Outdated(e) ==
  /\ ~Repeats(e)
  /\ \E i \in Known(e.obj.uid) : e.obj.gen < seen[i].gen

-----------------------------------------------------------------------------
(* How reconcile_object ends.  Settled work is kept; work that is put off    *)
(* makes the list incomplete, or ends the watch and forgets the fingerprint  *)
(* that was staged for it.  An exception ends the cycle at once.             *)
Relist == stage' = "list" /\ inventory' = FALSE

Idle == step' = "idle" /\ work' = NoEvent /\ fresh' = NoFleet

Settle == /\ Idle
          /\ listed' = IF stage = "items" THEN Append(listed, work.obj) ELSE listed
          /\ UNCHANGED <<stage, todo, deferred, seen, inventory>>

Restored == IF work.prior = NoEvent
            THEN Keep(seen, {seen[i].uid : i \in DOMAIN seen} \ {work.obj.uid})
            ELSE Remember(seen, work.prior)

Defer == /\ Idle
         /\ IF stage = "items"
            THEN deferred' = TRUE /\ UNCHANGED <<stage, seen, inventory>>
            ELSE Relist /\ seen' = Restored /\ UNCHANGED deferred
         /\ UNCHANGED <<todo, listed>>

Abort == /\ Relist /\ Idle /\ todo' = {}
         /\ seen' = IF stage = "watch" THEN Restored ELSE seen
         /\ UNCHANGED <<listed, deferred>>

-----------------------------------------------------------------------------
(* list_and_watch_once: the listing. *)
List == /\ stage = "list" /\ step = "idle"
        /\ todo' = {fleet[n] : n \in {m \in Fleets : Exists(m)}}
        /\ seen' = Keep(seen, {o.uid : o \in todo'})
        /\ stream' = <<>> /\ listed' = <<>> /\ deferred' = FALSE
        /\ stage' = "items" /\ inventory' = FALSE
        /\ UNCHANGED <<server, past, step, work, fresh, done>>

Delivery(type, o, prior) == [type |-> type, obj |-> o, prior |-> prior]

TakeItem == /\ stage = "items" /\ step = "idle"
            /\ \E o \in todo : work' = Delivery("ADDED", o, NoEvent) /\ todo' = todo \ {o}
            /\ step' = "try"
            /\ UNCHANGED <<server, stream, past, stage, listed, deferred, fresh, seen, inventory, done>>

(* The settlement barrier: the inventory is trusted, and the watch opened,   *)
(* only when every listed object has settled.                                *)
Complete == todo = {} /\ ~deferred

ListSettled == /\ stage = "items" /\ step = "idle" /\ Complete
               /\ stage' = "watch" /\ inventory' = TRUE
               /\ seen' = Seeded(seen, listed)
               /\ listed' = <<>>
               /\ UNCHANGED <<server, stream, past, step, todo, deferred, work, fresh, done>>

ListDeferred == /\ stage = "items" /\ step = "idle" /\ todo = {} /\ ~Complete
                /\ Relist /\ listed' = <<>>
                /\ UNCHANGED <<server, stream, past, step, todo, deferred, work, fresh, seen, done>>

(* The watch: the next event, or an old one once more. *)
Delivered(e) ==
  /\ past' \in IF faults < MaxFaults THEN {past} \cup (IF past = NoEvent THEN {e} ELSE {}) ELSE {NoEvent}
  /\ \/ Repeats(e) /\ UNCHANGED <<stage, step, work, seen, inventory>>
     \/ Outdated(e) /\ Relist /\ UNCHANGED <<step, work, seen>>
     \/ /\ ~Repeats(e) /\ ~Outdated(e)
        /\ \E prior \in {NoEvent} \cup {seen[i] : i \in DOMAIN seen} :
             /\ IF Known(e.obj.uid) = {} THEN prior = NoEvent
                ELSE \E i \in Known(e.obj.uid) : prior = seen[i]
             /\ work' = Delivery(e.type, e.obj, prior)
        /\ seen' = Remember(seen, Entry(e.type, e.obj))
        /\ step' = "try"
        /\ UNCHANGED <<stage, inventory>>
  /\ UNCHANGED <<fleet, edits, todo, listed, deferred, fresh, done>>

NextEvent == /\ stage = "watch" /\ step = "idle" /\ stream # <<>>
             /\ Delivered(Head(stream)) /\ stream' = Tail(stream) /\ NoFault

OldEvent == /\ stage = "watch" /\ step = "idle" /\ past # NoEvent
            /\ Fault /\ Delivered(past) /\ UNCHANGED stream

(* Bookmarks and unknown lines aside: end of the stream, an ERROR line, a    *)
(* line that is not an event, or a broken connection.                        *)
WatchEnds == /\ stage = "watch" /\ step = "idle"
             /\ Relist
             /\ UNCHANGED <<server, stream, past, step, todo, listed, deferred, work, fresh, seen, done>>

-----------------------------------------------------------------------------
(* reconcile_object. *)
NothingToDo == /\ step = "try"
               /\ \/ work.type = "DELETED" /\ ~work.obj.deleting
                  \/ Released(work.obj)
               /\ Settle /\ Settled({work.obj})
               /\ UNCHANGED <<server, stream, past>>

(* The writes of reconcile_object that are due, in the step that sends them. *)
Due(o) == Planned(o) /\ ~(work.type = "DELETED" /\ ~o.deleting)

(* A held deletion, or leadership refused: put off. *)
PutOff == /\ step = "try"
          /\ \/ Held(work.obj) /\ NoFault
             \/ Due(work.obj) /\ Fault
          /\ Defer
          /\ UNCHANGED <<fleet, edits, stream, past, done>>

Patched == /\ step = "try" /\ Due(work.obj) /\ Matches(work.obj)
           /\ Patch(work.obj.name, work.obj)
           /\ Settle /\ Settled({work.obj})
           /\ UNCHANGED <<edits, faults, past>>

(* 409: read the object again.  A fleet that is gone answers 404, which ends *)
(* the cycle for a status and puts a finalizer off.                          *)
PatchConflicts == /\ step = "try" /\ Due(work.obj) /\ Exists(work.obj.name) /\ ~Matches(work.obj)
                  /\ step' = "get"
                  /\ UNCHANGED <<server, stream, past, stage, todo, listed, deferred, work, fresh, seen, inventory, done>>

FleetGone == /\ step = "try" /\ Due(work.obj) /\ ~Exists(work.obj.name)
             /\ IF work.obj.deleting THEN Defer ELSE Abort
             /\ UNCHANGED <<server, stream, past, done>>

(* The request fails before or after the server applied it, or the answer    *)
(* does not prove the write.                                                 *)
PatchFails == /\ step = "try" /\ Due(work.obj) /\ Fault
              /\ \/ Abort /\ UNCHANGED <<fleet, stream, done>>
                 \/ /\ Matches(work.obj) /\ Patch(work.obj.name, work.obj) /\ Settled({})
                    /\ Abort \/ Defer
              /\ UNCHANGED <<edits, past>>

(* What a conflicted write may be retried on: the same incarnation, with the *)
(* decision unchanged.                                                       *)
SameIncarnation(o) == o.uid = work.obj.uid
RetryableAnyway(o) == /\ SameIncarnation(o) /\ Planned(o)
                      /\ o.deleting = work.obj.deleting
RetryableHeld(o) == /\ SameIncarnation(o)
                    /\ o.deleting = work.obj.deleting
                    /\ ~o.deleting => o.approved = work.obj.approved
Retryable(o) == /\ SameIncarnation(o) /\ Planned(o)
                /\ o.deleting = work.obj.deleting
                /\ ~o.deleting => o.approved = work.obj.approved

Get == /\ step = "get" /\ Exists(work.obj.name)
       /\ LET o == fleet[work.obj.name]
          IN  \/ /\ Retryable(o)
                 /\ fresh' = o /\ step' = "retry"
                 /\ UNCHANGED <<work, stage, todo, listed, deferred, seen, inventory, done>>
              \/ /\ work.obj.deleting /\ SameIncarnation(o) /\ Released(o)
                 /\ Settle /\ Settled({work.obj, o})
              \/ /\ ~Retryable(o) /\ ~(work.obj.deleting /\ SameIncarnation(o) /\ Released(o))
                 /\ Defer /\ UNCHANGED done
       /\ UNCHANGED <<server, stream, past>>

(* The GET fails or leadership is refused before it, or the fleet is gone. *)
GetFails == /\ step = "get"
            /\ \/ Fault
               \/ ~Exists(work.obj.name) /\ NoFault
            /\ Defer
            /\ UNCHANGED <<fleet, edits, stream, past, done>>

Retried == /\ step = "retry" /\ Matches(fresh)
           /\ Patch(fresh.name, fresh)
           /\ Settle /\ Settled({work.obj, fresh})
           /\ UNCHANGED <<edits, faults, past>>

(* A second conflict, refused leadership or a failed request: fenced. *)
RetryFails == /\ step = "retry"
              /\ \/ ~Matches(fresh) /\ NoFault /\ UNCHANGED <<fleet, stream, done>>
                 \/ Fault /\ UNCHANGED <<fleet, stream, done>>
                 \/ Fault /\ Matches(fresh) /\ Patch(fresh.name, fresh) /\ Settled({})
              /\ Defer
              /\ UNCHANGED <<edits, past>>

(* The operator is stopped and started: only the API server remembers. *)
Restart == /\ Fault
           /\ stage' = "list" /\ step' = "idle" /\ todo' = {} /\ listed' = <<>> /\ deferred' = FALSE
           /\ work' = NoEvent /\ fresh' = NoFleet /\ seen' = <<>> /\ inventory' = FALSE
           /\ UNCHANGED <<fleet, edits, stream, past, done>>

Reconcile == NothingToDo \/ PutOff \/ Patched \/ PatchConflicts \/ FleetGone \/ PatchFails
               \/ Get \/ GetFails \/ Retried \/ RetryFails

Operator == List \/ TakeItem \/ ListSettled \/ ListDeferred
              \/ NextEvent \/ OldEvent \/ WatchEnds \/ Reconcile

Next == Operator \/ Restart \/ \E n \in Fleets : Edit(n)

Spec == Init /\ [][Next]_vars

(* A request is answered or times out, and a watch ends after               *)
(* watch_timeout_seconds: the loop never stays where it is.                 *)
FairSpec == Spec /\ WF_vars(Operator)

-----------------------------------------------------------------------------
Version(o) == o.name \in Fleets /\ o.rv \in Versions /\ o.gen \in Nat

TypeOK ==
  /\ \A n \in Fleets : Exists(n) => Version(fleet[n]) /\ fleet[n].name = n
  /\ edits \in 0..MaxEdits /\ faults \in 0..MaxFaults
  /\ stage \in {"list", "items", "watch"} /\ step \in {"idle", "try", "get", "retry"}
  /\ \A o \in Copies : Version(o)
  /\ Len(seen) <= CacheLimit
  /\ deferred \in BOOLEAN /\ inventory \in BOOLEAN /\ done \subseteq Fleets \X Versions

(* While the inventory is trusted, nothing is missed: the present version of *)
(* every fleet has been settled, is being reconciled, or is still to come    *)
(* from the watch - whatever was deferred, repeated, outdated or evicted.    *)
TrustedMissesNothing ==
  inventory => \A n \in Fleets : Exists(n) =>
                 \/ Key(fleet[n]) \in done
                 \/ \E i \in DOMAIN stream : stream[i].obj = fleet[n]
                 \/ step # "idle" /\ work.obj = fleet[n]

(* A status is only ever written on the very version it describes, on the    *)
(* incarnation and under the approval the reconciliation began with: neither *)
(* a conflict nor a late answer makes the operator write an old decision.    *)
StatusTrue ==
  [][\A n \in Fleets :
       Exists(n) /\ Exists(n)' /\ fleet'[n].uid = fleet[n].uid /\ fleet'[n].status # fleet[n].status =>
         /\ fleet'[n].status = Status(fleet'[n])
         /\ edits' = edits => /\ fleet[n].uid = work.obj.uid /\ ~fleet[n].deleting
                              /\ fleet[n].approved = work.obj.approved]_vars

(* The protective finalizer stays as long as the fleet is not being deleted, *)
(* or a rollback, an execution or a quarantine holds it - even when the hold *)
(* appears between the read and the write.                                   *)
ProtectedUntilSafe ==
  [][\A n \in Fleets :
       Exists(n) /\ fleet[n].guarded /\ ~(Exists(n)' /\ fleet'[n].guarded) =>
         fleet[n].deleting /\ ~fleet[n].held]_vars

(* A fleet whose status is not true of it gets a new one, or is deleted.     *)
Described(n) == Exists(n) /\ ~fleet[n].deleting => fleet[n].status = Status(fleet[n])
EventuallyDescribed == \A n \in Fleets : []<>Described(n)

(* A deleted fleet that nothing holds loses the finalizer, however many      *)
(* other fleets are held.                                                    *)
EventuallyReleased == \A n \in Fleets : []<>(Exists(n) /\ fleet[n].deleting => ~fleet[n].guarded \/ fleet[n].held)

(* "Stable status fingerprints to suppress redundant Kubernetes status       *)
(* writes": when nobody else changes anything, the operator stops writing.   *)
Quiesces == <>[][UNCHANGED fleet]_vars
=============================================================================
