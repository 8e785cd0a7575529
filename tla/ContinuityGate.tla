--------------------------- MODULE ContinuityGate ---------------------------
(***************************************************************************)
(* The decision at the heart of Runtime._continuity_accepts: given the     *)
(* baseline and candidate identity a replica remembers, whether its        *)
(* checkpoint belongs to an earlier Lease transition ("stale"), and the    *)
(* identity the NVIDIA preflight has just observed, is the snapshot        *)
(* accepted, what is remembered next, and must that be persisted first?    *)
(*                                                                         *)
(* An identity is the SnapshotIdentity of the observed NVIDIA resources;   *)
(* only equality of identities matters to the decision.                    *)
(***************************************************************************)
CONSTANTS Identity,     \* the snapshot identities that can be observed
          NoIdentity    \* Python's None: no baseline, or no candidate

ASSUME NoIdentityAssumption == NoIdentity \notin Identity

MaybeIdentity == Identity \cup {NoIdentity}

\* A first observation, a return to the baseline and a repeated candidate are
\* accepted; under a stale checkpoint only a repeated candidate is.
Accepts(base, cand, stale, id) ==
  \/ id = cand
  \/ ~stale /\ (base = NoIdentity \/ id = base)

\* An accepted identity is the baseline, a refused one becomes the candidate.
NextBase(base, cand, stale, id) ==
  IF Accepts(base, cand, stale, id) THEN id ELSE base

NextCand(base, cand, stale, id) ==
  IF Accepts(base, cand, stale, id) THEN NoIdentity ELSE id

\* Wrong on purpose: a new candidate is not worth a save.
NeedsSaveBaseline(base, cand, stale, id) ==
  stale \/ NextBase(base, cand, stale, id) # base

\* Wrong on purpose: the first baseline is not worth a save.
NeedsSaveChange(base, cand, stale, id) ==
  \/ stale
  \/ base # NoIdentity /\ NextBase(base, cand, stale, id) # base
  \/ NextCand(base, cand, stale, id) # cand

\* A stale checkpoint is always rewritten in the new epoch; otherwise only a
\* change of baseline or candidate is.
NeedsSave(base, cand, stale, id) ==
  \/ stale
  \/ NextBase(base, cand, stale, id) # base
  \/ NextCand(base, cand, stale, id) # cand

\* encode_checkpoint refuses a candidate without a baseline.
Encodable(base, cand) == base # NoIdentity \/ cand = NoIdentity
=============================================================================
