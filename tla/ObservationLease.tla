-------------------------- MODULE ObservationLease --------------------------
(***************************************************************************)
(* The collector_lease table of cache.db, shared by every RDST process     *)
(* (cli/shared/query_registry/observation_store.py): which process may     *)
(* write what it reads from a database, and the fencing token its writes   *)
(* carry.                                                                  *)
(*                                                                         *)
(* acquire_lease, release_lease and every fenced write are one BEGIN       *)
(* IMMEDIATE transaction each, hence one step each.  A row's life is what  *)
(* expires_at says: "live", "lapsed" when the TTL ran out, "released" when *)
(* it was set to zero.  An owner id names one process lifetime, here the   *)
(* process and the number of its life.                                     *)
(***************************************************************************)
EXTENDS Naturals

CONSTANTS
  Procs,   \* the processes sharing cache.db
  Targets, \* the databases they read
  Remote,  \* the processes alone on their machine; the others share one
  NoLease  \* a database without a lease row

VARIABLES
  lease, \* the lease row of each database
  life   \* the number of each process's present life

Owners == Procs \X Nat
LeaseRow == [owner : Owners, token : Nat \ {0}, life : {"live", "lapsed", "released"}]

ASSUME LeaseAssumption == NoLease \notin LeaseRow /\ Remote \subseteq Procs

\* collection_owner: an id for this lifetime of the process.
Owner(p) == <<p, life[p]>>

\* _dead_collection_owner: psutil knows the processes of its own host only.
SameHost(p, q) == p = q \/ {p, q} \cap Remote = {}
KnownDead(p, owner) == SameHost(p, owner[1]) /\ owner[2] # life[owner[1]]

\* The row lets this process in: it is new, its own, expired, or left by a dead process.
Acquirable(p, t) ==
  lease[t] # NoLease =>
    \/ lease[t].owner = Owner(p)
    \/ lease[t].life # "live"
    \/ KnownDead(p, lease[t].owner)

NextTokenFromZero(t) == IF lease[t] = NoLease THEN 0 ELSE lease[t].token + 1 \* mutant

\* acquire_lease: a row that exists gives out its token plus one, whoever asks.
NextToken(t) == IF lease[t] = NoLease THEN 1 ELSE lease[t].token + 1
AcquireLease(p, t) ==
  lease' = [lease EXCEPT ![t] = [owner |-> Owner(p), token |-> NextToken(t), life |-> "live"]]

\* release_lease: the owner expires its row and leaves it in place.
OwnsRow(p, t) == lease[t] # NoLease /\ lease[t].owner = Owner(p)
ReleasedRowGone(p, t) == IF OwnsRow(p, t) THEN NoLease ELSE lease[t] \* mutant: the row is deleted
ReleasedRow(p, t) == IF OwnsRow(p, t) THEN [lease[t] EXCEPT !.life = "released"] ELSE lease[t]
ReleaseLeases(p, names) ==
  lease' = [t \in Targets |-> IF t \in names THEN ReleasedRow(p, t) ELSE lease[t]]

\* _apply_fence: the write names the row's owner and token, and the row is live.
FenceHolds(p, t, token) ==
  /\ OwnsRow(p, t)
  /\ lease[t].token = token
  /\ lease[t].life = "live"

\* The clock passes expires_at.
Lapse(t) ==
  /\ lease[t] # NoLease
  /\ lease[t].life = "live"
  /\ lease' = [lease EXCEPT ![t].life = "lapsed"]
  /\ UNCHANGED life
=============================================================================
