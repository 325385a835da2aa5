-------------------------------- MODULE Evidence --------------------------------
(***************************************************************************)
(* EvidenceRegistry of evidence.py and ExposureCalculator of exposure.py:  *)
(* the latest version of each evidence record and the set of revoked       *)
(* versions, changed only under the registry's lock, and the amount that   *)
(* trusted policy grants for a snapshot of records.  Digests are modelled  *)
(* by the records themselves; a record is any member of Record.            *)
(***************************************************************************)
EXTENDS Naturals, Sequences, FiniteSetsExt

CONSTANTS
  Record,     \* what issuers may try to register
  Authority,  \* configured <<authority, issuer, permitted kind>>
  MaxAge,     \* max_age_seconds of an authority
  Skew,       \* future_skew_seconds of authorities and verifiers
  Tier,       \* exposure tiers of the trusted policy
  Subject,    \* the transaction the evidence is about
  N,          \* evidence ids are 1..N, in the order they are sorted
  MaxTime,    \* bound: the clock stops here
  None

EvidenceAssumption ==
  /\ N \in Nat \ {0} /\ MaxAge \in Nat \ {0} /\ Skew \in Nat /\ MaxTime \in Nat
  /\ \A r \in Record : r.id \in 1..N /\ r.version \in Nat /\ r.observed \in Nat
                       /\ r.expires \in Nat
  /\ \A t \in Tier : t.cap \in Nat
  /\ None \notin Record

VARIABLES
  latest,     \* _latest: the newest registered record of each id, or None
  revoked,    \* _revoked: <<id, version>>
  clock

registry == <<latest, revoked>>

-------------------------------------------------------------------------------
(* min(observed_at + max_age, expires_at) *)
EffectiveExpiry(r) == Min({r.observed + MaxAge, r.expires})

Fresh(r, now) == r.observed <= now + Skew /\ now < EffectiveExpiry(r)

SameIdentity(r, s) ==
  <<r.authority, r.issuer, r.kind, r.subject>> = <<s.authority, s.issuer, s.kind, s.subject>>

(* get_fresh: the record of e may be used at time now. *)
Usable(e, now) ==
  /\ latest[e] # None
  /\ <<e, latest[e].version>> \notin revoked
  /\ Fresh(latest[e], now)

(* One iteration of assert_snapshot_current, for the binding r. *)
Current(r, now) == Usable(r.id, now) /\ latest[r.id] = r

(* A bug the properties must notice: a version number may go back. *)
SupersedesUnordered(r, prior) == SameIdentity(r, prior) /\ r.observed >= prior.observed

(* What register demands of a new version of a known id. *)
Supersedes(r, prior) ==
  /\ SameIdentity(r, prior)
  /\ r.version > prior.version
  /\ r.observed >= prior.observed

(* register, at a time the caller read earlier.  Repeating the latest      *)
(* version with the same content changes nothing.                          *)
Register(r) ==
  /\ <<r.authority, r.issuer, r.kind>> \in Authority
  /\ \E now \in 0..clock : Fresh(r, now)
  /\ latest[r.id] # None => Supersedes(r, latest[r.id])
  /\ latest' = [latest EXCEPT ![r.id] = r]
  /\ UNCHANGED <<revoked, clock>>

(* revoke: only the current version. *)
Revoke(e) ==
  /\ latest[e] # None
  /\ revoked' = revoked \cup {<<e, latest[e].version>>}
  /\ UNCHANGED <<latest, clock>>

Tick ==
  /\ clock < MaxTime
  /\ clock' = clock + 1
  /\ UNCHANGED registry

RegistryInit ==
  /\ latest = [e \in 1..N |-> None]
  /\ revoked = {}
  /\ clock = 0

RegistryNext ==
  \/ \E r \in Record : Register(r)
  \/ \E e \in 1..N : Revoke(e)
  \/ Tick

-------------------------------------------------------------------------------
(* ExposureCalculator.  A snapshot is the sequence of its bound records.   *)

SnapshotExpiry(snapshot) == Min({EffectiveExpiry(snapshot[i]) : i \in DOMAIN snapshot})

(* _satisfied: each requirement is met in full by one record. *)
Satisfied(tier, snapshot) ==
  \A need \in tier.requirements : \E i \in DOMAIN snapshot :
    /\ snapshot[i].kind = need.kind
    /\ snapshot[i].authority \in need.authorities
    /\ need.claims \subseteq snapshot[i].claims

(* calculate: max_irreversible_minor. *)
Cap(snapshot, now) ==
  IF now >= SnapshotExpiry(snapshot) THEN 0
  ELSE Max({0} \cup {t.cap : t \in {u \in Tier : Satisfied(u, snapshot)}})

-------------------------------------------------------------------------------
(* The registry never goes back: the version and observation of an id only *)
(* grow, a version keeps its content and an id its identity, and nothing   *)
(* is unrevoked (register and revoke).                                     *)
RegistryOnlyAdvances ==
  [][/\ revoked \subseteq revoked'
     /\ \A e \in 1..N : latest[e] # None /\ latest'[e] # latest[e] =>
          /\ latest'[e] # None
          /\ latest'[e].version > latest[e].version
          /\ latest'[e].observed >= latest[e].observed
          /\ SameIdentity(latest'[e], latest[e])
          /\ <<e, latest'[e].version>> \notin revoked]_registry
===============================================================================
