------------------------------- MODULE MCStores -------------------------------
(***************************************************************************)
(* What outlives a process, in one model for TLC: the hash-chained file    *)
(* (Audit), and the webhook's event documents and index (Webhook).         *)
(* Both survive crashes of their writers; a behaviour is about one of      *)
(* them, the part, and the other stays as it began.                        *)
(***************************************************************************)
EXTENDS Audit, TLC

CONSTANTS
  Handler, Body, TypeOf, MaxTries, MaxFailures,      \* Webhook
  t1, t2, t3, p1, p2, capture, refund

VARIABLES
  part,
  documents, index, place, handling, receipt, looked, tries, audited, answered, failures

webhookVars ==
  <<documents, index, place, handling, receipt, looked, tries, audited, answered, failures>>

W == INSTANCE Webhook WITH
  pc <- place, event <- handling, seen <- looked, acked <- answered, faults <- failures,
  MaxFaults <- MaxFailures

ASSUME WebhookAssumed == W!WebhookAssumption

MCProcessOf == t1 :> p1 @@ t2 :> p1 @@ t3 :> p2
MCTypeOf    == capture :> "payment.captured" @@ refund :> "refund.processed"

MCInit == part \in {"audit", "webhook"} /\ Init /\ W!Init

MCNext ==
  /\ UNCHANGED part
  /\ \/ part = "audit" /\ Next /\ UNCHANGED webhookVars
     \/ part = "webhook" /\ W!Next /\ UNCHANGED vars

MCFairness ==
  /\ \A t \in Thread : WF_vars(Call(t))
  /\ \A h \in Handler : WF_webhookVars(W!Step(h))
  /\ \A e \in Event : SF_webhookVars(part = "webhook" /\ W!Resend(e))

MCSpec == MCInit /\ [][MCNext]_<<part, vars, webhookVars>> /\ MCFairness

-------------------------------------------------------------------------------
(* The file is one chain that never forks, skips or repeats a number; a    *)
(* record that was returned stays where it was, whatever crashes or loses  *)
(* power later; and nobody is refused before something did fail (the locks *)
(* and the fsync of append, _verify_records).                              *)
ChainIsSound == TypeOK /\ OneChain /\ AcknowledgedStays /\ NoFalseAlarm

(* Behind a partial line nothing is appended or acknowledged until a power *)
(* cut takes it away (_read_records).                                      *)
AppendsFailSafely == NothingBehindATornLine

(* Every call of the audit log ends: a failed or dead caller keeps no lock *)
(* (append, _path_lock).  A crash between document and index, a lost race  *)
(* for the index, a failed audit or the limit on rounds loses no webhook   *)
(* for good: both events end up readable and acknowledged, and the         *)
(* verified set is available.                                              *)
WorkEnds == CallsEnd /\ (part = "webhook" => W!VerifiedSetArrives)

(* Documents, index and retries implement EventStore: what is acknowledged *)
(* is readable, and what is readable stays and keeps its first receipt.    *)
(* No reader meets a key without its document, or twice, and no handler    *)
(* loses another's key (_add_to_index).                                    *)
EventsAreKept ==
  /\ [](W!TypeOK /\ W!IndexIsSound)
  /\ W!IndexOnlyGrows /\ W!ImplementsPromise
===============================================================================
