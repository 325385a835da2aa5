-------------------------------- MODULE Webhook --------------------------------
(***************************************************************************)
(* BoundRazorpayWebhookProcessor.ingest and SQLiteWebhookEvidenceStore of  *)
(* webhook.py.  A verified event becomes a document of its own, then a key *)
(* in its transaction's index, then an audit record, then an answer; each  *)
(* of these is one transaction of its own, another handler may run between *)
(* any two of them, and a crash may end the handler there.  The provider   *)
(* sends an event again until it is acknowledged, and may send it twice at *)
(* once.  Signature and binding checks precede all of it: the messages of  *)
(* the model pass them.                                                    *)
(***************************************************************************)
EXTENDS Naturals, Sequences, SequencesExt

CONSTANTS
  Handler,     \* requests the server works on at a time
  Event,       \* event ids
  Body,        \* raw bodies, as far as they are equal or not
  TypeOf,      \* the event type of each event
  MaxTries,    \* rounds of _add_to_index (8 in the code)
  MaxFaults,   \* bound: crashes and failed audit writes
  None

Record == [body: Body, by: Handler]

WebhookAssumption ==
  /\ MaxTries \in Nat \ {0} /\ MaxFaults \in Nat
  /\ TypeOf \in [Event -> {"payment.captured", "refund.processed"}]
  /\ None \notin Event \cup Record

VARIABLES
  documents,   \* event documents: the first receipt of each event, or None
  index,       \* event_keys of the transaction; only ever appended to
  pc, event,   \* where each handler stands, and with which event
  receipt,     \* the record it made of the message
  seen,        \* the index as it read it
  tries,       \* its rounds of _add_to_index
  audited,     \* events with an audit record
  acked,       \* events answered with success
  faults

handlers == <<pc, event, receipt, seen, tries>>
vars == <<documents, index, handlers, audited, acked, faults>>

Init ==
  /\ documents = [e \in Event |-> None]
  /\ index = <<>>
  /\ pc = [h \in Handler |-> "idle"]
  /\ event = [h \in Handler |-> None]
  /\ receipt = [h \in Handler |-> None]
  /\ seen = [h \in Handler |-> <<>>]
  /\ tries = [h \in Handler |-> 0]
  /\ audited = {} /\ acked = {} /\ faults = 0

Goto(h, place) == pc' = [pc EXCEPT ![h] = place]

(* The request is over; its local variables are gone. *)
End(h) ==
  /\ Goto(h, "idle")
  /\ event' = [event EXCEPT ![h] = None]
  /\ receipt' = [receipt EXCEPT ![h] = None]
  /\ seen' = [seen EXCEPT ![h] = <<>>]
  /\ tries' = [tries EXCEPT ![h] = 0]

-------------------------------------------------------------------------------
(* ingest up to store.record; the record carries who received it. *)
Receive(h, e, b) ==
  /\ pc[h] = "idle"
  /\ event' = [event EXCEPT ![h] = e]
  /\ receipt' = [receipt EXCEPT ![h] = [body |-> b, by |-> h]]
  /\ Goto(h, "load")
  /\ UNCHANGED <<documents, index, seen, tries, audited, acked, faults>>

LoadEvent(h) ==
  /\ pc[h] = "load"
  /\ Goto(h, IF documents[event[h]] = None THEN "create" ELSE "compare")
  /\ UNCHANGED <<documents, index, event, receipt, seen, tries, audited, acked, faults>>

(* A bug the properties must notice: the create replaces what is there. *)
CreateOver(h) ==
  /\ pc[h] = "create"
  /\ documents' = [documents EXCEPT ![event[h]] = receipt[h]]
  /\ Goto(h, "indexRead")
  /\ UNCHANGED <<index, event, receipt, seen, tries, audited, acked, faults>>

(* create; a conflict means that another handler was first. *)
CreateEvent(h) ==
  /\ pc[h] = "create"
  /\ IF documents[event[h]] = None
     THEN /\ documents' = [documents EXCEPT ![event[h]] = receipt[h]]
          /\ Goto(h, "indexRead")
     ELSE UNCHANGED documents /\ Goto(h, "compare")
  /\ UNCHANGED <<index, event, receipt, seen, tries, audited, acked, faults>>

(* A bug the properties must notice: a duplicate is taken for finished. *)
CompareAndTrust(h) ==
  /\ pc[h] = "compare"
  /\ Goto(h, IF documents[event[h]].body = receipt[h].body THEN "audit" ELSE "refused")
  /\ UNCHANGED <<documents, index, event, receipt, seen, tries, audited, acked, faults>>

(* Everything but the time of receipt must be the same; a duplicate goes   *)
(* to the index as well, in case the first handler did not get there.      *)
CompareEvent(h) ==
  /\ pc[h] = "compare"
  /\ Goto(h, IF documents[event[h]].body = receipt[h].body THEN "indexRead" ELSE "refused")
  /\ UNCHANGED <<documents, index, event, receipt, seen, tries, audited, acked, faults>>

ReadIndex(h) ==
  /\ pc[h] = "indexRead"
  /\ seen' = [seen EXCEPT ![h] = index]
  /\ Goto(h, IF Contains(index, event[h]) THEN "audit" ELSE "indexWrite")
  /\ UNCHANGED <<documents, index, event, receipt, tries, audited, acked, faults>>

(* Bugs the properties must notice: the last writer wins; a conflict is    *)
(* taken for success.                                                      *)
WriteIndexBlindly(h) ==
  /\ pc[h] = "indexWrite"
  /\ index' = Append(seen[h], event[h])
  /\ Goto(h, "audit")
  /\ UNCHANGED <<documents, event, receipt, seen, tries, audited, acked, faults>>

WriteIndexOnceOnly(h) ==
  /\ pc[h] = "indexWrite"
  /\ index' = IF index = seen[h] THEN Append(index, event[h]) ELSE index
  /\ Goto(h, "audit")
  /\ UNCHANGED <<documents, event, receipt, seen, tries, audited, acked, faults>>

(* create or compare_and_swap; after MaxTries conflicts the answer is 503. *)
WriteIndex(h) ==
  /\ pc[h] = "indexWrite"
  /\ IF index = seen[h]
     THEN /\ index' = Append(index, event[h])
          /\ Goto(h, "audit") /\ UNCHANGED tries
     ELSE /\ tries' = [tries EXCEPT ![h] = @ + 1]
          /\ Goto(h, IF tries[h] + 1 = MaxTries THEN "refused" ELSE "indexRead")
          /\ UNCHANGED index
  /\ UNCHANGED <<documents, event, receipt, seen, audited, acked, faults>>

(* The audit record, or AuditIntegrityError / OSError and a 503. *)
Audit(h) ==
  /\ pc[h] = "audit"
  /\ \/ /\ audited' = audited \cup {event[h]}
        /\ Goto(h, "answer") /\ UNCHANGED faults
     \/ /\ faults < MaxFaults
        /\ faults' = faults + 1
        /\ Goto(h, "refused") /\ UNCHANGED audited
  /\ UNCHANGED <<documents, index, event, receipt, seen, tries, acked>>

Answer(h) ==
  /\ pc[h] = "answer"
  /\ acked' = acked \cup {event[h]}
  /\ End(h)
  /\ UNCHANGED <<documents, index, audited, faults>>

(* An error status; the provider may send the event again. *)
Refuse(h) ==
  /\ pc[h] = "refused"
  /\ End(h)
  /\ UNCHANGED <<documents, index, audited, acked, faults>>

Crash(h) ==
  /\ pc[h] # "idle" /\ faults < MaxFaults
  /\ faults' = faults + 1
  /\ End(h)
  /\ UNCHANGED <<documents, index, audited, acked>>

Step(h) ==
  \/ LoadEvent(h) \/ CreateEvent(h) \/ CompareEvent(h) \/ ReadIndex(h)
  \/ WriteIndex(h) \/ Audit(h) \/ Answer(h) \/ Refuse(h)

(* The provider delivers an event that was not acknowledged yet; a second  *)
(* delivery may be under way when the first one is answered.               *)
Deliver(h, e, b) == e \notin acked /\ Receive(h, e, b)

Next ==
  \E h \in Handler :
    \/ Step(h) \/ Crash(h)
    \/ \E e \in Event, b \in Body : Deliver(h, e, b)

(* Handlers run, and the provider keeps sending what is not acknowledged,  *)
(* with the body it sent at first.                                         *)
Resend(e) ==
  \E h \in Handler, b \in Body :
    /\ documents[e] # None => documents[e].body = b
    /\ Deliver(h, e, b)

Spec     == Init /\ [][Next]_vars
FairSpec == /\ Spec
            /\ \A h \in Handler : WF_vars(Step(h))
            /\ \A e \in Event : SF_vars(Resend(e))

-------------------------------------------------------------------------------
(* records() and verified_set(). *)

Indexed == ToSet(index)

OfType(t) == SelectSeq(index, LAMBDA e : TypeOf[e] = t)

VerifiedSetAvailable ==
  Len(OfType("payment.captured")) = 1 /\ Len(OfType("refund.processed")) = 1

-------------------------------------------------------------------------------
TypeOK ==
  /\ documents \in [Event -> Record \cup {None}]
  /\ index \in Seq(Event)
  /\ pc \in [Handler -> {"idle", "load", "create", "compare", "indexRead",
                         "indexWrite", "audit", "answer", "refused"}]
  /\ event \in [Handler -> Event \cup {None}]
  /\ receipt \in [Handler -> Record \cup {None}]
  /\ seen \in [Handler -> Seq(Event)]
  /\ tries \in [Handler -> 0..MaxTries]
  /\ audited \subseteq Event /\ acked \subseteq audited
  /\ faults \in 0..MaxFaults

(* Readers never meet a key without its document, or a key twice: either   *)
(* would make records or verified_set fail from then on.                   *)
IndexIsSound ==
  /\ \A e \in Indexed : documents[e] # None
  /\ IsInjective(index)

(* Handlers of different events race for the index and lose no key: it is  *)
(* only ever extended (the versioned write in _add_to_index).              *)
IndexOnlyGrows == [][IsPrefix(index, index')]_index

(* A crash between document and index, a lost race or a failed audit loses *)
(* nothing for good: both events end up readable and acknowledged, in      *)
(* either order, and the verified set is then available.                   *)
VerifiedSetArrives == <>[](acked = Event /\ VerifiedSetAvailable)

(* Documents, index and retries implement EventStore: what is acknowledged *)
(* is readable, and what is readable keeps its first receipt.              *)
Promise == INSTANCE EventStore WITH
  Receipt  <- Record,
  readable <- [e \in Event |-> IF e \in Indexed THEN documents[e] ELSE None]

ImplementsPromise == Promise!Spec
===============================================================================
