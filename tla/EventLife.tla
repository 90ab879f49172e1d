------------------------------ MODULE EventLife ------------------------------
(***************************************************************************)
(* What the outbox promises of an event, as the header of                  *)
(* events/outbox/outbox-processor.ts puts it (at-least-once): nothing      *)
(* happens to an event before its transaction has committed it; its row is *)
(* PUBLISHED only after a job was added for it, PENDING with one retry     *)
(* more after a failure, FAILED after MaxRetries of them; only receivers   *)
(* of a queued event are sent it, and its job is completed only when all   *)
(* of them were.  A completed job may be forgotten at any time.            *)
(***************************************************************************)
EXTENDS Naturals

CONSTANTS Events, Receivers, MaxRetries
VARIABLES rows, retries, queued, sent, completed
row  == <<rows, retries>>
vars == <<row, queued, sent, completed>>

Init == /\ rows    = [e \in Events |-> "NONE"]
        /\ retries = [e \in Events |-> 0]
        /\ queued  = {}
        /\ sent    = [e \in Events |-> {}]
        /\ completed = {}

become(e, status) == rows[e] # "NONE" /\ rows' = [rows EXCEPT ![e] = status]
unsent            == UNCHANGED <<queued, sent, completed>>

Commit(e)  == /\ rows[e] = "NONE" /\ rows' = [rows EXCEPT ![e] = "PENDING"]
              /\ UNCHANGED retries /\ unsent
Publish(e) == e \in queued /\ become(e, "PUBLISHED") /\ UNCHANGED retries /\ unsent
Retry(e)   == become(e, "PENDING") /\ retries' = [retries EXCEPT ![e] = @ + 1] /\ unsent
GiveUp(e)  == retries[e] >= MaxRetries /\ become(e, "FAILED") /\ UNCHANGED retries /\ unsent

Queue(e)   == /\ rows[e] # "NONE"
              /\ queued' = queued \cup {e}
              /\ UNCHANGED <<row, sent, completed>>
Send(e, r) == /\ e \in queued
              /\ sent' = [sent EXCEPT ![e] = @ \cup {r}]
              /\ UNCHANGED <<row, queued, completed>>
Complete(e) == /\ e \in queued /\ Receivers \subseteq sent[e]
               /\ completed' \subseteq completed \cup {e}
               /\ UNCHANGED <<row, queued, sent>>
Forget     == /\ completed' \subseteq completed
              /\ UNCHANGED <<row, queued, sent>>

Next == \/ \E e \in Events : \/ Commit(e) \/ Publish(e) \/ Retry(e) \/ GiveUp(e)
                             \/ Queue(e) \/ Complete(e)
                             \/ \E r \in Receivers : Send(e, r)
        \/ Forget

Spec == Init /\ [][Next]_vars
=============================================================================
