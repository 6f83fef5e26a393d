----------------------------- MODULE KVHandoff -----------------------------
(***************************************************************************)
(* What the transfer of a prompt's KV cache from a prefill instance to a   *)
(* decode instance promises, without the protocol that keeps the promise:  *)
(* the decode pages set aside for a request are one-sided memory that      *)
(* every rank in Rank may write, so they may be handed to the request      *)
(* only when every rank has written its whole part and nobody is writing,  *)
(* and may go back to the pool only when nobody is writing.  The way out   *)
(* of that rule is Expire: the decode scheduler takes the pages back       *)
(* without proof, at a deadline (decode.py, "releasing anyway") or on the  *)
(* word of a rank that had not yet learnt of the pages; a write may then   *)
(* still reach pages somebody else owns.                                   *)
(***************************************************************************)
CONSTANT Rank

VARIABLES
    page,     \* what has become of the decode pages of the request
    writers,  \* the ranks with a write to those pages under way
    full      \* the ranks whose whole part of the KV is in the pages

vars == <<page, writers, full>>

Init == page = "free" /\ writers = {} /\ full = {}

Reserve == page = "free" /\ page' = "reserved" /\ UNCHANGED <<writers, full>>

(* Pages that have been committed or released are never written again. *)
Start(r) ==
    /\ page \in {"reserved", "expired"}
    /\ r \notin writers
    /\ writers' = writers \cup {r}
    /\ UNCHANGED <<page, full>>

Stop(r) ==
    /\ r \in writers
    /\ writers' = writers \ {r}
    /\ full' \in {full, full \cup {r}}
    /\ UNCHANGED page

Commit ==
    /\ page = "reserved" /\ writers = {} /\ full = Rank
    /\ page' = "committed"
    /\ UNCHANGED <<writers, full>>

Release ==
    /\ page = "reserved" /\ writers = {}
    /\ page' = "released"
    /\ UNCHANGED <<writers, full>>

Expire ==
    /\ page = "reserved"
    /\ page' = "expired"
    /\ UNCHANGED <<writers, full>>

(* The prefill instance dies and its writes die with it. *)
Die == writers # {} /\ writers' = {} /\ UNCHANGED <<page, full>>

Next ==
    \/ Reserve \/ Commit \/ Release \/ Expire \/ Die
    \/ \E r \in Rank : Start(r) \/ Stop(r)

Spec == Init /\ [][Next]_vars
=============================================================================
