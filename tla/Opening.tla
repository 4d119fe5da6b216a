------------------------------- MODULE Opening -------------------------------
(***************************************************************************)
(* What a contract takes qtum_context_open to be, and XRC20 and            *)
(* OwnerContracts with it: the command line is accepted or refused, only   *)
(* then the store is asked for, and the process has the store from the one *)
(* step in which open succeeds to the one in which it closes.              *)
(***************************************************************************)
VARIABLES
    phase,  \* "opening", "accepted", "open", "closed", an error, or "dead"
    holds   \* the process has the store

vars == <<phase, holds>>

Init == phase = "opening" /\ holds = FALSE

Becomes(from, to, has) == phase = from /\ phase' = to /\ holds' = has

Accept == Becomes("opening", "accepted", FALSE)
Refuse == Becomes("opening", "refused", FALSE)           \* QERR_INVALID_CONTEXT
GetStore == Becomes("accepted", "open", TRUE)
StoreFails == Becomes("accepted", "storage error", FALSE)   \* QERR_STORAGE
Close == Becomes("open", "closed", FALSE)

(* Out of memory, or a store through NULL: never with an open store. *)
Die == phase \in {"opening", "accepted"} /\ phase' = "dead" /\ UNCHANGED holds

Open == Accept \/ Refuse \/ GetStore \/ StoreFails \/ Die

Safety == Init /\ [][Open \/ Close]_vars

(* Whatever happens, open comes back, or the process is gone. *)
Spec == Safety /\ WF_vars(Open)
===============================================================================
