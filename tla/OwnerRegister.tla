---------------------------- MODULE OwnerRegister ----------------------------
(***************************************************************************)
(* What the owner contracts promise: a register with the address of an     *)
(* owner.  Whoever holds it sets it at most once or reads it, and may say  *)
(* that its owner is stored from then on, also after it has left, unless   *)
(* the power took it first.  A power loss spares what was there when the   *)
(* present or last holder entered, and takes later versions newest first.  *)
(***************************************************************************)
EXTENDS Naturals

CONSTANTS Proc, NoProc, Address, None

VARIABLES
    versions,  \* every owner set so far; the newest is the register's value
    safe,      \* those that no power loss can take
    holder,    \* the process that has the register, or NoProc
    report     \* what each process has learnt: "stored", or the owner

vars == <<versions, safe, holder, report>>

Init ==
    /\ versions = {} /\ safe = {}
    /\ holder = NoProc
    /\ report = [p \in Proc |-> None]

SetBy(p) == \E v \in versions : v.by = p

Enter(p) ==
    /\ holder = NoProc
    /\ holder' = p
    /\ safe' = versions
    /\ UNCHANGED <<versions, report>>

Set(p) ==
    /\ holder = p /\ ~SetBy(p)
    /\ \E v \in versions' \ versions :
         /\ v.by = p /\ v.val \in Address
         /\ \A w \in versions : w.at < v.at
         /\ versions' = versions \cup {v}
    /\ UNCHANGED <<safe, holder, report>>

Get(p) ==
    /\ holder = p /\ report[p] = None
    /\ \E v \in versions :
         /\ \A w \in versions : w.at <= v.at
         /\ report' = [report EXCEPT ![p] = v.val]
    /\ UNCHANGED <<versions, safe, holder>>

SayStored(p) ==
    /\ report[p] = None /\ SetBy(p)
    /\ report' = [report EXCEPT ![p] = "stored"]
    /\ UNCHANGED <<versions, safe, holder>>

Leave(p) ==
    /\ holder = p
    /\ holder' = NoProc
    /\ UNCHANGED <<versions, safe, report>>

PowerLoss ==
    /\ holder' = NoProc
    /\ safe \subseteq versions' /\ versions' \subseteq versions
    /\ \A v \in versions', w \in versions : w.at < v.at => w \in versions'
    /\ safe' = versions'
    /\ UNCHANGED report

Next ==
    \/ \E p \in Proc : Enter(p) \/ Set(p) \/ Get(p) \/ SayStored(p) \/ Leave(p)
    \/ PowerLoss

Spec == Init /\ [][Next]_vars
==============================================================================
