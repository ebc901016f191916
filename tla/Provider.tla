------------------------------ MODULE Provider ------------------------------
(***************************************************************************)
(* pkg/ddns: what the Updater can expect of a Provider.  UpdateRecords     *)
(* takes the hostname's A records towards the addresses it was given, one  *)
(* record at a time, and may fail after any of its steps.  The records are *)
(* intact if no request that was given up on may still reach them and no   *)
(* address has two of them.  An update that found them intact succeeds     *)
(* only when they are exactly what was asked for; no other update promises *)
(* anything, and records that are intact change in updates only.           *)
(***************************************************************************)
CONSTANT IPs

VARIABLES
    asked,   \* the addresses of the last call
    state,   \* "busy", or what the last call returned: "ok" or "failed"
    dns,     \* the addresses the hostname resolves to
    intact,  \* the records are intact
    sure     \* the last call found them so

vars == <<asked, state, dns, intact, sure>>

Init ==
    /\ asked = {}
    /\ state = "failed"
    /\ dns \in SUBSET IPs
    /\ intact \in BOOLEAN
    /\ sure = FALSE

Call(ips) ==
    /\ state # "busy"
    /\ asked' = ips
    /\ state' = "busy"
    /\ sure' = FALSE
    /\ UNCHANGED <<dns, intact>>

FindIntact ==
    /\ state = "busy"
    /\ intact
    /\ sure' = TRUE
    /\ UNCHANGED <<asked, state, dns, intact>>

WriteRecord(ip) ==
    /\ state = "busy"
    /\ \/ ip \in dns \ asked /\ dns' = dns \ {ip}
       \/ ip \in asked \ dns /\ dns' = dns \cup {ip}
    /\ UNCHANGED <<asked, state, intact, sure>>

\* A request is given up on, or a record created that was created meanwhile.
GiveUp ==
    /\ state = "busy"
    /\ intact' = FALSE
    /\ UNCHANGED <<asked, state, dns, sure>>

\* A request given up on is carried out, or one record of two is deleted.
Stray(ip) ==
    /\ ~intact
    /\ dns' \in {dns, dns \ {ip}, dns \cup {ip}}
    /\ intact' \in BOOLEAN
    /\ UNCHANGED <<asked, state, sure>>

Succeed ==
    /\ state = "busy"
    /\ sure => intact /\ dns = asked
    /\ state' = "ok"
    /\ UNCHANGED <<asked, dns, intact, sure>>

Fail ==
    /\ state = "busy"
    /\ state' = "failed"
    /\ UNCHANGED <<asked, dns, intact, sure>>

Next ==
    \/ \E ips \in SUBSET IPs : Call(ips)
    \/ \E ip \in IPs : WriteRecord(ip) \/ Stray(ip)
    \/ FindIntact \/ GiveUp \/ Succeed \/ Fail

Spec == Init /\ [][Next]_vars
=============================================================================
