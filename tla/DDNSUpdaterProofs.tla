------------------------- MODULE DDNSUpdaterProofs --------------------------
(***************************************************************************)
(* What DDNSUpdater knows of the records, for any gateways, addresses and  *)
(* faults.                                                                 *)
(***************************************************************************)
EXTENDS DDNSUpdater, TLAPS

\* Why the addresses collected may not be those of the gateways scheduled.
Misled == doubts \cap {"dropped", "unfetched", "moved"} # {}

\* How far the update is.
Progress ==
    /\ upd = "starting" => "records" \in doubts
    /\ upd = "checking" => ips = {} /\ ("dropped" \notin doubts => todo = next)
    /\ upd = "fetching" /\ ~Misled =>
           todo \subseteq next /\ ips = {pub[g] : g \in next \ todo}
    /\ upd = "writing" /\ ~Misled => ips = PublicIPs(next)

IInv == LastIsKnown /\ Progress /\ IdleIsCurrent
-----------------------------------------------------------------------------

(* No step, of the updater or of its environment, leaves the types. *)
THEOREM TypeCorrect == Spec => []TypeOK
<1>1. Init => TypeOK
    BY FaultAssumption DEF Init, TypeOK
<1>2. TypeOK /\ [Next]_vars => TypeOK'
    <2> SUFFICES ASSUME TypeOK, [Next]_vars
                 PROVE  TypeOK'
        OBVIOUS
    <2> USE DEF TypeOK, updater, world, Return
    <2>1. CASE RunStarts \/ Load
        BY <2>1 DEF RunStarts, Load
    <2>2. CASE CheckRequiredIP
        BY <2>2 DEF CheckRequiredIP
    <2>3. ASSUME NEW g \in Gateways, FetchPublicIP(g)
          PROVE  TypeOK'
        BY <2>3 DEF FetchPublicIP
    <2>4. CASE SkipUnchanged \/ UpdateRecords
        BY <2>4 DEF SkipUnchanged, UpdateRecords
    <2>5. ASSUME NEW ip \in IPs, WriteRecord(ip)
          PROVE  TypeOK'
        BY <2>5 DEF WriteRecord
    <2>6. CASE UpdateSucceeds \/ UpdateFails
        BY <2>6 DEF UpdateSucceeds, UpdateFails
    <2>7. CASE ReturnAndClose
        BY <2>7 DEF ReturnAndClose
    <2>8. ASSUME NEW gs \in SUBSET Gateways, ScheduleUpdate(gs)
          PROVE  TypeOK'
        BY <2>8 DEF ScheduleUpdate, Offer
    <2>9. CASE MonitorAddresses
        BY <2>9 DEF MonitorAddresses, Offer
    <2>10. CASE Cancel \/ RequiredIPMoves
        BY <2>10 DEF Cancel, RequiredIPMoves
    <2>11. ASSUME NEW g \in Gateways, PublicIPMoves(g)
           PROVE  TypeOK'
        BY <2>11 DEF PublicIPMoves
    <2>12. CASE UNCHANGED vars
        BY <2>12 DEF vars
    <2>13. QED
        BY <2>1, <2>2, <2>3, <2>4, <2>5, <2>6, <2>7, <2>8, <2>9, <2>10, <2>11, <2>12
        DEF Next, Run
<1>3. QED
    BY <1>1, <1>2, PTL DEF Spec
-----------------------------------------------------------------------------

(* A process starts with the records of an earlier one, which it has not read. *)
LEMMA InvInit == Init => IInv
    BY DEF Init, IInv, LastIsKnown, Progress, IdleIsCurrent

(* The updater's own steps. *)
LEMMA RunStep == TypeOK /\ IInv /\ Run => IInv'
<1> SUFFICES ASSUME TypeOK, IInv, Run
             PROVE  IInv'
    OBVIOUS
<1> USE DEF IInv, LastIsKnown, Progress, IdleIsCurrent, PublicIPs, Misled, Return
<1>1. CASE RunStarts
    BY <1>1 DEF RunStarts, world
<1>2. CASE Load
    BY <1>2 DEF Load, world
<1>3. CASE CheckRequiredIP
    BY <1>3 DEF CheckRequiredIP, world
<1>4. ASSUME NEW g \in Gateways, FetchPublicIP(g)
      PROVE  IInv'
    <2>1. /\ upd = "fetching" /\ upd' = upd /\ g \in todo /\ todo' = todo \ {g}
          /\ next' = next /\ last' = last /\ dns' = dns /\ pub' = pub
          /\ doubts \subseteq doubts' /\ ("records" \in doubts' <=> "records" \in doubts)
        BY <1>4 DEF FetchPublicIP, world
    <2>2. ASSUME ~Misled'
          PROVE  todo' \subseteq next' /\ ips' = {pub'[h] : h \in next' \ todo'}
        <3>1. ips' = ips \cup {pub[g]} /\ ~Misled
            BY <1>4, <2>2, <2>1 DEF FetchPublicIP
        <3>2. todo \subseteq next /\ ips = {pub[h] : h \in next \ todo}
            BY <3>1, <2>1
        <3>3. next \ todo' = (next \ todo) \cup {g}
            BY <2>1, <3>2
        <3>4. QED
            BY <3>1, <3>2, <3>3, <2>1
    <2>3. QED
        BY <2>1, <2>2
<1>5. CASE SkipUnchanged
    BY <1>5 DEF SkipUnchanged, Fetched, world
<1>6. CASE UpdateRecords
    BY <1>6 DEF UpdateRecords, Fetched, world
<1>7. ASSUME NEW ip \in IPs, WriteRecord(ip)
      PROVE  IInv'
    BY <1>7 DEF WriteRecord, updater, world
<1>8. CASE UpdateSucceeds
    BY <1>8 DEF UpdateSucceeds, world, TypeOK
<1>9. CASE UpdateFails
    BY <1>9 DEF UpdateFails, world
<1>10. CASE ReturnAndClose
    BY <1>10 DEF ReturnAndClose, world
<1>11. QED
    BY <1>1, <1>2, <1>3, <1>4, <1>5, <1>6, <1>7, <1>8, <1>9, <1>10 DEF Run

(* What the monitor, the address monitor, main and the host do meanwhile. *)
LEMMA EnvironmentStep == TypeOK /\ IInv /\ [Next]_vars => IInv'
<1> SUFFICES ASSUME TypeOK, IInv, [Next]_vars
             PROVE  IInv'
    OBVIOUS
<1> USE DEF IInv, LastIsKnown, Progress, IdleIsCurrent, PublicIPs, Misled
<1>1. CASE Run
    BY <1>1, RunStep
<1>2. ASSUME NEW gs \in SUBSET Gateways, ScheduleUpdate(gs)
      PROVE  IInv'
    BY <1>2 DEF ScheduleUpdate, Offer, world
<1>3. CASE MonitorAddresses
    BY <1>3 DEF MonitorAddresses, Offer, world
<1>4. CASE Cancel \/ RequiredIPMoves
    BY <1>4 DEF Cancel, RequiredIPMoves, updater, world
<1>5. ASSUME NEW g \in Gateways, PublicIPMoves(g)
      PROVE  IInv'
    BY <1>5 DEF PublicIPMoves, updater
<1>6. CASE UNCHANGED vars
    BY <1>6 DEF vars, updater, world
<1>7. QED
    BY <1>1, <1>2, <1>3, <1>4, <1>5, <1>6 DEF Next

(* Outside an update lastActiveIPs is what the records are, unless an earlier
   process or a failed update left them unknown. *)
THEOREM LastKnown == Spec => []LastIsKnown
<1>1. IInv => LastIsKnown
    BY DEF IInv
<1>2. QED
    BY <1>1, InvInit, EnvironmentStep, TypeCorrect, PTL DEF Spec

(* An idle updater's records are those of the scheduled gateways unless one of
   the named things happened since the last update began. *)
THEOREM IdleCurrent == Spec => []IdleIsCurrent
<1>1. IInv => IdleIsCurrent
    BY DEF IInv
<1>2. QED
    BY <1>1, InvInit, EnvironmentStep, TypeCorrect, PTL DEF Spec
=============================================================================
