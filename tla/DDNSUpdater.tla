---------------------------- MODULE DDNSUpdater -----------------------------
(***************************************************************************)
(* pkg/ddns: Updater.  The monitor hands ScheduleUpdate the active         *)
(* gateways; Run updates the DNS records, one update at a time; the        *)
(* address monitor asks for an update when the required IP appears.  Both  *)
(* wake Run with a non-blocking send on an unbuffered channel, which is    *)
(* lost unless Run is at its select.                                       *)
(***************************************************************************)
EXTENDS FiniteSets

CONSTANTS
    Gateways,   \* the gateways
    IPs,        \* the public addresses they may have
    RequireIP,  \* whether -ddns-require-ip-address is set
    Faults      \* what the environment may do, a subset of AllFaults

\* "shared": -public-ip-service-hostname is set.
AllFaults == {"leftover", "interfaces", "fetch", "shared", "records", "move",
              "vrrp", "cancel"}

ASSUME FaultAssumption == RequireIP \in BOOLEAN /\ Faults \subseteq AllFaults

VARIABLES
    next,      \* nextActiveGateways
    last,      \* lastActiveIPs
    upd,       \* what Run does next
    todo,      \* update's gateways whose public IP is still to be fetched
    ips,       \* the public IPs it has fetched
    dns,       \* the hostname's A records at the provider
    pub,       \* the public IP of each gateway
    present,   \* whether an interface holds the required IP
    found,     \* foundAddressLast
    ctxDone,   \* the context is cancelled
    panicked,  \* a send hit the closed channel: the process is gone
    doubts     \* history: why the records may not be what next asks for

updater == <<next, last, upd, todo, ips>>
world == <<pub, present>>
vars == <<updater, dns, world, found, ctxDone, panicked, doubts>>

PublicIPs(gs) == {pub[g] : g \in gs}

Init ==
    /\ next = {}
    /\ last = {}
    /\ upd = "starting"
    /\ todo = {}
    /\ ips = {}
    /\ dns \in SUBSET (IF "leftover" \in Faults THEN IPs ELSE {})  \* of an earlier process
    /\ pub \in [Gateways -> IPs]
    /\ present \in (IF RequireIP THEN BOOLEAN ELSE {TRUE})
    /\ found = FALSE
    /\ ctxDone = FALSE
    /\ panicked = FALSE
    /\ doubts = {"records"}

\* select { case updateChan <- struct{}{}: default: }
Offer ==
    \/ /\ upd = "waiting"
       /\ upd' = "loading"
       /\ UNCHANGED <<panicked, doubts>>
    \/ /\ upd = "closed"
       /\ panicked' = TRUE
       /\ UNCHANGED <<upd, doubts>>
    \/ /\ upd \notin {"waiting", "closed"}
       /\ doubts' = doubts \cup {"dropped"}
       /\ UNCHANGED <<upd, panicked>>

\* A call with the gateways already scheduled returns at once.
ScheduleUpdate(gs) ==
    /\ ~panicked
    /\ gs # next
    /\ next' = gs
    /\ Offer
    /\ UNCHANGED <<last, todo, ips, dns, world, found, ctxDone>>

\* Run reaches its select for the first time.
RunStarts ==
    /\ upd = "starting"
    /\ upd' = "waiting"
    /\ UNCHANGED <<next, last, todo, ips, dns, world, found, ctxDone, panicked, doubts>>

\* update reads the gateways that are active now, whatever woke it.
Load ==
    /\ upd = "loading"
    /\ upd' = "checking"
    /\ todo' = next
    /\ ips' = {}
    /\ doubts' = doubts \cap {"records"}
    /\ UNCHANGED <<next, last, dns, world, found, ctxDone, panicked>>

\* update returns and its variables are gone.
Return == upd' = "waiting" /\ todo' = {} /\ ips' = {}

\* What HasInterfaceWithIP may answer: interfaces that cannot be asked are an
\* error only if the address is on none of the others.
HasInterfaceWithIP ==
    {IF present THEN "found" ELSE "missing"}
        \cup (IF "interfaces" \in Faults THEN {"error"} ELSE {})

CheckRequiredIP ==
    /\ upd = "checking"
    /\ \E answer \in IF RequireIP THEN HasInterfaceWithIP ELSE {"found"} :
          IF answer = "found"
          THEN upd' = "fetching" /\ UNCHANGED <<todo, ips, doubts>>
          ELSE Return /\ doubts' = doubts \cup {"skipped"}
    /\ UNCHANGED <<next, last, dns, world, found, ctxDone, panicked>>

\* Wrong on purpose: the gateway's own address instead of its public one.
FetchPublicIPOwn(g) ==
    /\ upd = "fetching"
    /\ g \in todo
    /\ todo' = todo \ {g}
    /\ ips' = ips \cup {g}
    /\ UNCHANGED <<next, last, upd, dns, world, found, ctxDone, panicked, doubts>>

\* A gateway that does not tell its public IP is left out: no answer, one that
\* is not 200, or one without an IPv4 address.  A service of its own host name
\* is asked along the routes, and tells the address of whichever gateway took
\* the request there.
FetchPublicIP(g) ==
    /\ upd = "fetching"
    /\ g \in todo
    /\ todo' = todo \ {g}
    /\ \/ ips' = ips \cup {pub[g]} /\ UNCHANGED doubts
       \/ /\ "shared" \in Faults
          /\ \E h \in Gateways \ {g} : ips' = ips \cup {pub[h]}
          /\ doubts' = doubts \cup {"unfetched"}
       \/ /\ "fetch" \in Faults \/ ctxDone
          /\ doubts' = doubts \cup {"unfetched"}
          /\ UNCHANGED ips
    /\ UNCHANGED <<next, last, upd, dns, world, found, ctxDone, panicked>>

Fetched == upd = "fetching" /\ todo = {}

\* Wrong on purpose: only the numbers of addresses are compared.
SkipUnchangedByLength ==
    /\ Fetched
    /\ Cardinality(ips) = Cardinality(last)
    /\ Return
    /\ UNCHANGED <<next, last, dns, world, found, ctxDone, panicked, doubts>>

SkipUnchanged ==
    /\ Fetched
    /\ ips = last
    /\ Return
    /\ UNCHANGED <<next, last, dns, world, found, ctxDone, panicked, doubts>>

\* Wrong on purpose: the records are kept when there is nothing to publish.
UpdateRecordsSkipsEmpty ==
    /\ Fetched
    /\ ips # last
    /\ upd' = IF ips = {} THEN "waiting" ELSE "writing"
    /\ UNCHANGED <<next, last, todo, ips, dns, world, found, ctxDone, panicked, doubts>>

UpdateRecords ==
    /\ Fetched
    /\ ips # last
    /\ upd' = "writing"
    /\ UNCHANGED <<next, last, todo, ips, dns, world, found, ctxDone, panicked, doubts>>

\* The provider takes one record closer to ips; it can fail between any two.
WriteRecord(ip) ==
    /\ upd = "writing"
    /\ \/ ip \in dns \ ips /\ dns' = dns \ {ip}
       \/ ip \in ips \ dns /\ dns' = dns \cup {ip}
    /\ UNCHANGED <<updater, world, found, ctxDone, panicked, doubts>>

\* Wrong on purpose: lastActiveIPs is not stored.
UpdateSucceedsForgets ==
    /\ upd = "writing"
    /\ dns = ips
    /\ Return
    /\ doubts' = doubts \ {"records"}
    /\ UNCHANGED <<next, last, dns, world, found, ctxDone, panicked>>

UpdateSucceeds ==
    /\ upd = "writing"
    /\ dns = ips
    /\ last' = ips
    /\ Return
    /\ doubts' = doubts \ {"records"}
    /\ UNCHANGED <<next, dns, world, found, ctxDone, panicked>>

\* Run logs the error and waits for the next wake-up.
UpdateFails ==
    /\ upd = "writing"
    /\ "records" \in Faults \/ ctxDone
    /\ Return
    /\ doubts' = doubts \cup {"records"}
    /\ UNCHANGED <<next, last, dns, world, found, ctxDone, panicked>>

\* One tick of monitorAddresses; a failed query changes nothing.
MonitorAddresses ==
    /\ RequireIP
    /\ upd # "starting" /\ ~panicked
    /\ \E answer \in HasInterfaceWithIP \ {"error"} : found' = (answer = "found")
    /\ IF found' /\ ~found
       THEN Offer
       ELSE UNCHANGED <<upd, panicked, doubts>>
    /\ UNCHANGED <<next, last, todo, ips, dns, world, ctxDone>>

\* The context ends, and Run returns at its select; main then closes the
\* updater.  Nothing waits for the address monitor or for the GatewayMonitor.
Cancel ==
    /\ "cancel" \in Faults
    /\ ctxDone' = TRUE
    /\ UNCHANGED <<updater, dns, world, found, panicked, doubts>>

ReturnAndClose ==
    /\ ctxDone
    /\ upd = "waiting"
    /\ upd' = "closed"
    /\ UNCHANGED <<next, last, todo, ips, dns, world, found, ctxDone, panicked, doubts>>

\* The host: a VPN reconnects, a VRRP address comes and goes.
PublicIPMoves(g) ==
    /\ "move" \in Faults
    /\ \E ip \in IPs : pub' = [pub EXCEPT ![g] = ip]
    /\ pub' # pub
    /\ doubts' = doubts \cup {"moved"}
    /\ UNCHANGED <<updater, dns, present, found, ctxDone, panicked>>

RequiredIPMoves ==
    /\ RequireIP /\ "vrrp" \in Faults
    /\ present' = ~present
    /\ UNCHANGED <<updater, dns, pub, found, ctxDone, panicked, doubts>>

Run ==
    /\ ~panicked
    /\ \/ RunStarts \/ Load \/ CheckRequiredIP
       \/ \E g \in Gateways : FetchPublicIP(g)
       \/ SkipUnchanged \/ UpdateRecords
       \/ \E ip \in IPs : WriteRecord(ip)
       \/ UpdateSucceeds \/ UpdateFails \/ ReturnAndClose

Next ==
    \/ Run
    \/ \E gs \in SUBSET Gateways : ScheduleUpdate(gs)
    \/ MonitorAddresses
    \/ Cancel
    \/ \E g \in Gateways : PublicIPMoves(g)
    \/ RequiredIPMoves

Spec == Init /\ [][Next]_vars

\* The Go scheduler runs a goroutine that is ready; every call of an update
\* returns, as its context has a deadline.  A ticker ticks.
FairSpec == Spec /\ WF_vars(Run) /\ WF_vars(MonitorAddresses)
-----------------------------------------------------------------------------

TypeOK ==
    /\ next \subseteq Gateways /\ todo \subseteq Gateways
    /\ last \subseteq IPs /\ ips \subseteq IPs /\ dns \subseteq IPs
    /\ upd \in {"starting", "waiting", "loading", "checking", "fetching",
                "writing", "closed"}
    /\ pub \in [Gateways -> IPs]
    /\ {present, found, ctxDone, panicked} \subseteq BOOLEAN
    /\ doubts \subseteq {"dropped", "skipped", "unfetched", "records", "moved"}

\* Outside an update, lastActiveIPs is what the records are, unless records
\* were left by an earlier process or by an update that failed since.
LastIsKnown ==
    upd # "writing" /\ "records" \notin doubts => dns = last

\* Whenever Run is idle the hostname resolves to all and only the scheduled
\* gateways, unless one of five things happened since the last update began: a
\* wake-up was lost, the required IP was missing, a gateway's address
\* was not told or another's was, an address moved, or the records are in doubt.
IdleIsCurrent ==
    upd = "waiting" /\ doubts = {} => dns = PublicIPs(next)

\* A wake-up that Run received leads to the records of the gateways scheduled
\* by then, unless others are scheduled meanwhile or an update is in doubt.
AcceptedIsApplied ==
    \A gs \in SUBSET Gateways :
        (upd = "loading" /\ next = gs) ~>
            (next # gs \/ doubts # {} \/ dns = PublicIPs(gs) \/ panicked)

\* README: the records "are automatically updated to resolve to all (and only)
\* active gateways", once the active gateways no longer change.
EventuallyResolves ==
    \A gs \in SUBSET Gateways :
        <>[](next = gs) => <>(dns = PublicIPs(gs))

\* An update is skipped as unchanged only if the records are those it wants.
SkipIsCurrent ==
    [][SkipUnchanged => dns = ips]_vars
=============================================================================
