------------------------------ MODULE DynuDNS -------------------------------
(***************************************************************************)
(* pkg/ddns: DynuDNSProvider.UpdateRecords against the DynuDNS service.    *)
(* The domain's records are listed, those of the hostname compared with    *)
(* the addresses wanted, and the differences sent at once, each in a       *)
(* goroutine of one errgroup: the first error cancels the others.  A call  *)
(* can fail although the service has carried it out, and although it will. *)
(***************************************************************************)
CONSTANTS
    IPs,        \* addresses
    IDs,        \* record identifiers, as many as the service hands out
    Duplicates, \* whether two records may have one address to begin with
    Late        \* whether the service may carry out what was given up on

ASSUME DynuAssumption == IPs # {} /\ Duplicates \in BOOLEAN /\ Late \in BOOLEAN

VARIABLES
    records,      \* service: address of each A record of the hostname
    received,     \* service: requests to be carried out
    late,         \* service: requests given up on that may still be
    initialized,  \* the domain's identifier and the node name are known
    pc,           \* what UpdateRecords does next
    asked,        \* newPublicIPs
    unsent,       \* requests whose goroutine has not sent them
    waiting,      \* requests sent and not answered
    failed,       \* the errgroup has its first error: gctx is cancelled
    found         \* history: what stood in the way when the records were listed

service == <<records, received, late>>
group == <<unsent, waiting, failed>>
vars == <<service, initialized, pc, asked, group, found>>

Delete(id) == [op |-> "delete", arg |-> id]
Create(ip) == [op |-> "create", arg |-> ip]

Used == DOMAIN records
Resolved == {records[id] : id \in Used}
OneEach(ids) == \A id1, id2 \in ids : records[id1] = records[id2] => id1 = id2
Once == OneEach(Used)  \* no address has two records

Init ==
    /\ \E ids \in SUBSET IDs : records \in [ids -> IPs]
    /\ Duplicates \/ Once
    /\ received = {} /\ late = {}
    /\ initialized = FALSE
    /\ pc = "failed"
    /\ asked = {}
    /\ unsent = {} /\ waiting = {} /\ failed = FALSE
    /\ found = "unlisted"

Idle == pc \in {"ok", "failed"}

\* The Updater calls UpdateRecords.
UpdateRecords(ips) ==
    /\ Idle
    /\ asked' = ips
    /\ pc' = IF initialized THEN "listing" ELSE "initializing"
    /\ failed' = FALSE
    /\ found' = "unlisted"
    /\ UNCHANGED <<service, initialized, unsent, waiting>>

\* initializeDomainInfo is repeated by the next call if it fails.
InitializeDomainInfo ==
    /\ pc = "initializing"
    /\ \/ pc' = "listing" /\ initialized' = TRUE
       \/ pc' = "failed" /\ UNCHANGED initialized
    /\ UNCHANGED <<service, asked, group, found>>

\* existingIPs keeps one record per address: the last of the list, in whatever
\* order the service lists them.
ExistingIPs(ids) ==
    /\ ids \subseteq Used
    /\ {records[id] : id \in ids} = Resolved
    /\ OneEach(ids)

Finds ==
    found' = IF late # {} THEN "late" ELSE IF Once THEN "intact" ELSE "duplicates"

\* Wrong on purpose: records are deleted by address, not by identifier.
GetExistingRecordsByAddress ==
    /\ pc = "listing"
    /\ unsent' = {Delete(ip) : ip \in Resolved \ asked}
                    \cup {Create(ip) : ip \in asked \ Resolved}
    /\ Finds
    /\ pc' = "sending"
    /\ UNCHANGED <<service, initialized, asked, waiting, failed>>

\* getExistingRecords keeps A records of the node only.
GetExistingRecords ==
    /\ pc = "listing"
    /\ \E ids \in SUBSET IDs :
          /\ ExistingIPs(ids)
          /\ unsent' = {Delete(id) : id \in {id \in ids : records[id] \notin asked}}
                         \cup {Create(ip) : ip \in asked \ Resolved}
    /\ Finds
    /\ pc' = "sending"
    /\ UNCHANGED <<service, initialized, asked, waiting, failed>>

GetExistingRecordsFails ==
    /\ pc = "listing"
    /\ pc' = "failed"
    /\ UNCHANGED <<service, initialized, asked, group, found>>

\* deleteRecord or createRecord; a cancelled context sends nothing.
Send(r) ==
    /\ pc = "sending"
    /\ r \in unsent
    /\ unsent' = unsent \ {r}
    /\ IF failed
       THEN UNCHANGED <<received, waiting>>
       ELSE received' = received \cup {r} /\ waiting' = waiting \cup {r}
    /\ UNCHANGED <<records, late, initialized, pc, asked, failed, found>>

Without(id) == [k \in Used \ {id} |-> records[k]]
With(id, ip) == [k \in Used \cup {id} |-> IF k = id THEN ip ELSE records[k]]

\* The service: deleting a record that is gone has no effect, and identifiers
\* are not handed out again while a deletion of them is under way.
Execute(r) ==
    IF r.op = "delete"
    THEN records' = Without(r.arg)
    ELSE \E id \in IDs \ Used :
            /\ Delete(id) \notin unsent \cup received \cup late
            /\ records' = With(id, r.arg)

CarryOut(r) ==
    /\ r \in received
    /\ received' = received \ {r}
    /\ Execute(r)
    /\ UNCHANGED <<late, initialized, pc, asked, group, found>>

CarryOutLate(r) ==
    /\ r \in late
    /\ late' = late \ {r}
    /\ Execute(r)
    /\ UNCHANGED <<received, initialized, pc, asked, group, found>>

Answered(r) ==
    /\ r \in waiting \ received
    /\ waiting' = waiting \ {r}
    /\ UNCHANGED <<service, initialized, pc, asked, unsent, failed, found>>

\* An error answer, a timeout or a cancelled context, before or after the
\* service has carried the request out.
CallFails(r) ==
    /\ r \in waiting
    /\ waiting' = waiting \ {r}
    /\ failed' = TRUE
    /\ received' = received \ {r}
    /\ \/ UNCHANGED late
       \/ Late /\ r \in received /\ late' = late \cup {r}
    /\ UNCHANGED <<records, initialized, pc, asked, unsent, found>>

\* Wrong on purpose: the errors of the goroutines are ignored.
WaitIgnoresErrors ==
    /\ pc = "sending"
    /\ unsent = {} /\ waiting = {}
    /\ pc' = "ok"
    /\ UNCHANGED <<service, initialized, asked, group, found>>

\* eg.Wait: all goroutines have returned.
Wait ==
    /\ pc = "sending"
    /\ unsent = {} /\ waiting = {}
    /\ pc' = IF failed THEN "failed" ELSE "ok"
    /\ UNCHANGED <<service, initialized, asked, group, found>>

Requests == {Delete(id) : id \in IDs} \cup {Create(ip) : ip \in IPs}

Next ==
    \/ \E ips \in SUBSET IPs : UpdateRecords(ips)
    \/ InitializeDomainInfo \/ GetExistingRecords \/ GetExistingRecordsFails
    \/ \E r \in Requests :
           \/ Send(r) \/ Answered(r) \/ CallFails(r)
           \/ CarryOut(r) \/ CarryOutLate(r)
    \/ Wait

Spec == Init /\ [][Next]_vars
-----------------------------------------------------------------------------

TypeOK ==
    /\ Used \subseteq IDs /\ Resolved \subseteq IPs
    /\ unsent \cup waiting \cup received \cup late \subseteq Requests
    /\ pc \in {"initializing", "listing", "sending", "ok", "failed"}
    /\ asked \subseteq IPs
    /\ {initialized, failed} \subseteq BOOLEAN
    /\ found \in {"unlisted", "late", "duplicates", "intact"}

\* Provider: "Extra A records should be removed."  An UpdateRecords that returns
\* nil leaves no other address in the hostname's records, unless requests given
\* up on were still under way when it listed them.
ExtraRemoved == pc = "ok" /\ found # "late" => Resolved \subseteq asked

\* UpdateRecords implements what the Updater can expect of it, in whatever order
\* its requests are carried out, fail, or are carried out too late.
Contract == INSTANCE Provider WITH
    state <- IF Idle THEN pc ELSE "busy",
    dns <- Resolved,
    intact <- late = {} /\ Once,
    sure <- found = "intact"

ProviderContract == Contract!Spec
=============================================================================
