--------------------------- MODULE DynuDNSProofs ----------------------------
(***************************************************************************)
(* DynuDNS implements Provider, for any addresses and identifiers, with or *)
(* without duplicates and late requests.                                   *)
(***************************************************************************)
EXTENDS DynuDNS, TLAPS

Pending == unsent \cup received

\* Calls wait for the requests sent, and requests only go out after the listing.
GroupInv ==
    /\ received \subseteq waiting /\ unsent \cap waiting = {}
    /\ pc # "sending" => unsent = {} /\ waiting = {}
    /\ pc \in {"initializing", "listing"} => found = "unlisted"

\* No request of this update undoes what was asked for, whatever became of the
\* records since they were listed.
PendingInv ==
    /\ \A id \in Used : Delete(id) \in Pending => records[id] \notin asked
    /\ \A ip \in IPs : Create(ip) \in Pending => ip \in asked

\* While nothing has failed since the records were found intact, the requests
\* under way are the difference between what is there and what was asked for.
DifferenceInv ==
    pc = "sending" /\ found = "intact" /\ ~failed =>
        /\ late = {} /\ Once
        /\ \A id \in Used : records[id] \notin asked => Delete(id) \in Pending
        /\ \A ip \in asked : Create(ip) \in Pending <=> ip \notin Resolved

IInv == TypeOK /\ GroupInv /\ PendingInv /\ DifferenceInv
-----------------------------------------------------------------------------

(* A request is told from every other one by what it does to which record. *)
LEMMA RequestsDiffer ==
    /\ \A a, b : Delete(a) = Delete(b) => a = b
    /\ \A a, b : Create(a) = Create(b) => a = b
    /\ \A a, b : Delete(a) # Create(b)
<1>1. \A a, b : Delete(a) = Delete(b) => a = b
    <2>1. \A a : Delete(a).arg = a
        BY DEF Delete
    <2>2. QED
        BY <2>1
<1>2. \A a, b : Create(a) = Create(b) => a = b
    <2>1. \A a : Create(a).arg = a
        BY DEF Create
    <2>2. QED
        BY <2>1
<1>3. \A a, b : Delete(a) # Create(b)
    <2>1. \A a, b : Delete(a).op = "delete" /\ Create(b).op = "create"
        BY DEF Delete, Create
    <2>2. QED
        BY <2>1
<1>4. QED
    BY <1>1, <1>2, <1>3

(* What the service does with a request: one record less, or one more that is
   in no one's way. *)
LEMMA Executed ==
    ASSUME NEW r \in Requests, Execute(r)
    PROVE  \/ \E id \in IDs :
                /\ r = Delete(id)
                /\ Used' = Used \ {id}
                /\ \A k \in Used' : records'[k] = records[k]
           \/ \E ip \in IPs, id \in IDs \ Used :
                /\ r = Create(ip)
                /\ Delete(id) \notin unsent \cup received \cup late
                /\ Used' = Used \cup {id}
                /\ records'[id] = ip
                /\ \A k \in Used : records'[k] = records[k]
<1>1. ASSUME NEW id \in IDs, r = Delete(id)
      PROVE  /\ Used' = Used \ {id}
             /\ \A k \in Used' : records'[k] = records[k]
    <2>1. records' = Without(id)
        BY <1>1 DEF Execute, Delete
    <2>2. QED
        BY <2>1 DEF Without, Used
<1>2. ASSUME NEW ip \in IPs, r = Create(ip)
      PROVE  \E id \in IDs \ Used :
                /\ Delete(id) \notin unsent \cup received \cup late
                /\ Used' = Used \cup {id}
                /\ records'[id] = ip
                /\ \A k \in Used : records'[k] = records[k]
    <2>1. PICK id \in IDs \ Used : /\ Delete(id) \notin unsent \cup received \cup late
                                   /\ records' = With(id, ip)
        BY <1>2 DEF Execute, Create
    <2>2. QED
        BY <2>1 DEF With, Used
<1>3. QED
    BY <1>1, <1>2 DEF Requests

(* No step leaves the types. *)
THEOREM TypeCorrect == Spec => []TypeOK
<1>1. Init => TypeOK
    BY DEF Init, TypeOK, Used, Resolved
<1>2. TypeOK /\ [Next]_vars => TypeOK'
    <2> SUFFICES ASSUME TypeOK, [Next]_vars
                 PROVE  TypeOK'
        OBVIOUS
    <2> USE DEF TypeOK, service, group
    <2>1. records' = records => Used' = Used /\ Resolved' = Resolved
        BY DEF Used, Resolved
    <2>2. ASSUME NEW ips \in SUBSET IPs, UpdateRecords(ips)
          PROVE  TypeOK'
        BY <2>1, <2>2 DEF UpdateRecords
    <2>3. CASE InitializeDomainInfo \/ GetExistingRecordsFails \/ Wait
        BY <2>1, <2>3 DEF InitializeDomainInfo, GetExistingRecordsFails, Wait
    <2>4. CASE GetExistingRecords
        BY <2>1, <2>4 DEF GetExistingRecords, Finds, Requests
    <2>5. ASSUME NEW r \in Requests, Send(r) \/ Answered(r) \/ CallFails(r)
          PROVE  TypeOK'
        BY <2>1, <2>5 DEF Send, Answered, CallFails
    <2>6. ASSUME NEW r \in Requests, CarryOut(r) \/ CarryOutLate(r)
          PROVE  TypeOK'
        <3>1. Used' \subseteq IDs /\ Resolved' \subseteq IPs
            BY <2>6, Executed DEF CarryOut, CarryOutLate, Resolved
        <3>2. QED
            BY <2>6, <3>1 DEF CarryOut, CarryOutLate
    <2>7. CASE UNCHANGED vars
        BY <2>1, <2>7 DEF vars
    <2>8. QED
        BY <2>2, <2>3, <2>4, <2>5, <2>6, <2>7 DEF Next
<1>3. QED
    BY <1>1, <1>2, PTL DEF Spec
-----------------------------------------------------------------------------

(* The requests of a listing are the difference it finds. *)
LEMMA ListingStep ==
    ASSUME IInv, GetExistingRecords
    PROVE  IInv'
<1> USE DEF IInv, TypeOK, GroupInv, Pending
<1>1. PICK ids \in SUBSET IDs :
          /\ ExistingIPs(ids)
          /\ unsent' = {Delete(id) : id \in {id \in ids : records[id] \notin asked}}
                         \cup {Create(ip) : ip \in asked \ Resolved}
    BY DEF GetExistingRecords
<1>2. /\ received = {} /\ waiting = {}
      /\ records' = records /\ received' = received /\ late' = late /\ waiting' = waiting
      /\ asked' = asked /\ failed' = failed /\ pc' = "sending"
      /\ Used' = Used /\ Resolved' = Resolved
    BY DEF GetExistingRecords, service, Used, Resolved
<1>3. TypeOK'
    BY <1>1, <1>2 DEF GetExistingRecords, Finds, Requests
<1>4. PendingInv'
    BY <1>1, <1>2, RequestsDiffer DEF PendingInv
<1>5. ASSUME found' = "intact"
      PROVE  DifferenceInv'
    <2>1. late = {} /\ Once
        BY <1>5 DEF GetExistingRecords, Finds
    <2>2. ASSUME NEW id \in Used
          PROVE  id \in ids
        <3>1. PICK id2 \in ids : records[id2] = records[id]
            BY <1>1, <2>2 DEF ExistingIPs, Resolved
        <3>2. QED
            BY <1>1, <2>1, <2>2, <3>1 DEF ExistingIPs, Once, OneEach
    <2>3. Once'
        BY <1>2, <2>1 DEF Once, OneEach
    <2>4. \A id \in Used' : records'[id] \notin asked' => Delete(id) \in Pending'
        BY <1>1, <1>2, <2>2
    <2>5. \A ip \in asked' : Create(ip) \in Pending' <=> ip \notin Resolved'
        BY <1>1, <1>2, RequestsDiffer
    <2>6. QED
        BY <1>2, <2>1, <2>3, <2>4, <2>5 DEF DifferenceInv
<1>6. DifferenceInv'
    BY <1>5 DEF DifferenceInv
<1>7. GroupInv'
    BY <1>2
<1>8. QED
    BY <1>3, <1>4, <1>6, <1>7

(* A request carried out in time is taken off the difference, and off what is
   under way. *)
LEMMA CarryOutStep ==
    ASSUME IInv, TypeOK', NEW r \in Requests, CarryOut(r)
    PROVE  IInv'
<1> USE DEF Pending
<1>1. /\ r \in received /\ received' = received \ {r} /\ Execute(r)
      /\ UNCHANGED <<late, pc, asked, unsent, waiting, failed, found>>
    BY DEF CarryOut, group
<1>2. ASSUME NEW id \in IDs, r = Delete(id), Used' = Used \ {id},
             \A k \in Used' : records'[k] = records[k]
      PROVE  PendingInv' /\ DifferenceInv'
    <2>1. PendingInv'
        BY <1>1, <1>2 DEF IInv, PendingInv
    <2>2. ASSUME pc = "sending", found = "intact", ~failed
          PROVE  DifferenceInv'
        <3>1. Once'
            BY <1>2, <2>2 DEF IInv, DifferenceInv, Once, OneEach
        <3>2. \A k \in Used' : records'[k] \notin asked' => Delete(k) \in Pending'
            BY <1>1, <1>2, <2>2, RequestsDiffer DEF IInv, DifferenceInv
        <3>3. \A ip \in asked : ip \in Resolved' <=> ip \in Resolved
            <4>1. id \in Used => records[id] \notin asked
                BY <1>1, <1>2 DEF IInv, PendingInv
            <4>2. QED
                BY <1>2, <4>1 DEF Resolved
        <3>4. \A ip \in asked : Create(ip) \in Pending' <=> Create(ip) \in Pending
            BY <1>1, <1>2, RequestsDiffer
        <3>5. QED
            BY <1>1, <2>2, <3>1, <3>2, <3>3, <3>4 DEF IInv, DifferenceInv
    <2>3. QED
        BY <1>1, <2>1, <2>2 DEF DifferenceInv
<1>3. ASSUME NEW ip \in IPs, NEW id \in IDs \ Used, r = Create(ip),
             Delete(id) \notin unsent \cup received \cup late,
             Used' = Used \cup {id}, records'[id] = ip,
             \A k \in Used : records'[k] = records[k]
      PROVE  PendingInv' /\ DifferenceInv'
    <2>1. PendingInv'
        BY <1>1, <1>3 DEF IInv, PendingInv
    <2>2. ip \in asked
        BY <1>1, <1>3 DEF IInv, PendingInv
    <2>3. Resolved' = Resolved \cup {ip}
        BY <1>3 DEF Resolved
    <2>4. ASSUME pc = "sending", found = "intact", ~failed
          PROVE  DifferenceInv'
        <3>1. ip \notin Resolved
            BY <1>1, <1>3, <2>2, <2>4 DEF IInv, DifferenceInv
        <3>2. Once'
            BY <1>3, <2>4, <3>1 DEF IInv, DifferenceInv, Once, OneEach, Resolved
        <3>3. \A k \in Used' : records'[k] \notin asked' => Delete(k) \in Pending'
            BY <1>1, <1>3, <2>2, <2>4, RequestsDiffer DEF IInv, DifferenceInv
        <3>4. \A a \in asked : Create(a) \in Pending' => a \notin Resolved'
            BY <1>1, <1>3, <2>3, <2>4, RequestsDiffer DEF IInv, DifferenceInv, GroupInv
        <3>5. \A a \in asked : a \notin Resolved' => Create(a) \in Pending'
            BY <1>1, <1>3, <2>3, <2>4, RequestsDiffer DEF IInv, DifferenceInv
        <3>6. QED
            BY <1>1, <2>4, <3>2, <3>3, <3>4, <3>5 DEF IInv, DifferenceInv
    <2>5. QED
        BY <1>1, <2>1, <2>4 DEF DifferenceInv
<1>4. PendingInv' /\ DifferenceInv'
    BY <1>1, <1>2, <1>3, Executed
<1>5. GroupInv'
    BY <1>1 DEF IInv, GroupInv
<1>6. QED
    BY <1>4, <1>5 DEF IInv

(* One carried out too late keeps clear of the records that are to be deleted. *)
LEMMA CarryOutLateStep ==
    ASSUME IInv, TypeOK', NEW r \in Requests, CarryOutLate(r)
    PROVE  IInv'
<1> USE DEF Pending
<1>1. /\ r \in late /\ Execute(r)
      /\ UNCHANGED <<received, pc, asked, unsent, waiting, failed, found>>
    BY DEF CarryOutLate, group
<1>2. DifferenceInv'
    BY <1>1 DEF IInv, DifferenceInv
<1>3. PendingInv'
    BY <1>1, Executed DEF IInv, PendingInv
<1>4. GroupInv'
    BY <1>1 DEF IInv, GroupInv
<1>5. QED
    BY <1>2, <1>3, <1>4 DEF IInv

(* The other steps do not touch the records. *)
LEMMA QuietStep ==
    ASSUME IInv, TypeOK', records' = records,
           \/ \E ips \in SUBSET IPs : UpdateRecords(ips)
           \/ InitializeDomainInfo \/ GetExistingRecordsFails \/ Wait
           \/ \E r \in Requests : Send(r) \/ Answered(r) \/ CallFails(r)
           \/ UNCHANGED vars
    PROVE  IInv'
<1> USE DEF IInv, GroupInv, PendingInv, DifferenceInv, Pending
<1>1. Used' = Used /\ Resolved' = Resolved /\ Once' = Once
    BY DEF Used, Resolved, Once, OneEach
<1>2. ASSUME NEW ips \in SUBSET IPs, UpdateRecords(ips)
      PROVE  IInv'
    BY <1>1, <1>2 DEF UpdateRecords, Idle, service
<1>3. CASE InitializeDomainInfo \/ GetExistingRecordsFails \/ Wait
    BY <1>1, <1>3 DEF InitializeDomainInfo, GetExistingRecordsFails, Wait, service, group
<1>4. ASSUME NEW r \in Requests, Send(r)
      PROVE  IInv'
    <2>1. CASE failed
        BY <1>1, <1>4, <2>1 DEF Send
    <2>2. CASE ~failed
        BY <1>1, <1>4, <2>2 DEF Send
    <2>3. QED
        BY <2>1, <2>2
<1>5. ASSUME NEW r \in Requests, Answered(r) \/ CallFails(r)
      PROVE  IInv'
    BY <1>1, <1>5 DEF Answered, CallFails, service
<1>6. CASE UNCHANGED vars
    BY <1>1, <1>6 DEF vars, service, group
<1>7. QED
    BY <1>2, <1>3, <1>4, <1>5, <1>6

(* What the goroutines of an update, the service and late requests do together. *)
LEMMA Inductive == Spec => []IInv
<1>1. Init => IInv
    <2>1. Init => GroupInv /\ PendingInv /\ DifferenceInv
        BY DEF Init, GroupInv, PendingInv, DifferenceInv, Pending
    <2>2. Init => TypeOK
        BY DEF Init, TypeOK, Used, Resolved
    <2>3. QED
        BY <2>1, <2>2 DEF IInv
<1>2. TypeOK' /\ IInv /\ [Next]_vars => IInv'
    <2> SUFFICES ASSUME TypeOK', IInv, [Next]_vars
                 PROVE  IInv'
        OBVIOUS
    <2>1. CASE GetExistingRecords
        BY <2>1, ListingStep
    <2>2. ASSUME NEW r \in Requests, CarryOut(r) \/ CarryOutLate(r)
          PROVE  IInv'
        BY <2>2, CarryOutStep, CarryOutLateStep
    <2>3. CASE \/ \E ips \in SUBSET IPs : UpdateRecords(ips)
               \/ InitializeDomainInfo \/ GetExistingRecordsFails \/ Wait
               \/ \E r \in Requests : Send(r) \/ Answered(r) \/ CallFails(r)
               \/ UNCHANGED vars
        <3>1. records' = records
            BY <2>3
            DEF UpdateRecords, InitializeDomainInfo, GetExistingRecordsFails, Wait, Send,
                Answered, CallFails, vars, service
        <3>2. QED
            BY <2>3, <3>1, QuietStep
    <2>4. QED
        BY <2>1, <2>2, <2>3 DEF Next
<1>3. QED
    BY <1>1, <1>2, TypeCorrect, PTL DEF Spec
-----------------------------------------------------------------------------

\* The values of Provider's variables.
State == IF Idle THEN pc ELSE "busy"
Intact == late = {} /\ Once
Sure == found = "intact"

Stays == /\ asked' = asked /\ State' = State /\ Resolved' = Resolved
         /\ Intact' = Intact /\ Sure' = Sure

(* The service takes the records towards what was asked for, or gives up that
   an address has one of them. *)
LEMMA CarryOutMaps ==
    ASSUME IInv, NEW r \in Requests, CarryOut(r)
    PROVE  Contract!Next \/ Stays
<1> USE DEF State, Intact, Sure, Idle
<1>1. /\ r \in received /\ Execute(r) /\ pc = "sending"
      /\ UNCHANGED <<late, pc, asked, unsent, waiting, failed, found>>
    BY DEF CarryOut, group, IInv, GroupInv
<1>2. ASSUME NEW id \in IDs, r = Delete(id), Used' = Used \ {id},
             \A k \in Used' : records'[k] = records[k]
      PROVE  Contract!Next \/ Stays
    <2>1. CASE id \notin Used
        <3>1. Resolved' = Resolved /\ Once' = Once
            BY <1>2, <2>1 DEF Resolved, Once, OneEach
        <3>2. QED
            BY <1>1, <3>1 DEF Stays
    <2>2. CASE id \in Used
        <3> DEFINE ip == records[id]
        <3>1. ip \in IPs /\ ip \notin asked
            BY <1>1, <1>2, <2>2 DEF IInv, PendingInv, Pending, TypeOK, Resolved
        <3>2. CASE Intact
            <4>1. Resolved' = Resolved \ {ip} /\ ip \in Resolved /\ Once'
                BY <1>2, <2>2, <3>2 DEF Resolved, Once, OneEach
            <4>2. Contract!WriteRecord(ip)
                BY <1>1, <3>1, <3>2, <4>1 DEF Contract!WriteRecord
            <4>3. QED
                BY <3>1, <4>2 DEF Contract!Next
        <3>3. CASE ~Intact
            <4>1. Resolved' \in {Resolved, Resolved \ {ip}, Resolved \cup {ip}}
                BY <1>2, <2>2 DEF Resolved
            <4>2. Contract!Stray(ip)
                BY <1>1, <3>3, <4>1 DEF Contract!Stray, Once, OneEach
            <4>3. QED
                BY <3>1, <4>2 DEF Contract!Next
        <3>4. QED
            BY <3>2, <3>3
    <2>3. QED
        BY <2>1, <2>2
<1>3. ASSUME NEW ip \in IPs, NEW id \in IDs \ Used, r = Create(ip),
             Used' = Used \cup {id}, records'[id] = ip,
             \A k \in Used : records'[k] = records[k]
      PROVE  Contract!Next \/ Stays
    <2>1. Resolved' = Resolved \cup {ip}
        BY <1>3 DEF Resolved
    <2>2. ip \in asked
        BY <1>1, <1>3 DEF IInv, PendingInv, Pending
    <2>3. CASE ~Intact
        <3>1. Contract!Stray(ip)
            BY <1>1, <2>1, <2>3 DEF Contract!Stray, Once, OneEach
        <3>2. QED
            BY <3>1 DEF Contract!Next
    <2>4. CASE Intact /\ ip \notin Resolved
        <3>1. Once'
            BY <1>3, <2>4 DEF Once, OneEach, Resolved
        <3>2. Contract!WriteRecord(ip)
            BY <1>1, <2>1, <2>2, <2>4, <3>1 DEF Contract!WriteRecord
        <3>3. QED
            BY <3>2 DEF Contract!Next
    <2>5. CASE Intact /\ ip \in Resolved
        <3>1. ~Once'
            <4>1. PICK k \in Used : records[k] = ip
                BY <2>5 DEF Resolved
            <4>2. QED
                BY <1>3, <4>1 DEF Once, OneEach
        <3>2. Contract!GiveUp
            BY <1>1, <2>1, <2>5, <3>1 DEF Contract!GiveUp
        <3>3. QED
            BY <3>2 DEF Contract!Next
    <2>6. QED
        BY <2>3, <2>4, <2>5
<1>4. QED
    BY <1>1, <1>2, <1>3, Executed

(* Records that a late request can still reach are not intact. *)
LEMMA CarryOutLateMaps ==
    ASSUME IInv, NEW r \in Requests, CarryOutLate(r)
    PROVE  Contract!Next \/ Stays
<1> USE DEF State, Intact, Sure, Idle
<1>1. /\ r \in late /\ Execute(r)
      /\ UNCHANGED <<pc, asked, found>>
    BY DEF CarryOutLate, group
<1>2. ASSUME NEW ip \in IPs, Resolved' \in {Resolved, Resolved \ {ip}, Resolved \cup {ip}}
      PROVE  Contract!Next
    <2>1. Contract!Stray(ip)
        BY <1>1, <1>2 DEF Contract!Stray, Once, OneEach
    <2>2. QED
        BY <2>1 DEF Contract!Next
<1>3. ASSUME NEW id \in IDs, Used' = Used \ {id},
             \A k \in Used' : records'[k] = records[k]
      PROVE  Contract!Next \/ Resolved' = Resolved
    <2>1. CASE id \in Used
        <3>1. records[id] \in IPs /\ Resolved' \in {Resolved, Resolved \ {records[id]}}
            BY <1>3, <2>1 DEF Resolved, IInv, TypeOK
        <3>2. QED
            BY <1>2, <3>1
    <2>2. QED
        BY <1>3, <2>1 DEF Resolved
<1>4. ASSUME NEW ip \in IPs, NEW id \in IDs \ Used,
             Used' = Used \cup {id}, records'[id] = ip,
             \A k \in Used : records'[k] = records[k]
      PROVE  Contract!Next
    <2>1. Resolved' = Resolved \cup {ip}
        BY <1>4 DEF Resolved
    <2>2. QED
        BY <1>2, <2>1
<1>5. Resolved' = Resolved => Contract!Next
    BY <1>2, DynuAssumption
<1>6. QED
    BY <1>1, <1>3, <1>4, <1>5, Executed
-----------------------------------------------------------------------------

(* Every step of the provider and the service is one of Provider, or none. *)
LEMMA ContractStep ==
    ASSUME IInv, Next
    PROVE  Contract!Next \/ Stays
<1> USE DEF State, Intact, Sure, Idle
<1>1. ASSUME records' = records
      PROVE  Resolved' = Resolved /\ Once' = Once
    BY <1>1 DEF Used, Resolved, Once, OneEach
<1>2. ASSUME NEW ips \in SUBSET IPs, UpdateRecords(ips)
      PROVE  Contract!Next
    <2>1. Contract!Call(ips)
        BY <1>1, <1>2 DEF Contract!Call, UpdateRecords, service
    <2>2. QED
        BY <2>1 DEF Contract!Next
<1>3. CASE InitializeDomainInfo
    <2>1. CASE pc' = "listing"
        BY <1>1, <1>3, <2>1 DEF Stays, InitializeDomainInfo, service, group
    <2>2. CASE pc' = "failed"
        <3>1. Contract!Fail
            BY <1>1, <1>3, <2>2 DEF Contract!Fail, InitializeDomainInfo, service, group
        <3>2. QED
            BY <3>1 DEF Contract!Next
    <2>3. QED
        BY <1>3, <2>1, <2>2 DEF InitializeDomainInfo
<1>4. CASE GetExistingRecords
    <2>1. Sure = FALSE /\ pc = "listing" /\ pc' = "sending" /\ UNCHANGED <<asked, service>>
        BY <1>4 DEF GetExistingRecords, IInv, GroupInv
    <2>2. Sure' <=> Intact
        BY <1>4 DEF GetExistingRecords, Finds
    <2>3. CASE Intact
        <3>1. Contract!FindIntact
            BY <1>1, <2>1, <2>2, <2>3 DEF Contract!FindIntact, service
        <3>2. QED
            BY <3>1 DEF Contract!Next
    <2>4. CASE ~Intact
        BY <1>1, <2>1, <2>2, <2>4 DEF Stays, service
    <2>5. QED
        BY <2>3, <2>4
<1>5. CASE GetExistingRecordsFails
    <2>1. Contract!Fail
        BY <1>1, <1>5 DEF Contract!Fail, GetExistingRecordsFails, service, group
    <2>2. QED
        BY <2>1 DEF Contract!Next
<1>6. ASSUME NEW r \in Requests, Send(r) \/ Answered(r)
      PROVE  Stays
    BY <1>1, <1>6 DEF Stays, Send, Answered, service
<1>7. ASSUME NEW r \in Requests, CallFails(r)
      PROVE  Contract!Next \/ Stays
    <2>1. /\ UNCHANGED <<records, pc, asked, found>> /\ pc = "sending"
          /\ late' = late \/ late' = late \cup {r}
        BY <1>7 DEF CallFails, IInv, GroupInv
    <2>2. CASE Intact /\ late' # late
        <3>1. Contract!GiveUp
            BY <1>1, <2>1, <2>2 DEF Contract!GiveUp
        <3>2. QED
            BY <3>1 DEF Contract!Next
    <2>3. CASE ~Intact \/ late' = late
        BY <1>1, <2>1, <2>3 DEF Stays
    <2>4. QED
        BY <2>2, <2>3
<1>8. CASE Wait
    <2>1. /\ pc = "sending" /\ Pending = {} /\ UNCHANGED <<asked, service, found>>
          /\ pc' = IF failed THEN "failed" ELSE "ok"
        BY <1>8 DEF Wait, group, IInv, GroupInv, Pending
    <2>2. CASE failed
        <3>1. Contract!Fail
            BY <1>1, <2>1, <2>2 DEF Contract!Fail, service
        <3>2. QED
            BY <3>1 DEF Contract!Next
    <2>3. CASE ~failed
        <3>1. ASSUME Sure
              PROVE  Intact /\ Resolved = asked
            <4>1. \A id \in Used : records[id] \in asked
                BY <2>1, <2>3, <3>1 DEF IInv, DifferenceInv
            <4>2. \A ip \in asked : ip \in Resolved
                BY <2>1, <2>3, <3>1 DEF IInv, DifferenceInv
            <4>3. QED
                BY <2>1, <2>3, <3>1, <4>1, <4>2 DEF IInv, DifferenceInv, Resolved
        <3>2. Contract!Succeed
            BY <1>1, <2>1, <2>3, <3>1 DEF Contract!Succeed, service
        <3>3. QED
            BY <3>2 DEF Contract!Next
    <2>4. QED
        BY <2>2, <2>3
<1>9. QED
    BY <1>2, <1>3, <1>4, <1>5, <1>6, <1>7, <1>8, CarryOutMaps, CarryOutLateMaps DEF Next

(* The updater may take DynuDNSProvider for a Provider: in whatever order its
   requests are carried out, whichever fail, and whichever are carried out late. *)
THEOREM ContractImplemented == Spec => ProviderContract
<1>1. Init => Contract!Init
    BY DEF Init, Contract!Init, Idle, Resolved, Used
<1>2. IInv /\ [Next]_vars => [Contract!Next]_(Contract!vars)
    <2> SUFFICES ASSUME IInv, [Next]_vars
                 PROVE  Contract!Next \/ Contract!vars' = Contract!vars
        OBVIOUS
    <2>1. CASE Next
        BY <2>1, ContractStep DEF Stays, State, Intact, Sure, Contract!vars
    <2>2. CASE UNCHANGED vars
        BY <2>2 DEF vars, service, group, Contract!vars, Idle, Resolved, Used, Once, OneEach
    <2>3. QED
        BY <2>1, <2>2
<1>3. QED
    BY <1>1, <1>2, Inductive, PTL DEF ProviderContract, Contract!Spec, Spec
=============================================================================
