------------------------------ MODULE MCStartup ------------------------------
(***************************************************************************)
(* Command lines of Startup for TLC: an ordinary one, varied in what a     *)
(* part of the start looks at.                                             *)
(***************************************************************************)
EXTENDS Startup

Ordinary ==
    [start |-> V4(<<0, 1, 1>>), end |-> V4(<<0, 1, 1>>), period |-> 2, timeout |-> 1,
     wellFormed |-> TRUE, provider |-> "", password |-> FALSE, envPassword |-> FALSE,
     hostname |-> FALSE, ddnsTimeout |-> 1, ddnsTTL |-> 1, requireIP |-> NoIP,
     username |-> FALSE, secret |-> FALSE, envSecret |-> FALSE, reserved |-> FALSE,
     routes |-> {}, table |-> 180, pref |-> 1]

IPs == {V4(a) : a \in N!Addresses} \cup {V6(<<0, 0, 0>>), V6(<<1, 1, 1>>), NoIP}

Ranges == {[Ordinary EXCEPT !.start = s, !.end = e] : s \in IPs, e \in IPs}

Times == {[Ordinary EXCEPT !.period = p, !.timeout = t] : p \in -1..2, t \in -1..2}

DDNS == {[Ordinary EXCEPT !.provider = n, !.password = p, !.envPassword = q,
                          !.hostname = h, !.ddnsTimeout = t, !.ddnsTTL = l] :
            n \in {"", "dynudns", "DynuDNS", "namecheap"}, p \in BOOLEAN,
            q \in BOOLEAN, h \in BOOLEAN, t \in 0..1, l \in 0..1}

Others == {[Ordinary EXCEPT !.wellFormed = w, !.requireIP = r, !.username = u,
                            !.secret = s, !.envSecret = e, !.routes = d] :
              w \in BOOLEAN, r \in {NoIP, V4(<<0, 0, 1>>), V6(<<0, 0, 1>>)},
              u \in BOOLEAN, s \in BOOLEAN, e \in BOOLEAN, d \in SUBSET Destinations}

Numbers == {[Ordinary EXCEPT !.table = t, !.pref = p, !.reserved = TRUE] :
               t \in {0, 1, 254, 255}, p \in 0..(MainPref + 1)}

MCReservedCIDRs == <<<<0, 0, 0>>, <<1, 1>>>>

MaxLen == 3        \* networks in any order, perhaps the same one twice
MaxDifferent == 5  \* different networks, in one order

Lists ==
    BoundedSeq(N!AllNets, MaxLen)
        \cup {SetToSeq(S) : S \in UNION {kSubset(k, N!AllNets) : k \in MaxLen..MaxDifferent}}

MCCommandLines ==
    [flags : {Ordinary}, exclude : Lists]
        \cup [flags : Ranges \cup Times \cup DDNS \cup Others, exclude : {<<>>}]
        \cup [flags : Numbers, exclude : BoundedSeq({<<0, 0, 1>>, <<0, 1>>, <<1, 0>>}, 2)]
=============================================================================
