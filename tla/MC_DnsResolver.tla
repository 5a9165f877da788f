---------------------------- MODULE MC_DnsResolver ----------------------------
(***************************************************************************)
(* Replies for every branch of the lookups: each RCODE, a timeout, an     *)
(* empty answer, a message ns_initparse rejects, RRs that do not parse or *)
(* have the wrong RDLEN, RRs of other types before and after, TXT RDATA   *)
(* of up to three bytes; addresses that differ inside a byte, so that    *)
(* every prefix length hits bitmemcmp's odd-bit mask; MX and PTR answers  *)
(* of up to three names against max 2, in every order.                     *)
(***************************************************************************)
EXTENDS DnsResolver

RR(type, val) == [type |-> type, parses |-> TRUE, fits |-> TRUE, val |-> val]
BadLen(type, val) == [RR(type, val) EXCEPT !.fits = FALSE]
NoParse == [type |-> "A", parses |-> FALSE, fits |-> TRUE, val |-> <<>>]
Msg(rcode, an) == [rcode |-> rcode, init_ok |-> TRUE, an |-> an]
Cname == RR("CNAME", "alias")

(* Replies that fail before the answer is read, for any type.            *)
Failing(t, v) ==
    { Msg("TIMEOUT", <<>>), Msg("NXDOMAIN", <<>>), Msg("SERVFAIL", <<>>), Msg("REFUSED", <<>>),
      Msg("NOERROR", <<>>), [Msg("NOERROR", <<RR(t, v)>>) EXCEPT !.init_ok = FALSE],
      Msg("NOERROR", <<RR(t, v), NoParse>>), Msg("NOERROR", <<BadLen(t, v)>>) }

A1 == <<192, 0, 2, 1>>
A2 == <<192, 0, 2, 129>>
A3 == <<192, 0, 3, 1>>
C4 == <<192, 0, 2, 130>>
Z12 == [i \in 1..12 |-> 0]
B1 == <<32, 1, 13, 184>> \o Z12
B2 == <<32, 1, 13, 185>> \o Z12
C6 == <<32, 1, 13, 184>> \o [i \in 1..11 |-> 0] \o <<3>>

MCClients == [f \in {4, 6} |-> IF f = 4 THEN {A1, C4} ELSE {B1, C6}]
MCCidrs == [f \in {4, 6} |-> IF f = 4 THEN 0..32 ELSE 0..128]
MCAMsgs == [f \in {4, 6} |->
    IF f = 4 THEN Failing("A", A1) \cup
                  { Msg("NOERROR", <<RR("A", A2)>>), Msg("NOERROR", <<Cname, RR("A", A3), RR("A", A1)>>) }
    ELSE Failing("AAAA", B1) \cup
         { Msg("NOERROR", <<RR("AAAA", B2)>>), Msg("NOERROR", <<RR("AAAA", C6), Cname>>),
           Msg("NOERROR", <<RR("A", A1), RR("AAAA", B1)>>) }]

(* TXT RDATA of one to three bytes.                                       *)
Rdata == UNION {[1..n -> 0..2] : n \in 1..3}
TxtMsgs(t) ==
    Failing(t, <<1, 0>>) \cup {Msg("NOERROR", <<RR(t, rd)>>) : rd \in Rdata} \cup
    { Msg("NOERROR", <<RR(t, <<1, 2>>), RR(t, <<0, 0>>), RR("A", A1)>>),
      Msg("NOERROR", <<RR("A", A1), RR(t, <<1, 2>>), RR(t, <<2, 1>>)>>),
      Msg("NOERROR", <<RR(IF t = "TXT" THEN "SPF" ELSE "TXT", <<0>>), RR(t, <<0>>)>>) }

MxNames == {"mx1", "mx2", "mx3"}
MxRR(n) == RR("MX", [pref |-> 10, name |-> n])
(* Every answer of distinct exchanges, in every order.                   *)
MxAnswers == {s \in UNION {[1..k -> MxNames] : k \in 1..3} : \A i, j \in DOMAIN s : i # j => s[i] # s[j]}
MCMxMsgs == {Msg("NOERROR", [i \in DOMAIN s |-> MxRR(s[i])]) : s \in MxAnswers} \cup
            {Msg("SERVFAIL", <<>>), Msg("NXDOMAIN", <<>>)}
(* An exchange resolves to the client, to another address, or fails.     *)
MCMxZones == [MxNames -> {Msg("NOERROR", <<RR("A", A1)>>), Msg("NOERROR", <<RR("A", A3)>>),
                          Msg("SERVFAIL", <<>>)}]

N1 == <<"a", ".", "b">>
N2 == <<"a", "b">>
N3 == <<"b">>
PtrNames == {N1, N2, N3}
MCDomains == {N3}
PtrAnswers == {s \in UNION {[1..k -> PtrNames] : k \in 1..3} : \A i, j \in DOMAIN s : i # j => s[i] # s[j]}
MCPtrMsgs == {Msg("NOERROR", [i \in DOMAIN s |-> RR("PTR", s[i])]) : s \in PtrAnswers} \cup
             {Msg("TIMEOUT", <<>>), Msg("NXDOMAIN", <<>>)}
MCPtrZones == [PtrNames -> {Msg("NOERROR", <<RR("A", A1)>>), Msg("NOERROR", <<RR("A", A3)>>),
                            Msg("NXDOMAIN", <<>>)}]

MCLookupMsgs == [k \in Kinds |->
    CASE k = "A" -> MCAMsgs[4]
      [] k = "AAAA" -> MCAMsgs[6]
      [] k = "MX" -> Failing("MX", [pref |-> 10, name |-> "mx1"]) \cup MCMxMsgs
      [] k = "TXT" -> TxtMsgs(k)
      [] k = "SPF" -> {Msg(r, <<>>) : r \in {"TIMEOUT", "NXDOMAIN", "SERVFAIL", "REFUSED", "NOERROR"}}
      [] k = "PTR" -> Failing("PTR", N1) \cup MCPtrMsgs]

(* The same, with the answers the passing run leaves out: a CNAME and    *)
(* nothing of the type, a TXT record with empty RDATA, and SPF answers    *)
(* that hold records.                                                      *)
MCLookupMsgsFull == [k \in Kinds |->
    MCLookupMsgs[k] \cup {Msg("NOERROR", <<Cname>>)} \cup
    (IF k = "TXT" THEN {Msg("NOERROR", <<RR(k, <<>>)>>)} ELSE {}) \cup
    (IF k = "SPF" THEN TxtMsgs(k) ELSE {})]
=============================================================================
