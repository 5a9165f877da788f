---------------------------- MODULE DnsResolver ----------------------------
(***************************************************************************)
(* dnsresolv.c: DnsResolver_query and the typed lookups over one DNS      *)
(* reply, with every allocation they make, and the a / mx / ptr           *)
(* mechanisms of sidfrequest.c that consume them (bitmemcmp for the CIDR *)
(* match, InetDomain_isParent for ptr).                                    *)
(*                                                                         *)
(* A reply is [rcode, init_ok, an]: the RCODE or "TIMEOUT", whether       *)
(* ns_initparse accepts the message, and the answer section.  An RR is    *)
(* [type, parses, fits, val]: whether ns_parserr accepts it, whether its  *)
(* RDLEN suits its type (4 or 16 for A / AAAA, the preference and the     *)
(* uncompressed name for MX, the name for PTR), and its value: an address *)
(* as a sequence of bytes, an MX [pref, name], a PTR name, or the RDATA   *)
(* bytes of a TXT / SPF record.                                           *)
(***************************************************************************)
EXTENDS Integers, Sequences, FiniteSets, Bitwise

CONSTANTS
    MaxMxrr,      \* policy->max_mxrr_per_mxmech
    MaxPtrrr,     \* policy->max_ptrrr_per_ptrmech
    NameChars     \* the characters of the names the ptr mechanism compares

ID == INSTANCE InetDomain WITH Alphabet <- NameChars, Folding <- <<>>, MaxLen <- 0,
                               NoDomain <- "none", name1 <- <<>>, name2 <- <<>>,
                               called <- FALSE, out <- FALSE

Null == "null"

(* DnsResolver_rcode2statcode.                                             *)
Rcode2Stat(rcode) ==
    CASE rcode = "NOERROR" -> "NETDB_SUCCESS"
      [] rcode = "NXDOMAIN" -> "HOST_NOT_FOUND"
      [] rcode = "SERVFAIL" -> "TRY_AGAIN"
      [] OTHER -> "NO_RECOVERY"

(* DnsResolver_query: res_nquery fails on a timeout (TRY_AGAIN), on an    *)
(* RCODE other than NOERROR (h_errno from the RCODE, as rcode2statcode    *)
(* maps it) and on an empty answer section (NO_DATA); then ns_initparse  *)
(* may reject the message (NO_RECOVERY).                                   *)
Query(msg) ==
    CASE msg.rcode = "TIMEOUT" -> "TRY_AGAIN"
      [] msg.rcode # "NOERROR" -> Rcode2Stat(msg.rcode)
      [] msg.an = <<>> -> "NO_DATA"
      [] ~msg.init_ok -> "NO_RECOVERY"
      [] OTHER -> "NETDB_SUCCESS"

(* The heap of one lookup: n allocations made, live blocks held, the      *)
(* values collected so far (respobj->num = Len(recs)), and whether a      *)
(* write ran past its block.                                               *)
Entries(kind) == kind \in {"MX", "TXT", "SPF", "PTR"}
Alloc(h) == [h EXCEPT !.n = @ + 1, !.live = @ + 1]
Add(h, v) == [h EXCEPT !.recs = Append(@, v)]
Result(stat, recs, live, over) == [stat |-> stat, recs |-> recs, live |-> live, over |-> over]

(* DnsXxxResponse_free: the entries 0..num-1, then the response itself.   *)
ResponseFree(kind, h) == h.live - (IF Entries(kind) THEN Len(h.recs) ELSE 0) - 1

(* The formerr and noresource labels.                                      *)
FormErr(kind, h) == Result("NO_RECOVERY", <<>>, ResponseFree(kind, h), h.over)
NoResource(kind, h) == Result("NETDB_INTERNAL", <<>>, ResponseFree(kind, h), h.over)

(* Mutant: the length check rejects a string that ends exactly at RDLEN. *)
RECURSIVE TxtCopyBoundOffByOne(_, _, _)
TxtCopyBoundOffByOne(rd, p, text) ==
    IF p > Len(rd) THEN [ok |-> TRUE, text |-> text]
    ELSE IF Len(rd) <= p + rd[p] THEN [ok |-> FALSE, text |-> text]
    ELSE TxtCopyBoundOffByOne(rd, p + rd[p] + 1, text \o SubSeq(rd, p + 1, p + rd[p]))

(* The copy loop of DnsResolver_lookupTxtData: each character-string is a *)
(* length byte and that many bytes, and must end within RDLEN.            *)
RECURSIVE TxtCopy(_, _, _)
TxtCopy(rd, p, text) ==
    IF p > Len(rd) THEN [ok |-> TRUE, text |-> text]
    ELSE IF Len(rd) < p + rd[p] THEN [ok |-> FALSE, text |-> text]
    ELSE TxtCopy(rd, p + rd[p] + 1, text \o SubSeq(rd, p + 1, p + rd[p]))

(* One TXT / SPF record: malloc(RDLEN) (a malloc(0) may return NULL: m0), *)
(* the copy, then the terminating NUL at bufp.                             *)
RECURSIVE Collect(_, _, _, _, _, _)
(* Mutant: the block of the bad record is not freed before formerr.       *)
TxtStoredNoFree(kind, an, i, h, f, m0, rd, c) ==
    IF ~c.ok THEN FormErr(kind, h)
    ELSE Collect(kind, an, i + 1,
                 [Add(h, c.text) EXCEPT !.over = @ \/ Len(c.text) + 1 > Len(rd)], f, m0)

TxtStored(kind, an, i, h, f, m0, rd, c) ==
    IF ~c.ok THEN FormErr(kind, [h EXCEPT !.live = @ - 1])
    ELSE Collect(kind, an, i + 1,
                 [Add(h, c.text) EXCEPT !.over = @ \/ Len(c.text) + 1 > Len(rd)], f, m0)

TxtRR(kind, an, i, h, f, m0, rd) ==
    IF h.n + 1 = f \/ (rd = <<>> /\ m0) THEN NoResource(kind, [h EXCEPT !.n = @ + 1])
    ELSE TxtStored(kind, an, i, Alloc(h), f, m0, rd, TxtCopy(rd, 1, <<>>))

(* The loop over the answer section of the lookups: an RR that does not  *)
(* parse is formerr, one of another type is skipped, one of the type is   *)
(* checked and stored; no record of the type at all is formerr too.       *)
(* The type the answer loop keeps: lookupTxtData tests ns_t_txt whatever  *)
(* rrtype it queried, so lookupSpf keeps TXT RRs and skips SPF ones.      *)
RRType(kind) == IF kind \in {"TXT", "SPF"} THEN "TXT" ELSE kind

Stored(kind, an, i, h, f, m0, rr) ==
    CASE kind \in {"A", "AAAA"} ->
           IF ~rr.fits THEN FormErr(kind, h) ELSE Collect(kind, an, i + 1, Add(h, rr.val), f, m0)
      [] kind \in {"MX", "PTR"} ->
           IF ~rr.fits THEN FormErr(kind, h)
           ELSE IF h.n + 1 = f THEN NoResource(kind, [h EXCEPT !.n = @ + 1])
           ELSE Collect(kind, an, i + 1, Add(Alloc(h), rr.val), f, m0)
      [] kind \in {"TXT", "SPF"} -> TxtRR(kind, an, i, h, f, m0, rr.val)
Collect(kind, an, i, h, f, m0) ==
    IF i > Len(an)
    THEN IF h.recs = <<>> THEN FormErr(kind, h) ELSE Result("NETDB_SUCCESS", h.recs, h.live, h.over)
    ELSE IF ~an[i].parses THEN FormErr(kind, h)
    ELSE IF an[i].type # RRType(kind) THEN Collect(kind, an, i + 1, h, f, m0)
    ELSE Stored(kind, an, i, h, f, m0, an[i])

(* DnsResolver_lookupA / Aaaa / Mx / Txt / Spf / Ptr after the query: the *)
(* response is allocation 1.                                               *)
LookupWith(kind, msg, f, m0, q) ==
    IF q # "NETDB_SUCCESS" THEN Result(q, <<>>, 0, FALSE)
    ELSE IF f = 1 THEN Result("NETDB_INTERNAL", <<>>, 0, FALSE)
    ELSE Collect(kind, msg.an, 1, [n |-> 1, live |-> 1, recs |-> <<>>, over |-> FALSE], f, m0)

Lookup(kind, msg, f, m0) == LookupWith(kind, msg, f, m0, Query(msg))

(* DnsResolver_expandReverseEntry4: the octets, last first.               *)
ReverseEntry4(a) == <<a[4], a[3], a[2], a[1], "in-addr.arpa.">>

(* DnsResolver_expandReverseEntry6: rawaddr advances twice in the body    *)
(* and once more in the for header, so pass j writes the high nibble of   *)
(* byte 3j and the low nibble of byte 3j+1 (0-based), for six passes; the *)
(* last one reads byte 16, past the address, whose value is beyond.       *)
ReverseEntry6(a, beyond) ==
    [k \in 1..12 |-> IF k % 2 = 1 THEN a[3 * ((k - 1) \div 2) + 1] \div 16
                     ELSE (IF k = 12 THEN beyond ELSE a[3 * ((k - 1) \div 2) + 2]) % 16]
    \o <<"ip6.arpa.">>

(* DnsResolver_lookupPtr: the query name for the client address.          *)
PtrQname(fam, a, beyond) == IF fam = 4 THEN ReverseEntry4(a) ELSE ReverseEntry6(a, beyond)

-----------------------------------------------------------------------------
(* The mechanisms of sidfrequest.c that use these lookups.  A mechanism  *)
(* returns its score and the blocks still held when it returns.           *)

(* Mutant: a DNS status the switch does not name is returned as it is.    *)
MapMechDnsResponseRaw(rc) ==
    CASE rc \in {"NETDB_SUCCESS", "HOST_NOT_FOUND", "NO_DATA"} -> Null
      [] rc = "NETDB_INTERNAL" -> "syserror"
      [] rc = "TRY_AGAIN" -> "temperror"
      [] OTHER -> rc

(* SidfRequest_mapMechDnsResponseToSidfScore.                             *)
MapMechDnsResponse(rc) ==
    CASE rc \in {"NETDB_SUCCESS", "HOST_NOT_FOUND", "NO_DATA"} -> Null
      [] rc = "NETDB_INTERNAL" -> "syserror"
      [] OTHER -> "temperror"

(* bitmemcmp: memcmp over bits / 8 bytes, then the leading bits % 8 bits  *)
(* of the next byte under bitmask.                                         *)
BitMaskShifted == <<0, 192, 224, 240, 248, 252, 254, 255, 255>>   \* mutant: one bit too many
BitMask == <<0, 128, 192, 224, 240, 248, 252, 254, 255>>

MemCmp(s1, s2, k) ==
    LET d == {i \in 1..k : s1[i] # s2[i]}
    IN  IF d = {} THEN 0
        ELSE LET i == CHOOSE i \in d : \A j \in d : i <= j
             IN  IF s1[i] > s2[i] THEN 1 ELSE -1

OddCmp(o1, o2) == IF o1 = o2 THEN 0 ELSE IF o1 > o2 THEN 1 ELSE -1

BitMemCmpWith(s1, s2, bits, c) ==
    IF c # 0 \/ bits % 8 = 0 THEN c
    ELSE OddCmp(s1[bits \div 8 + 1] & BitMask[(bits % 8) + 1],
                s2[bits \div 8 + 1] & BitMask[(bits % 8) + 1])

BitMemCmp(s1, s2, bits) == BitMemCmpWith(s1, s2, bits, MemCmp(s1, s2, bits \div 8))

AKind(fam) == IF fam = 4 THEN "A" ELSE "AAAA"

(* SidfRequest_evalByALookup: the A or AAAA lookup of domain, then the    *)
(* first address that bitmemcmp finds equal over the cidr bits matches;   *)
(* the response is freed on both returns.                                  *)
ALookupScore(kind, client, cidr, r) ==
    IF r.stat # "NETDB_SUCCESS" THEN [score |-> MapMechDnsResponse(r.stat), live |-> r.live]
    ELSE [score |-> IF \E n \in DOMAIN r.recs : BitMemCmp(client, r.recs[n], cidr) = 0
                    THEN "match" ELSE Null,
          live  |-> ResponseFree(kind, r)]

EvalByALookup(fam, client, cidr, msg) ==
    ALookupScore(AKind(fam), client, cidr, Lookup(AKind(fam), msg, 0, FALSE))

(* SidfRequest_evalMechMx: the MX lookup, then evalByALookup on each of   *)
(* the first max_mxrr_per_mxmech exchanges until one gives a score.       *)
RECURSIVE MxLoop(_, _, _, _, _, _, _)
MxStep(fam, client, cidr, ex, zone, n, live, s) ==
    IF s.score # Null THEN [score |-> s.score, live |-> live + s.live]
    ELSE MxLoop(fam, client, cidr, ex, zone, n + 1, live + s.live)
MxLoop(fam, client, cidr, ex, zone, n, live) ==
    IF n > Len(ex) \/ n > MaxMxrr THEN [score |-> Null, live |-> live]
    ELSE MxStep(fam, client, cidr, ex, zone, n, live,
                EvalByALookup(fam, client, cidr, zone[ex[n].name]))

MxWith(fam, client, cidr, zone, r) ==
    IF r.stat # "NETDB_SUCCESS" THEN [score |-> MapMechDnsResponse(r.stat), live |-> r.live]
    ELSE LET s == MxLoop(fam, client, cidr, r.recs, zone, 1, 0)
         IN  [score |-> s.score, live |-> ResponseFree("MX", r) + s.live]

EvalMechMx(fam, client, cidr, msg, zone) == MxWith(fam, client, cidr, zone, Lookup("MX", msg, 0, FALSE))

(* SidfRequest_evalMechPtrValidate4 / 6: a failing A / AAAA lookup skips  *)
(* the name; otherwise an address equal to the client's validates it.     *)
PtrValidateWith(kind, client, r) ==
    IF r.stat # "NETDB_SUCCESS" THEN [score |-> Null, live |-> r.live]
    ELSE [score |-> IF \E m \in DOMAIN r.recs : r.recs[m] = client THEN "match" ELSE Null,
          live  |-> ResponseFree(kind, r)]

(* SidfRequest_evalMechPtr: the PTR lookup of the client's reverse name;  *)
(* a failure is no match.  Of the first max_ptrrr_per_ptrmech names, those *)
(* under the target domain are validated in order until one matches.      *)
RECURSIVE PtrLoop(_, _, _, _, _, _, _)
(* Mutant: the loop ends after the first name under the target.           *)
PtrStepStopsEarly(fam, client, domain, names, zone, n, live, s) ==
    [score |-> s.score, live |-> live + s.live]
PtrStep(fam, client, domain, names, zone, n, live, s) ==
    IF s.score # Null THEN [score |-> s.score, live |-> live + s.live]
    ELSE PtrLoop(fam, client, domain, names, zone, n + 1, live + s.live)
PtrLoop(fam, client, domain, names, zone, n, live) ==
    IF n > Len(names) \/ n > MaxPtrrr THEN [score |-> Null, live |-> live]
    ELSE IF ~ID!IsParent(domain, names[n]) THEN PtrLoop(fam, client, domain, names, zone, n + 1, live)
    ELSE PtrStep(fam, client, domain, names, zone, n, live,
                 PtrValidateWith(AKind(fam), client, Lookup(AKind(fam), zone[names[n]], 0, FALSE)))

PtrWith(fam, client, domain, zone, r) ==
    IF r.stat # "NETDB_SUCCESS" THEN [score |-> Null, live |-> r.live]
    ELSE LET s == PtrLoop(fam, client, domain, r.recs, zone, 1, 0)
         IN  [score |-> s.score, live |-> ResponseFree("PTR", r) + s.live]

EvalMechPtr(fam, client, domain, msg, zone) ==
    PtrWith(fam, client, domain, zone, Lookup("PTR", msg, 0, FALSE))

-----------------------------------------------------------------------------
(* The calls: one lookup, or one mechanism, on inputs drawn from the      *)
(* constants below; out is what the call returns.                         *)
CONSTANTS
    LookupMsgs,   \* [kind -> set of replies] for the lookups
    MaxAlloc,     \* allocation f fails (0: none fails)
    Clients,      \* [family -> set of client addresses]
    Cidrs,        \* [family -> set of prefix lengths]
    AMsgs,        \* [family -> set of A / AAAA replies]
    MxMsgs,       \* MX replies
    MxZones,      \* A replies for each exchange name
    PtrMsgs,      \* PTR replies
    PtrZones,     \* A replies for each name PTR records give
    Domains,      \* target names of ptr
    Beyond,       \* the byte that follows an IPv6 address in memory
    PtrFams,      \* the address families lookupPtr is called for
    MxCidrs       \* prefix lengths of the mx calls

VARIABLES call, out
vars == <<call, out>>

Kinds == {"A", "AAAA", "MX", "TXT", "SPF", "PTR"}
Stats == {"NETDB_SUCCESS", "HOST_NOT_FOUND", "TRY_AGAIN", "NO_RECOVERY", "NO_DATA", "NETDB_INTERNAL"}
Scores == {Null, "match", "syserror", "temperror"}

Init == call = [op |-> "none"] /\ out = "none"

(* DnsResolver_lookupA / Aaaa / Mx / Txt / Spf.                            *)
LookupCall ==
    /\ call.op = "none"
    /\ \E kind \in Kinds \ {"PTR"}, f \in 0..MaxAlloc, m0 \in BOOLEAN :
         \E msg \in LookupMsgs[kind] :
           /\ call' = [op |-> "lookup", kind |-> kind, msg |-> msg, f |-> f, fam |-> 4, addr |-> <<>>]
           /\ out' = [res |-> Lookup(kind, msg, f, m0), qname |-> <<>>]

(* DnsResolver_lookupPtr: the reverse name of the address, then the PTR   *)
(* lookup.                                                                 *)
LookupPtrCall ==
    /\ call.op = "none"
    /\ \E fam \in PtrFams, f \in 0..MaxAlloc, b \in Beyond :
         \E a \in Clients[fam], msg \in LookupMsgs["PTR"] :
           /\ call' = [op |-> "lookup", kind |-> "PTR", msg |-> msg, f |-> f, fam |-> fam, addr |-> a]
           /\ out' = [res |-> Lookup("PTR", msg, f, FALSE), qname |-> PtrQname(fam, a, b)]

(* SidfRequest_evalMechA.                                                  *)
EvalMechA ==
    /\ call.op = "none"
    /\ \E fam \in {4, 6} : \E c \in Clients[fam], cidr \in Cidrs[fam], msg \in AMsgs[fam] :
         /\ call' = [op |-> "a", fam |-> fam, client |-> c, cidr |-> cidr, msg |-> msg]
         /\ out' = EvalByALookup(fam, c, cidr, msg)

(* SidfRequest_evalMechMx, for an IPv4 client.                            *)
EvalMx ==
    /\ call.op = "none"
    /\ \E c \in Clients[4], cidr \in MxCidrs, msg \in MxMsgs, zone \in MxZones :
         /\ call' = [op |-> "mx", fam |-> 4, client |-> c, cidr |-> cidr, msg |-> msg, zone |-> zone]
         /\ out' = EvalMechMx(4, c, cidr, msg, zone)

(* SidfRequest_evalMechPtr, for an IPv4 client.                           *)
EvalPtr ==
    /\ call.op = "none"
    /\ \E c \in Clients[4], d \in Domains, msg \in PtrMsgs, zone \in PtrZones :
         /\ call' = [op |-> "ptr", fam |-> 4, client |-> c, domain |-> d, msg |-> msg, zone |-> zone]
         /\ out' = EvalMechPtr(4, c, d, msg, zone)

Next == LookupCall \/ LookupPtrCall \/ EvalMechA \/ EvalMx \/ EvalPtr

Spec == Init /\ [][Next]_vars

-----------------------------------------------------------------------------
(* References: the interface of the lookups (RFC 1035 and the res_nquery *)
(* statuses), RFC 3596 / 1035 reverse names, and the a / mx / ptr         *)
(* mechanisms of RFC 4408 5.3-5.5, stated without the code's loops.       *)

Typed(an, kind) == SelectSeq(an, LAMBDA rr : rr.type = kind)

(* The offsets of the length bytes of RDATA read as character-strings,   *)
(* or no set at all when the bytes are not such a sequence.               *)
Heads(rd) ==
    {S \in SUBSET DOMAIN rd :
        /\ 1 \in S
        /\ \A s \in S : /\ s + rd[s] + 1 \in S \cup {Len(rd) + 1}
                        /\ \A t \in S : t > s => t >= s + rd[s] + 1}

(* The TXT text: RDATA without its length bytes; RFC 1035 3.3.14 wants    *)
(* one character-string at least.                                          *)
TxtText(rd, H) ==
    LET idx == SelectSeq([i \in DOMAIN rd |-> i], LAMBDA i : i \notin H)
    IN  [k \in DOMAIN idx |-> rd[idx[k]]]

WellFormed(kind, rr) == IF kind \in {"TXT", "SPF"} THEN Heads(rr.val) # {} ELSE rr.fits

Decode(kind, v) == IF kind \in {"TXT", "SPF"} THEN TxtText(v, CHOOSE H \in Heads(v) : TRUE) ELSE v

RefLookup(kind, msg) ==
    CASE msg.rcode \in {"TIMEOUT", "SERVFAIL"} -> [stat |-> "TRY_AGAIN", recs |-> <<>>]
      [] msg.rcode = "NXDOMAIN" -> [stat |-> "HOST_NOT_FOUND", recs |-> <<>>]
      [] msg.rcode # "NOERROR" -> [stat |-> "NO_RECOVERY", recs |-> <<>>]
      [] msg.an = <<>> -> [stat |-> "NO_DATA", recs |-> <<>>]
      [] ~msg.init_ok \/ \E i \in DOMAIN msg.an :
             ~msg.an[i].parses \/ (msg.an[i].type = kind /\ ~WellFormed(kind, msg.an[i]))
         -> [stat |-> "NO_RECOVERY", recs |-> <<>>]
      [] Typed(msg.an, kind) = <<>> -> [stat |-> "NO_DATA", recs |-> <<>>]
      [] OTHER -> [stat |-> "NETDB_SUCCESS",
                   recs |-> [i \in DOMAIN Typed(msg.an, kind) |-> Decode(kind, Typed(msg.an, kind)[i].val)]]

(* The reverse name: octets last first, or the 32 nibbles of an IPv6      *)
(* address, low nibble of the last byte first.                            *)
RefReverse(fam, a) ==
    IF fam = 4 THEN <<a[4], a[3], a[2], a[1], "in-addr.arpa.">>
    ELSE [k \in 1..32 |-> IF k % 2 = 1 THEN a[17 - (k + 1) \div 2] % 16
                          ELSE a[17 - (k + 1) \div 2] \div 16] \o <<"ip6.arpa.">>

(* Bit i of an address, most significant first.                           *)
Bit(x, i) == (x[(i \div 8) + 1] \div 2^(7 - (i % 8))) % 2
PrefixEq(x, y, bits) == \A i \in 0..bits - 1 : Bit(x, i) = Bit(y, i)

(* RFC 4408 5.: a DNS error other than RCODE 3 is TempError.              *)
RefMap(stat) ==
    IF stat \in {"NETDB_SUCCESS", "HOST_NOT_FOUND", "NO_DATA"} THEN Null
    ELSE IF stat = "NETDB_INTERNAL" THEN "syserror" ELSE "temperror"

RefAddrWith(client, cidr, ref) ==
    IF ref.stat # "NETDB_SUCCESS" THEN RefMap(ref.stat)
    ELSE IF \E i \in DOMAIN ref.recs : PrefixEq(client, ref.recs[i], cidr) THEN "match" ELSE Null
RefAddr(fam, client, cidr, msg) == RefAddrWith(client, cidr, RefLookup(AKind(fam), msg))

FirstN(s, n) == IF Len(s) <= n THEN s ELSE SubSeq(s, 1, n)

(* mx: the exchanges in order; the first that scores decides.              *)
RefMxScores(fam, client, cidr, ex, zone) ==
    [k \in DOMAIN ex |-> RefAddr(fam, client, cidr, zone[ex[k].name])]
RefMxFirst(sc) ==
    IF \A k \in DOMAIN sc : sc[k] = Null THEN Null
    ELSE sc[CHOOSE k \in DOMAIN sc : sc[k] # Null /\ \A j \in 1..k - 1 : sc[j] = Null]
RefMxWith(fam, client, cidr, zone, ref) ==
    IF ref.stat # "NETDB_SUCCESS" THEN RefMap(ref.stat)
    ELSE RefMxFirst(RefMxScores(fam, client, cidr, FirstN(ref.recs, MaxMxrr), zone))

(* ptr: a name of the first max_ptrrr_per_ptrmech at or under the target *)
(* whose addresses include the client's; a failing lookup is no match.   *)
RefPtrWith(fam, client, domain, zone, ref) ==
    IF ref.stat = "NETDB_SUCCESS"
       /\ \E k \in DOMAIN FirstN(ref.recs, MaxPtrrr) :
            /\ ID!IsParent(domain, ref.recs[k])
            /\ \E i \in DOMAIN RefLookup(AKind(fam), zone[ref.recs[k]]).recs :
                 RefLookup(AKind(fam), zone[ref.recs[k]]).recs[i] = client
    THEN "match" ELSE Null

-----------------------------------------------------------------------------
(* Types of the calls and of their results.                                *)
TypeOK ==
    /\ call.op \in {"none", "lookup", "a", "mx", "ptr"}
    /\ call.op = "lookup" => out.res.stat \in Stats /\ out.res.live \in Int /\ out.res.over \in BOOLEAN
    /\ call.op \in {"a", "mx", "ptr"} => out.score \in Scores /\ out.live \in Int

(* Every lookup returns what its interface promises for the reply: the   *)
(* res_nquery status of an RCODE, NO_DATA without a record of the type,   *)
(* NO_RECOVERY for a malformed answer, else the decoded records, and      *)
(* never a write past a block; NETDB_INTERNAL only when an allocation    *)
(* fails.  lookupPtr queries the reverse name of the address.             *)
ResolverPerInterface ==
    call.op = "lookup" =>
        /\ ~out.res.over
        /\ \/ out.res.stat = "NETDB_INTERNAL" /\ call.f # 0
           \/ [stat |-> out.res.stat, recs |-> out.res.recs] = RefLookup(call.kind, call.msg)
        /\ call.kind = "PTR" => out.qname = RefReverse(call.fam, call.addr)

(* Nothing leaks: a failed lookup holds no block, a successful one the   *)
(* response and one block per MX, TXT, SPF or PTR record, and a mechanism *)
(* has freed every response when it returns, on each of its returns.      *)
NoLeak ==
    /\ call.op = "lookup" =>
         out.res.live = IF out.res.stat = "NETDB_SUCCESS"
                        THEN 1 + (IF Entries(call.kind) THEN Len(out.res.recs) ELSE 0)
                        ELSE 0
    /\ call.op \in {"a", "mx", "ptr"} => out.live = 0

(* The a and mx mechanisms match exactly when an address of the target   *)
(* (of an exchange, the first that scores deciding) shares the client's  *)
(* first cidr bits; bitmemcmp's mask of the odd bits is the hazard.       *)
AddrMechPerRFC ==
    /\ call.op = "a" => out.score = RefAddr(call.fam, call.client, call.cidr, call.msg)
    /\ call.op = "mx" =>
         out.score = RefMxWith(call.fam, call.client, call.cidr, call.zone, RefLookup("MX", call.msg))

(* ptr matches exactly when one of the first max_ptrrr_per_ptrmech names  *)
(* is at or under the target and resolves to the client's address.        *)
PtrMechPerRFC ==
    call.op = "ptr" =>
        out.score = RefPtrWith(call.fam, call.client, call.domain, call.zone, RefLookup("PTR", call.msg))

=============================================================================
