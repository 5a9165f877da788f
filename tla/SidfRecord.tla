------------------------------ MODULE SidfRecord ------------------------------
(***************************************************************************)
(* SidfRecord_build (libsidf/src/sidfrecord.c): the terms of an SPF/SIDF   *)
(* record after its version section, parsed into the ordered directives   *)
(* and the redirect= and exp= slots.  The record text is a sequence of    *)
(* symbols: the one-character symbols the parser looks at (SP, '=', ':',  *)
(* '/', qualifiers, digits, '%' starting a bad macro) and words that      *)
(* stand for runs of characters it treats alike: a name or domain text    *)
(* ("all", "example.com"), and the text of one IPv4 and one IPv6 literal. *)
(* Positions are 1-based and a range [head, tail) excludes tail, as the   *)
(* code's pointer pairs do.                                                *)
(***************************************************************************)
EXTENDS Naturals, Sequences, FiniteSets

CONSTANTS Ip4Lit,    \* the text of an IPv4 address, e.g. "192.0.2.1"
          Ip6Lit,    \* the text of an IPv6 address, e.g. "2001:db8::1"
          MaxAlloc   \* the allocations of one build that may be the failing one

Digits == {"0", "1", "2", "3", "4", "5", "6", "7", "8", "9"}
DigitSeq == <<"0", "1", "2", "3", "4", "5", "6", "7", "8", "9">>
Qualifiers == {"+", "-", "?", "~"}
Specials == {" ", "=", ":", "/", "%"} \cup Qualifiers

(* The decimal value of a sequence of digit symbols.                       *)
RECURSIVE Number(_)
Number(s) == IF s = <<>> THEN 0
             ELSE 10 * Number(SubSeq(s, 1, Len(s) - 1))
                  + (CHOOSE v \in 0..9 : DigitSeq[v + 1] = s[Len(s)])

(* XSkip_spfName: name = ALPHA *( ALPHA / DIGIT / "-" / "_" / "." ).       *)
IsNameStart(c) == c \notin Specials \cup Digits \cup {Ip4Lit, Ip6Lit}
IsNameChar(c) == IsNameStart(c) \/ c \in Digits \cup {"-", Ip4Lit}

(* The end of the name starting at i in [i, tail), i itself if none.      *)
RECURSIVE NameRun(_, _, _)
NameRun(b, i, tail) == IF i < tail /\ IsNameChar(b[i]) THEN NameRun(b, i + 1, tail) ELSE i
NameEnd(b, i, tail) == IF i < tail /\ IsNameStart(b[i]) THEN NameRun(b, i + 1, tail) ELSE i

(* sidf_mech_attr_table and sidf_mod_attr_table.                           *)
Attr(mech, param, delim, required, cidr) ==
    [is_mechanism |-> mech, param_type |-> param, parameter_delimiter |-> delim,
     required_parameter |-> required, cidr |-> cidr]
MechTable ==
    [all      |-> Attr(TRUE, "NONE", "", FALSE, "NONE"),
     include  |-> Attr(TRUE, "DOMAINSPEC", ":", TRUE, "NONE"),
     a        |-> Attr(TRUE, "DOMAINSPEC", ":", FALSE, "DUAL"),
     mx       |-> Attr(TRUE, "DOMAINSPEC", ":", FALSE, "DUAL"),
     ptr      |-> Attr(TRUE, "DOMAINSPEC", ":", FALSE, "NONE"),
     ip4      |-> Attr(TRUE, "IP4", ":", TRUE, "IP4"),
     ip6      |-> Attr(TRUE, "IP6", ":", TRUE, "IP6"),
     exists   |-> Attr(TRUE, "DOMAINSPEC", ":", TRUE, "NONE")]
(* Mutant: the redirect entry copied from a mechanism row.                *)
ModTableRedirectAsMechanism ==
    [redirect |-> Attr(TRUE, "DOMAINSPEC", "=", TRUE, "NONE"),
     exp      |-> Attr(FALSE, "DOMAINSPEC", "=", TRUE, "NONE")]
ModTable ==
    [redirect |-> Attr(FALSE, "DOMAINSPEC", "=", TRUE, "NONE"),
     exp      |-> Attr(FALSE, "DOMAINSPEC", "=", TRUE, "NONE")]

(* SidfRecord_lookupMechanismAttribute / lookupModifierAttribute: the     *)
(* whole name [head, tail) must be a table entry; "" is the sentinel.      *)
Lookup(T, b, head, tail) ==
    IF tail = head + 1 /\ b[head] \in DOMAIN T THEN b[head] ELSE ""

(* SidfRecord_parsebackCidrLength: up to three digits back from tail,     *)
(* preceded by '/'; prev is the '/' on success, tail otherwise.            *)
RECURSIVE DigitsBack(_, _, _)
DigitsBack(b, p, lo) == IF p >= lo /\ b[p] \in Digits THEN DigitsBack(b, p - 1, lo) ELSE p

(* Mutant: the window is SIDF_RECORD_CIDRLEN_MAX_WIDTH - 1 digits wide.   *)
ParsebackCidrLengthTwoDigits(b, head, tail) ==
    LET cidr_head == IF head < tail - 2 THEN tail - 2 ELSE head
        p         == DigitsBack(b, tail - 1, cidr_head)
    IN  IF p < tail - 1 /\ head <= p /\ b[p] = "/"
        THEN [stat |-> "OK", prev |-> p, len |-> Number(SubSeq(b, p + 1, tail - 1))]
        ELSE [stat |-> "NOT_MATCH", prev |-> tail, len |-> 0]

ParsebackCidrLength(b, head, tail) ==
    LET cidr_head == IF head < tail - 3 THEN tail - 3 ELSE head
        p         == DigitsBack(b, tail - 1, cidr_head)
    IN  IF p < tail - 1 /\ head <= p /\ b[p] = "/"
        THEN [stat |-> "OK", prev |-> p, len |-> Number(SubSeq(b, p + 1, tail - 1))]
        ELSE [stat |-> "NOT_MATCH", prev |-> tail, len |-> 0]

(* SidfRecord_parsebackSingleCidrLength: 0 and lengths over the family's  *)
(* maximum are INVALID_CIDR_LENGTH.                                        *)
SingleCidrLength(b, head, tail, maxlen) ==
    LET r == ParsebackCidrLength(b, head, tail)
    IN  IF r.stat = "OK" /\ (r.len = 0 \/ maxlen < r.len)
        THEN [r EXCEPT !.stat = "INVALID_CIDR_LENGTH"] ELSE r

(* The cidr of a term: <<ip4cidr, ip6cidr>> for a dual-cidr mechanism,    *)
(* <<ip4cidr>> or <<ip6cidr>> for ip4/ip6, <<>> for the rest.              *)
Cidr(stat, prev, lens) == [stat |-> stat, prev |-> prev, lens |-> lens]

(* SidfRecord_parsebackDualCidrLength: a "//" before the last length      *)
(* makes it the ip6-cidr-length and an ip4 one may precede it.             *)
DualCidrLength(b, head, tail) ==
    LET r == ParsebackCidrLength(b, head, tail)
    IN  IF r.stat = "NOT_MATCH" THEN Cidr("NOT_MATCH", tail, <<32, 128>>)
        ELSE IF head <= r.prev - 1 /\ b[r.prev - 1] = "/"
        THEN IF r.len = 0 \/ 128 < r.len THEN Cidr("INVALID_CIDR_LENGTH", r.prev, <<>>)
             ELSE LET s == SingleCidrLength(b, head, r.prev - 1, 32)
                  IN  Cidr(s.stat, s.prev, <<IF s.stat = "OK" THEN s.len ELSE 32, r.len>>)
        ELSE IF r.len = 0 \/ 32 < r.len THEN Cidr("INVALID_CIDR_LENGTH", r.prev, <<>>)
        ELSE Cidr("OK", r.prev, <<r.len, 128>>)

(* SidfRecord_parseCidrLength and the ip4/ip6 wrappers (default 32/128).  *)
CidrLength(kind, b, head, tail) ==
    CASE kind = "NONE" -> Cidr("OK", tail, <<>>)
      [] kind = "DUAL" -> DualCidrLength(b, head, tail)
      [] kind = "IP4"  -> LET s == SingleCidrLength(b, head, tail, 32)
                          IN  Cidr(s.stat, s.prev, <<IF s.stat = "OK" THEN s.len ELSE 32>>)
      [] kind = "IP6"  -> LET s == SingleCidrLength(b, head, tail, 128)
                          IN  Cidr(s.stat, s.prev, <<IF s.stat = "OK" THEN s.len ELSE 128>>)
(* The allocation counter: n allocations are done, and allocation f (0:   *)
(* none) is the one malloc refuses.                                        *)
NextAllocFails(st, f) == st.n + 1 = f
Allocated(st) == [st EXCEPT !.n = @ + 1]
Failed(st, stat) == [st EXCEPT !.stat = stat]

(* SidfRecord_parseIp4Addr / parseIp6Addr: the first character is taken   *)
(* as it is, then the characters an address can have; inet_ppton must     *)
(* accept the whole run.  [head, tail) is never empty when it succeeds.   *)
RECURSIVE ScanFrom(_, _, _, _)
ScanFrom(b, p, tail, C) == IF p < tail /\ b[p] \in C THEN ScanFrom(b, p + 1, tail, C) ELSE p

ParseIpAddr(b, head, tail, C, lit, st) ==
    LET p == ScanFrom(b, head + 1, tail, C)
    IN  IF head < tail /\ SubSeq(b, head, p - 1) = <<lit>>
        THEN [stat |-> "OK", next |-> p, param |-> <<lit>>, st |-> st]
        ELSE [stat |-> "SYNTAX_VIOLATION", next |-> head, param |-> <<>>, st |-> st]

(* SidfRecord_parseDomainSpec: SidfMacro_parseDomainSpec consumes the     *)
(* whole range unless a macro in it is bad; an empty range is             *)
(* RECORD_NOT_MATCH (parseMacroString consumed nothing).  Then the        *)
(* expansion buffer's status and XBuffer_dupString may each report no     *)
(* memory.                                                                 *)
ParseDomainSpec(b, head, tail, st, f) ==
    LET Out(stat, next, s) == [stat |-> stat, next |-> next, param |-> SubSeq(b, head, tail - 1),
                               st |-> s]
    IN  IF head = tail THEN Out("NOT_MATCH", head, st)
        ELSE IF \E i \in head..(tail - 1) : b[i] = "%" THEN Out("SYNTAX_VIOLATION", head, st)
        ELSE IF NextAllocFails(st, f) THEN Out("NO_RESOURCE", head, Allocated(st))
        ELSE IF NextAllocFails(Allocated(st), f)
             THEN Out("NO_RESOURCE", head, Allocated(Allocated(st)))
        ELSE Out("OK", tail, Allocated(Allocated(st)))

(* SidfRecord_parseTermTargetName.                                         *)
TargetName(kind, b, head, tail, st, f) ==
    CASE kind = "DOMAINSPEC" -> ParseDomainSpec(b, head, tail, st, f)
      [] kind = "IP4" -> ParseIpAddr(b, head, tail, Digits \cup {Ip4Lit}, Ip4Lit, st)
      [] kind = "IP6" -> ParseIpAddr(b, head, tail, Digits \cup {Ip4Lit, Ip6Lit, ":"}, Ip6Lit, st)

Directive(q, name, param, cidr) == [q |-> q, name |-> name, param |-> param, cidr |-> cidr]

(* SidfRecord_buildTerm: [head, tail) follows the name.  The cidr-length  *)
(* is parsed back from tail first, then the parameter up to it; nothing   *)
(* may be left between them.  A mechanism is appended with "+" as its     *)
(* default qualifier; redirect= and exp= may each be set once.            *)
AppendTerm(name, attr, q, f, missing, prev, lens, t) ==
    IF t.stat # "OK" THEN Failed(t.st, t.stat)
    ELSE IF missing /\ attr.required_parameter THEN Failed(t.st, "SYNTAX_VIOLATION")
    ELSE IF t.next # prev THEN Failed(t.st, "SYNTAX_VIOLATION")
    ELSE IF attr.is_mechanism
    THEN IF NextAllocFails(t.st, f) THEN Failed(Allocated(t.st), "NO_RESOURCE")
         ELSE [Allocated(t.st) EXCEPT
                 !.dirs = Append(@, Directive(IF q = "" THEN "+" ELSE q, name, t.param, lens))]
    ELSE IF t.st[name] # <<>> THEN Failed(t.st, "SYNTAX_VIOLATION")
    ELSE [t.st EXCEPT ![name] = <<t.param>>]

BuildTermParam(b, head, name, attr, q, s1, f, c) ==
    LET takes == attr.parameter_delimiter # "" /\ attr.param_type # "NONE"
        given == takes /\ head < c.prev /\ b[head] = attr.parameter_delimiter
    IN  IF c.stat = "INVALID_CIDR_LENGTH" THEN Failed(s1, c.stat)
        ELSE AppendTerm(name, attr, q, f, takes /\ ~given, c.prev, c.lens,
                        IF given THEN TargetName(attr.param_type, b, head + 1, c.prev, s1, f)
                        ELSE [stat |-> "OK", next |-> head, param |-> <<>>, st |-> s1])

BuildTerm(b, head, tail, name, attr, q, st, f) ==
    IF NextAllocFails(st, f) THEN Failed(Allocated(st), "NO_RESOURCE")
    ELSE BuildTermParam(b, head, name, attr, q, Allocated(st), f,
                        CidrLength(attr.cidr, b, head, tail))

(* One term [th, tt) of SidfRecord_parse: a name not followed by '=' is a *)
(* mechanism, one followed by '=' without a qualifier a modifier (unknown *)
(* ones ignored), and a qualified one followed by '=' is an error.        *)
ParseTerm(b, th, tt, st, f) ==
    LET q  == IF th < tt /\ b[th] \in Qualifiers THEN b[th] ELSE ""
        mh == IF q = "" THEN th ELSE th + 1
        mt == NameEnd(b, mh, tt)
        eq == mt < tt /\ b[mt] = "="
        m  == Lookup(MechTable, b, mh, mt)
        d  == Lookup(ModTable, b, mh, mt)
    IN  IF ~eq
        THEN IF m = "" THEN Failed(st, "UNSUPPORTED_MECHANISM")
             ELSE BuildTerm(b, mt, tt, m, MechTable[m], q, st, f)
        ELSE IF q = ""
        THEN IF d = "" THEN st ELSE BuildTerm(b, mt, tt, d, ModTable[d], q, st, f)
        ELSE Failed(st, "SYNTAX_VIOLATION")

(* strpchr(term_head, tail, ' ') or tail, and XSkip_spBlock.              *)
RECURSIVE SpaceOrEnd(_, _)
SpaceOrEnd(b, i) == IF i > Len(b) \/ b[i] = " " THEN i ELSE SpaceOrEnd(b, i + 1)
RECURSIVE SkipSpaces(_, _)
SkipSpaces(b, i) == IF i <= Len(b) /\ b[i] = " " THEN SkipSpaces(b, i + 1) ELSE i

(* The loop of SidfRecord_parse from term_head th: stop at the first      *)
(* error, or when the SP block after the term reaches the end (no SP     *)
(* follows only the term that ends the record, so the final term_head ==  *)
(* tail test always holds).                                               *)
RECURSIVE ParseTerms(_, _, _, _)
RECURSIVE NextTerm(_, _, _, _)
NextTerm(b, tt, r, f) ==
    IF r.stat # "OK" \/ SkipSpaces(b, tt) = Len(b) + 1 THEN r
    ELSE ParseTerms(b, SkipSpaces(b, tt), r, f)
ParseTerms(b, th, st, f) ==
    NextTerm(b, SpaceOrEnd(b, th), ParseTerm(b, th, SpaceOrEnd(b, th), st, f), f)

(* SidfRecord_build: SidfRecord_new allocates the record and its          *)
(* directive array, then SidfRecord_parse runs; a record that fails is    *)
(* freed, so only the status leaves.                                       *)
EmptyRecord == [stat |-> "OK", dirs |-> <<>>, redirect |-> <<>>, exp |-> <<>>, n |-> 0]

Released(r) ==
    IF r.stat = "OK" THEN [r EXCEPT !.n = 0] ELSE [EmptyRecord EXCEPT !.stat = r.stat]

Build(b, f) ==
    Released(IF f \in {1, 2} THEN Failed([EmptyRecord EXCEPT !.n = f], "NO_RESOURCE")
             ELSE ParseTerms(b, 1, [EmptyRecord EXCEPT !.n = 2], f))
-----------------------------------------------------------------------------
(* The harness: the terms of one record and the allocation that fails,    *)
(* and the result of one SidfRecord_build call on them.                    *)
CONSTANT Bodies   \* the record texts after the version section

VARIABLES body, nomem_at, out

vars == <<body, nomem_at, out>>

Pending == [EmptyRecord EXCEPT !.stat = "PENDING"]

Init ==
    /\ body \in Bodies
    /\ nomem_at \in 0..MaxAlloc
    /\ out = Pending

BuildRecord ==
    /\ out = Pending
    /\ out' = Build(body, nomem_at)
    /\ UNCHANGED <<body, nomem_at>>

Spec == Init /\ [][BuildRecord]_vars

Stats == {"PENDING", "OK", "NO_RESOURCE", "SYNTAX_VIOLATION", "UNSUPPORTED_MECHANISM",
          "INVALID_CIDR_LENGTH", "NOT_MATCH"}

TypeOK ==
    /\ nomem_at \in 0..MaxAlloc
    /\ out.stat \in Stats
    /\ \A i \in DOMAIN out.dirs : out.dirs[i].name \in DOMAIN MechTable
    /\ Len(out.redirect) <= 1 /\ Len(out.exp) <= 1

-----------------------------------------------------------------------------
(* The reference: RFC 4408 4.6.1 and 5, and spec.md 4.2, read as sets.    *)
(* terms = *( 1*SP ( directive / modifier ) ) *SP; a domain-spec is any   *)
(* non-empty macro-string without a bad macro (domain-end is not empty;   *)
(* spec.md 4.1 keeps the leniency over what it holds);                    *)
(* lengths are checked after the cidr suffix is taken from the right.     *)
RefTerms(b) ==
    LET C      == {0, Len(b) + 1} \cup {i \in DOMAIN b : b[i] = " "}
        Cut(k) == CHOOSE i \in C : Cardinality({j \in C : j < i}) = k
        pieces == [k \in 1..Cardinality(C) - 1 |-> SubSeq(b, Cut(k - 1) + 1, Cut(k) - 1)]
    IN  SelectSeq(pieces, LAMBDA t : t # <<>>)

(* The text of a run of symbols.                                           *)
RECURSIVE Text(_)
Text(s) == IF s = <<>> THEN "" ELSE Text(SubSeq(s, 1, Len(s) - 1)) \o s[Len(s)]

IsName(s) == Len(s) >= 1 /\ IsNameStart(s[1]) /\ \A i \in 2..Len(s) : IsNameChar(s[i])
IsDigits(s) == Len(s) >= 1 /\ \A i \in DOMAIN s : s[i] \in Digits

(* The cidr suffixes of each kind, as the lengths they give.              *)
CidrSyntax(kind, c) ==
    CASE kind = "NONE" -> c = <<>>
      [] kind \in {"IP4", "IP6"} -> c = <<>> \/ (c[1] = "/" /\ IsDigits(Tail(c)))
      [] kind = "DUAL" ->
           \/ c = <<>>
           \/ c[1] = "/" /\ IsDigits(Tail(c))
           \/ Len(c) > 2 /\ c[1] = "/" /\ c[2] = "/" /\ IsDigits(SubSeq(c, 3, Len(c)))
           \/ \E k \in 2..Len(c) - 3 :
                 /\ c[1] = "/" /\ IsDigits(SubSeq(c, 2, k))
                 /\ c[k + 1] = "/" /\ c[k + 2] = "/" /\ IsDigits(SubSeq(c, k + 3, Len(c)))

(* The lengths of a cidr suffix, with the defaults 32 and 128.            *)
CidrLens(kind, c) ==
    LET slashes == {i \in DOMAIN c : c[i] = "/"}
        v4 == IF c = <<>> \/ (Len(c) > 1 /\ c[2] = "/") THEN 32
              ELSE Number(SubSeq(c, 2, IF Cardinality(slashes) = 1 THEN Len(c)
                                        ELSE (CHOOSE i \in slashes : i > 1) - 1))
        v6 == IF Cardinality(slashes) < 2 THEN 128
              ELSE Number(SubSeq(c, (CHOOSE i \in slashes : \A j \in slashes : j <= i) + 1,
                                 Len(c)))
    IN  CASE kind = "NONE" -> <<>>
          [] kind = "IP4" -> <<IF c = <<>> THEN 32 ELSE Number(Tail(c))>>
          [] kind = "IP6" -> <<IF c = <<>> THEN 128 ELSE Number(Tail(c))>>
          [] kind = "DUAL" -> <<v4, v6>>

LensValid(kind, lens) ==
    \A i \in DOMAIN lens :
        lens[i] >= 1 /\ lens[i] <= (IF kind = "IP4" \/ (kind = "DUAL" /\ i = 1) THEN 32 ELSE 128)

(* The parameter: none, or the delimiter and a value of the right kind.   *)
ParamValue(attr, p) ==
    IF attr.param_type = "NONE" THEN {<<>>} \cap {p}
    ELSE {v \in {SubSeq(p, 2, Len(p))} :
            /\ p # <<>> /\ p[1] = attr.parameter_delimiter
            /\ CASE attr.param_type = "DOMAINSPEC" -> v # <<>> /\ \A i \in DOMAIN v : v[i] # "%"
                 [] attr.param_type = "IP4" -> v = <<Ip4Lit>>
                 [] attr.param_type = "IP6" -> v = <<Ip6Lit>>}
      \cup (IF attr.required_parameter \/ p # <<>> THEN {} ELSE {<<>>})
RefError == [kind |-> "error", name |-> "", q |-> "", param |-> <<>>, cidr |-> <<>>]

(* A term's value, if its parameter has one of the allowed values vs.     *)
RefValue(kind, nm, q, vs, cidr) ==
    IF vs = {} THEN RefError
    ELSE [kind |-> kind, name |-> nm, q |-> q, param |-> CHOOSE v \in vs : TRUE, cidr |-> cidr]

(* A mechanism: its parameter, then the longest cidr suffix of its kind.  *)
RefMechCut(q, nm, attr, rest, k) ==
    LET lens == CidrLens(attr.cidr, SubSeq(rest, Len(rest) - k + 1, Len(rest)))
    IN  IF ~LensValid(attr.cidr, lens) THEN RefError
        ELSE RefValue("mech", nm, IF q = "" THEN "+" ELSE q,
                      ParamValue(attr, SubSeq(rest, 1, Len(rest) - k)), lens)

RefMech(q, nm, attr, rest) ==
    RefMechCut(q, nm, attr, rest,
               LET cs == {k \in 0..Len(rest) :
                            CidrSyntax(attr.cidr, SubSeq(rest, Len(rest) - k + 1, Len(rest)))}
               IN  CHOOSE k \in cs : \A j \in cs : j <= k)

(* One term after its qualifier q: a name, then "=" and a modifier value, *)
(* or the rest of a mechanism.                                             *)
RefNamed(q, nm, rest) ==
    IF rest # <<>> /\ rest[1] = "="
    THEN IF q # "" THEN RefError
         ELSE IF nm \notin DOMAIN ModTable
              THEN [kind |-> "ignored", name |-> nm, q |-> "", param |-> <<>>, cidr |-> <<>>]
         ELSE RefValue("mod", nm, "", ParamValue(ModTable[nm], rest), <<>>)
    ELSE IF nm \notin DOMAIN MechTable THEN RefError
    ELSE RefMech(q, nm, MechTable[nm], rest)

RefSplit(q, r) ==
    LET ks == {k \in 1..Len(r) : IsName(SubSeq(r, 1, k))}
        nl == IF ks = {} THEN 0 ELSE CHOOSE k \in ks : \A j \in ks : j <= k
    IN  RefNamed(q, Text(SubSeq(r, 1, nl)), SubSeq(r, nl + 1, Len(r)))

RefTerm(t) ==
    IF t[1] \in Qualifiers THEN RefSplit(t[1], Tail(t)) ELSE RefSplit("", t)

(* The record: no bad term, redirect= and exp= at most once each; the     *)
(* mechanisms in order, the modifiers in their slots.                      *)
RefRecord(rs) ==
    LET Mods(n) == {i \in DOMAIN rs : rs[i].kind = "mod" /\ rs[i].name = n}
        Slot(n) == IF Mods(n) = {} THEN <<>> ELSE <<rs[CHOOSE i \in Mods(n) : TRUE].param>>
        ms      == SelectSeq(rs, LAMBDA x : x.kind = "mech")
    IN  IF \/ \E i \in DOMAIN rs : rs[i].kind = "error"
           \/ Cardinality(Mods("redirect")) > 1 \/ Cardinality(Mods("exp")) > 1
        THEN [verdict |-> "PERMERROR", dirs |-> <<>>, redirect |-> <<>>, exp |-> <<>>]
        ELSE [verdict |-> "OK",
              dirs |-> [i \in DOMAIN ms |-> Directive(ms[i].q, ms[i].name, ms[i].param,
                                                     ms[i].cidr)],
              redirect |-> Slot("redirect"), exp |-> Slot("exp")]

RefBuild(b) == RefRecord(LET ts == RefTerms(b) IN [i \in DOMAIN ts |-> RefTerm(ts[i])])

(* The outcome out against the reference verdict ref of the same body.   *)
AgreesWith(ref) ==
    \/ out.stat = "NO_RESOURCE" /\ nomem_at # 0
    \/ ref.verdict = "PERMERROR" /\ out.stat \notin {"OK", "NO_RESOURCE"}
    \/ /\ ref.verdict = "OK" /\ out.stat = "OK"
       /\ out.dirs = ref.dirs /\ out.redirect = ref.redirect /\ out.exp = ref.exp

(* SidfRecord_build, which scans each term once from the left for its     *)
(* qualifier and name and parses its cidr-length back from the right,     *)
(* accepts exactly the records the grammar of RFC 4408 and spec.md 4.2    *)
(* accepts, and builds the same directives (default qualifier "+",        *)
(* default cidr 32/128) and modifier slots; an allocation failure may     *)
(* turn any outcome into NO_RESOURCE, and nothing else can.               *)
BuildsPerRFC == out.stat # "PENDING" => AgreesWith(RefBuild(body))
====
