------------------------------ MODULE SidfMacro ------------------------------
(***************************************************************************)
(* libsidf/src/sidfmacro.c: one call of SidfMacro_parseMacroExpand on a    *)
(* macro-expand ("%{" letter transformers *delimiter "}", "%%", "%_",     *)
(* "%-"), with everything it calls: the letter table, the transformer and *)
(* delimiter parsers, SidfMacro_dupMacroSource (the value of each letter, *)
(* the dotted IPv6 address of %{i} and the PTR validation of %{p}         *)
(* included), the split / reverse / keep-rightmost / join of              *)
(* SidfMacro_expandMacro and the macro_expansion_limit check.             *)
(*                                                                          *)
(* A string is a sequence of characters; a character that no delimiter   *)
(* can split may stand for a longer run (an IPv4 octet, a timestamp).     *)
(* Nibble j of the IPv6 address is written as the character Nib(j).     *)
(***************************************************************************)
EXTENDS Naturals, Sequences, SequencesExt

CONSTANTS Tokens,           \* the macro-expands the call is made on
          Folding,          \* tolower() on the upper-case letters used
          SenderLocal, SenderDomain, Domain, Helo,
          Ip4Text,          \* inet_ntop of the IPv4 address
          Ip6Text,          \* inet_ntop of the IPv6 address
          CheckingDomain,   \* policy->checking_domain, or NoDomain
          Timestamp,        \* time(NULL) as text
          PtrNames,         \* the names PTR answers are made of
          MaxPtrAnswer,     \* the most names one PTR answer holds
          PtrMax,           \* SIDF_MACRO_DOMAIN_VALIDATION_PTRRR_MAXNUM
          PriorLen,         \* what the expansion buffer holds before the call
          ExpansionLimit,   \* policy->macro_expansion_limit
          NoDomain          \* a NULL char *

Dom == INSTANCE InetDomain WITH Alphabet <- {}, MaxLen <- 0,
                                name1 <- <<>>, name2 <- <<>>, called <- FALSE, out <- {}

Unknown == <<"unknown">>     \* SIDF_MACRO_DEFAULT_P_MACRO_VALUE / _R_
Delimiters == {".", "-", "+", ",", "/", "_", "="}
Families == {"AF_INET", "AF_INET6"}
Outcomes == {"match", "nomatch", "dnserror"}   \* a forward A/AAAA lookup
PtrAnswers == [rc : {"NETDB_SUCCESS"},
               names : UNION {[1..n -> PtrNames] : n \in 0..MaxPtrAnswer}]
              \cup [rc : {"HOST_NOT_FOUND"}, names : {<<>>}]

(* sidf_macro_letter_table: the letters and whether only exp= may use them. *)
ExpOnly == [c \in {"s", "l", "o", "d", "i", "p", "v", "h", "c", "r", "t"} |->
               c \in {"c", "r", "t"}]

VARIABLES tok,        \* the macro-expand at the head of the input
          exp_record, \* whether an explanation string is parsed
          family,     \* request->sin_family
          ptr,        \* the PTR answer for the request's address
          fwd,        \* the forward lookup outcome for each PTR name
          called, out

vars == <<tok, exp_record, family, ptr, fwd, called, out>>

(* SidfMacro_isValidatedDomainName4/6 mean to return 1 (match), 0 or -1  *)
(* (DNS error), but are declared bool: -1 converts to true, i.e. 1.       *)
IsValidatedDomainNameFamily(name) ==
    LET ret == CASE fwd[name] = "match" -> 1 [] fwd[name] = "nomatch" -> 0
                 [] fwd[name] = "dnserror" -> -1
    IN  IF ret # 0 THEN 1 ELSE 0

(* SidfMacro_isValidatedDomainName: decided and the value for %{p}.        *)
IsValidatedDomainName(name) ==
    CASE IsValidatedDomainNameFamily(name) = 1 -> [decided |-> TRUE, expand |-> name]
      [] IsValidatedDomainNameFamily(name) = 0 -> [decided |-> FALSE, expand |-> NoDomain]
      [] IsValidatedDomainNameFamily(name) = -1 -> [decided |-> TRUE, expand |-> Unknown]

(* SidfMacro_dupValidatedDomainName: three passes over the first PtrMax   *)
(* names (exact match, then subdomains, then the rest); NULL if none.     *)
DupValidatedDomainName(domain) ==
    LET names  == SubSeq(ptr.names, 1, IF Len(ptr.names) < PtrMax THEN Len(ptr.names) ELSE PtrMax)
        First(P(_)) == SelectInSeq(names, LAMBDA n : P(n) /\ IsValidatedDomainName(n).decided)
        pass1  == First(LAMBDA n : Dom!IsMatch(domain, n))
        pass2  == First(LAMBDA n : Dom!IsParent(domain, n) /\ ~Dom!IsMatch(domain, n))
        pass3  == First(LAMBDA n : ~Dom!IsParent(domain, n))
        hit    == IF pass1 # 0 THEN pass1 ELSE IF pass2 # 0 THEN pass2 ELSE pass3
    IN  IF ptr.rc # "NETDB_SUCCESS" THEN Unknown
        ELSE IF hit = 0 THEN NoDomain
        ELSE IsValidatedDomainName(names[hit]).expand

(* SidfMacro_dupDottedIpAddr for AF_INET6: each pass of the loop reads    *)
(* the high nibble of byte k and the low nibble of byte k+1, then skips   *)
(* byte k+2.  The pass at k = 15 reads byte 16, past the address: beyond *)
(* is whatever digit that byte gives.                                      *)
Nib(j) == "n" \o ToString(j)

RECURSIVE DottedNibbles(_, _, _)
DottedNibbles(k, beyond, buf) ==
    IF k >= 16 THEN buf
    ELSE LET hi == Nib(2 * k)
             lo == IF k + 1 < 16 THEN Nib(2 * (k + 1) + 1) ELSE beyond
         IN  DottedNibbles(k + 3, beyond, buf \o <<hi, ".", lo, ".">>)

DupDottedIpAddr(beyond) ==
    IF family = "AF_INET" THEN Ip4Text ELSE Front(DottedNibbles(0, beyond, <<>>))

(* SidfMacro_dupMacroSource: the string a letter stands for.               *)
DupMacroSource(letter, beyond) ==
    CASE letter = "s" -> SenderLocal \o <<"@">> \o SenderDomain
      [] letter = "l" -> SenderLocal
      [] letter = "o" -> SenderDomain
      [] letter = "d" -> Domain
      [] letter = "i" -> DupDottedIpAddr(beyond)
      [] letter = "p" -> DupValidatedDomainName(Domain)
      [] letter = "v" -> IF family = "AF_INET" THEN <<"in", "-", "addr">> ELSE <<"ip6">>
      [] letter = "h" -> Helo
      [] letter = "c" -> IF family = "AF_INET" THEN Ip4Text ELSE Ip6Text
      [] letter = "r" -> IF CheckingDomain = NoDomain THEN Unknown ELSE CheckingDomain
      [] letter = "t" -> Timestamp

(* SidfMacro_splitMacroSource: the pieces between the delimiters, empty    *)
(* ones included, as the strpbrk loop cuts them.                           *)
RECURSIVE SplitFrom(_, _, _, _)
SplitFrom(s, delims, part, parts) ==
    IF s = <<>> THEN Append(parts, part)
    ELSE IF Head(s) \in delims THEN SplitFrom(Tail(s), delims, <<>>, Append(parts, part))
    ELSE SplitFrom(Tail(s), delims, Append(part, Head(s)), parts)

SplitMacroSource(s, delims) == SplitFrom(s, ToSet(delims), <<>>, <<>>)

(* Mutant: the swap loop runs one step past the middle.                   *)
RECURSIVE ReversePartsPastMiddle(_, _)
ReversePartsPastMiddle(ps, n) ==
    IF n > Len(ps) \div 2 \/ n >= Len(ps) THEN ps
    ELSE ReversePartsPastMiddle([ps EXCEPT ![n + 1] = ps[Len(ps) - n],
                                           ![Len(ps) - n] = ps[n + 1]], n + 1)

(* The reverse loop of SidfMacro_expandMacro: swap part n and num-n-1 for *)
(* n < num/2 (0-based, as in the C code).                                  *)
RECURSIVE ReverseParts(_, _)
ReverseParts(ps, n) ==
    IF n >= Len(ps) \div 2 THEN ps
    ELSE ReverseParts([ps EXCEPT ![n + 1] = ps[Len(ps) - n], ![Len(ps) - n] = ps[n + 1]],
                      n + 1)

(* The first part kept: all of them for transformer 0 (no digits) or one *)
(* at least as large as the number of parts, else the last transformer.  *)
StartIdx(num, transformer) ==
    IF transformer = 0 \/ num <= transformer THEN 0 ELSE num - transformer

(* The append loop: parts idx.. joined with '.'.                           *)
RECURSIVE AppendParts(_, _, _)
AppendParts(ps, idx, buf) ==
    IF idx > Len(ps) THEN buf ELSE AppendParts(ps, idx + 1, buf \o <<".">> \o ps[idx])

(* SidfMacro_parseTransformers: strptoul reads the digits, giving 0 for  *)
(* none and for a written "0" alike (t.zero), and an "r" sets reverse.    *)
ParseTransformers(t) == [transformer |-> t.digits, reverse |-> t.r]

(* SidfMacro_expandMacro on a source the letter produced.                  *)
ExpandMacro(m, src) ==
    LET ps == SplitMacroSource(src, m.delims)
        rs == IF m.reverse THEN ReverseParts(ps, 0) ELSE ps
        i0 == StartIdx(Len(rs), m.transformer)
    IN  AppendParts(rs, i0 + 2, rs[i0 + 1])

(* SidfMacro_parseDelimiterBlock: the delimiters given, "." if none, and  *)
(* an error for one given twice.                                           *)
DelimiterBlock(ds) ==
    IF \E i, j \in DOMAIN ds : i < j /\ ds[i] = ds[j] THEN "SIDF_STAT_RECORD_DELIMITER_DUPLICATED"
    ELSE IF ds = <<>> THEN <<".">> ELSE ds

(* SidfMacro_parseMacroLetter: the letter, case-folded; an exp-only       *)
(* letter outside exp=, an unknown one or none at all is an error.        *)
MacroLetter(c) ==
    CASE c = "" -> "SIDF_STAT_RECORD_SYNTAX_VIOLATION"
      [] Dom!Lower(c) \notin DOMAIN ExpOnly -> "SIDF_STAT_RECORD_UNSUPPORTED_MACRO"
      [] ~exp_record /\ ExpOnly[Dom!Lower(c)] -> "SIDF_STAT_RECORD_UNSUPPORTED_MACRO"
      [] OTHER -> Dom!Lower(c)

Done(stat, src, val) == [stat |-> stat, source |-> src, value |-> val]
Failed(stat) == Done(stat, <<>>, <<>>)

(* SidfMacro_parseMacroExpand on the macro-expand t.  The "{" branch      *)
(* parses letter, transformers and delimiters, needs the "}", expands,   *)
(* and checks the buffer against the limit.                                *)
ParseMacroExpand(t, beyond) ==
    CASE t.pct = "end" -> Failed("SIDF_STAT_RECORD_NOT_MATCH")
      [] t.pct = "%" -> Done("SIDF_STAT_OK", <<>>, <<"%">>)
      [] t.pct = "_" -> Done("SIDF_STAT_OK", <<>>, <<" ">>)
      [] t.pct = "-" -> Done("SIDF_STAT_OK", <<>>, <<"%", "2", "0">>)
      [] t.pct = "{" ->
           LET letter == MacroLetter(t.letter)
               delims == DelimiterBlock(t.delims)
               m      == [delims |-> delims] @@ ParseTransformers(t)
               src    == DupMacroSource(letter, beyond)
           IN  CASE letter \notin DOMAIN ExpOnly -> Failed(letter)
                 [] delims \notin Seq(Delimiters) -> Failed(delims)
                 [] ~t.closed -> Failed("SIDF_STAT_RECORD_SYNTAX_VIOLATION")
                 [] src = NoDomain -> Failed("SIDF_STAT_NO_RESOURCE")
                 [] ExpansionLimit < PriorLen + Len(ExpandMacro(m, src))
                       -> Failed("SIDF_STAT_MALICIOUS_MACRO_EXPANSION")
                 [] OTHER -> Done("SIDF_STAT_OK", src, ExpandMacro(m, src))
      [] OTHER -> Failed("SIDF_STAT_RECORD_SYNTAX_VIOLATION")

-----------------------------------------------------------------------------
(* The harness: one macro-expand, the request it is expanded for, and the *)
(* DNS answers %{p} gets; one call.                                        *)
IsPMacro(t) == t.pct = "{" /\ t.letter # "" /\ Dom!Lower(t.letter) = "p"

Init ==
    /\ tok \in Tokens
    /\ exp_record \in BOOLEAN
    /\ family \in Families
    /\ ptr \in IF IsPMacro(tok) THEN PtrAnswers ELSE {[rc |-> "HOST_NOT_FOUND", names |-> <<>>]}
    /\ fwd \in IF IsPMacro(tok) THEN [PtrNames -> Outcomes] ELSE {[n \in PtrNames |-> "nomatch"]}
    /\ called = FALSE
    /\ out = Failed("none")

Expand ==
    /\ ~called
    /\ called' = TRUE
    /\ \E beyond \in {"beyond"} : out' = ParseMacroExpand(tok, beyond)
    /\ UNCHANGED <<tok, exp_record, family, ptr, fwd>>

Spec == Init /\ [][Expand]_vars

-----------------------------------------------------------------------------
Stats == {"none", "SIDF_STAT_OK", "SIDF_STAT_RECORD_NOT_MATCH", "SIDF_STAT_NO_RESOURCE",
          "SIDF_STAT_RECORD_SYNTAX_VIOLATION", "SIDF_STAT_RECORD_UNSUPPORTED_MACRO",
          "SIDF_STAT_RECORD_DELIMITER_DUPLICATED", "SIDF_STAT_MALICIOUS_MACRO_EXPANSION"}

TypeOK ==
    /\ tok \in Tokens
    /\ exp_record \in BOOLEAN
    /\ family \in Families
    /\ ptr \in PtrAnswers
    /\ fwd \in [PtrNames -> Outcomes]
    /\ called \in BOOLEAN
    /\ out.stat \in Stats
    /\ out.source \in Seq(STRING) /\ out.value \in Seq(STRING)

(* RFC 4408 8.1: split the value at the given delimiters ("." if none),   *)
(* reverse the parts for "r", keep the rightmost N (all for no N), join  *)
(* them with ".".                                                          *)
RefTransform(src, t) ==
    LET ds   == IF t.delims = <<>> THEN {"."} ELSE ToSet(t.delims)
        ps   == Dom!SplitOn(src, ds)
        rs   == IF t.r THEN Reverse(ps) ELSE ps
        k    == IF t.digits = 0 \/ t.digits > Len(rs) THEN Len(rs) ELSE t.digits
        keep == SubSeq(rs, Len(rs) - k + 1, Len(rs))
    IN  FoldLeft(LAMBDA acc, x : acc \o <<".">> \o x, Head(keep), Tail(keep))

(* An expanded macro is the RFC 4408 8.1 transformation of the value its *)
(* letter stands for: the strpbrk split, the in-place swap loop, the     *)
(* start index and the append loop of SidfMacro_expandMacro together.     *)
MacroTransformPerRFC ==
    called /\ tok.pct = "{" /\ out.stat = "SIDF_STAT_OK" =>
        out.value = RefTransform(out.source, tok)

(* RFC 4408 8.1, and the 64-byte buffer SIDF_MACRO_DOTTED_INET6ADDRLEN    *)
(* sized for it: %{i} of an IPv6 address is its 32 nibbles in order,     *)
(* separated by dots.                                                      *)
RefDotted6 == [k \in 1..63 |-> IF k % 2 = 1 THEN Nib((k - 1) \div 2) ELSE "."]

IsMacro(t, c) == t.pct = "{" /\ t.letter # "" /\ Dom!Lower(t.letter) = c

(* SidfMacro_dupDottedIpAddr gives %{i} of an IPv6 client as the 32       *)
(* nibbles of the address.                                                 *)
DottedIp6IsNibbles ==
    called /\ IsMacro(tok, "i") /\ family = "AF_INET6" /\ out.stat = "SIDF_STAT_OK" =>
        out.source = RefDotted6

(* spec.md 4.1 on %{p}: the first PTR name (of at most PtrMax, exact      *)
(* match first, then subdomains, then the rest) whose forward lookup      *)
(* returns the client address; "unknown" at once if that lookup fails;    *)
(* nothing if no name validates.                                           *)
RefValidated ==
    LET names   == SubSeq(ptr.names, 1, IF Len(ptr.names) < PtrMax THEN Len(ptr.names) ELSE PtrMax)
        Exact(n) == Dom!Labels(n) = Dom!Labels(Domain)
        Sub(n)   == IsSuffix(Dom!Labels(Domain), Dom!Labels(n)) /\ ~Exact(n)
        ordered == SelectSeq(names, Exact) \o SelectSeq(names, Sub)
                   \o SelectSeq(names, LAMBDA n : ~Exact(n) /\ ~Sub(n))
        first   == SelectInSeq(ordered, LAMBDA n : fwd[n] # "nomatch")
    IN  CASE ptr.rc # "NETDB_SUCCESS" -> [kind |-> "unknown", name |-> Unknown]
          [] first = 0 -> [kind |-> "empty", name |-> <<>>]
          [] fwd[ordered[first]] = "dnserror" -> [kind |-> "unknown", name |-> Unknown]
          [] OTHER -> [kind |-> "name", name |-> ordered[first]]

(* %{p} as spec.md 4.1 has it: a DNS error while validating a PTR name    *)
(* makes it "unknown" (the bool-typed SidfMacro_isValidatedDomainName4/6  *)
(* must pass the error on), and no validated name is an ordinary outcome, *)
(* never the SIDF_STAT_NO_RESOURCE of a failed allocation.                 *)
PValidatedPerSpec ==
    called /\ IsMacro(tok, "p") =>
        /\ RefValidated.kind = "unknown" /\ out.stat = "SIDF_STAT_OK" => out.source = Unknown
        /\ RefValidated.kind = "empty" => out.stat # "SIDF_STAT_NO_RESOURCE"

(* RFC 4408 8.1, and the comment on SidfMacro.transformer: a DIGIT        *)
(* transformer MUST be nonzero, so %{d0} is a syntax error and never     *)
(* expands.                                                                *)
NonzeroTransformer ==
    called /\ tok.pct = "{" /\ tok.zero => out.stat # "SIDF_STAT_OK"

(* The macros expand as the spec says: %{i} of an IPv6 address is its 32  *)
(* nibbles, %{p} the validated PTR name, and a zero transformer is        *)
(* refused.                                                                *)
MacrosPerSpec == DottedIp6IsNibbles /\ PValidatedPerSpec /\ NonzeroTransformer
====
