--------------------------- MODULE SidfRecordSelect ---------------------------
(***************************************************************************)
(* SidfRequest_lookupRecord (libsidf/src/sidfrequest.c): fetch the SPF RR  *)
(* or TXT RR set of a domain, classify each answer by its version section  *)
(* (SidfRecord_getSidfScope), select the one record of the request scope   *)
(* (SidfRequest_uniqueByScope, first the spf2.0 records, then v=spf1) and  *)
(* parse it.  The outcome is what SidfCheckHost's zone gives a domain: a   *)
(* parsed record, or the score checkHost returns at once.                   *)
(*                                                                          *)
(* A raw record is abstracted to its version section: ver is "spf1"        *)
(* ("v=spf1"), "spf2" ("spf2.0/" and a scope list) or "other"; ids are the  *)
(* scope-ids of the list ("bad" for one that is not a name); sep tells     *)
(* whether a space or the end of the record follows the version.           *)
(***************************************************************************)
EXTENDS Naturals, Sequences, FiniteSets

CONSTANTS RawRecords,     \* the raw records the answers are made of
          MaxAnswer,      \* the most records one DNS answer holds
          Scopes,         \* the scopes eval is called with
          BuildOutcomes   \* what SidfRecord_build can return

VARIABLES lookup_spf_rr,  \* policy->lookup_spf_rr
          scope,          \* self->scope, a set of scope bits
          spf_answer,     \* what DnsResolver_lookupSpf returns for the domain
          txt_answer,     \* what DnsResolver_lookupTxt returns for the domain
          build,          \* the status SidfRecord_build returns
          result          \* lookupRecord's score and the record it selected

vars == <<lookup_spf_rr, scope, spf_answer, txt_answer, build, result>>

Null == "null"
NoRecord == [ver |-> "none", ids |-> {}, sep |-> FALSE]
SidfBits == {"SPF2_MFROM", "SPF2_PRA"}
RCodes == {"NETDB_SUCCESS", "NO_DATA", "HOST_NOT_FOUND", "NETDB_INTERNAL",
           "TRY_AGAIN", "NO_RECOVERY"}
Answers == [rc : {"NETDB_SUCCESS"}, recs : UNION {[1..n -> RawRecords] : n \in 0..MaxAnswer}]
           \cup [rc : RCodes \ {"NETDB_SUCCESS"}, recs : {<<>>}]

(* SidfRecord_lookupSidfScope: the scope bit of one scope-id; {} is        *)
(* SIDF_RECORD_SCOPE_NULL (not a name).                                   *)
LookupSidfScope(id) ==
    CASE id = "mfrom" -> {"SPF2_MFROM"}
      [] id = "pra"   -> {"SPF2_PRA"}
      [] id = "bad"   -> {}
      [] OTHER        -> {"UNKNOWN"}

(* SidfRecord_parseVersion: "v=spf1" is SPF1; "spf2.0/" ORs the bits of   *)
(* its scope-ids, unknown ones included, and fails on a non-name.          *)
ParseVersion(r) ==
    CASE r.ver = "spf1" -> {"SPF1"}
      [] r.ver = "spf2" /\ r.ids # {} /\ \A i \in r.ids : LookupSidfScope(i) # {}
                        -> UNION {LookupSidfScope(i) : i \in r.ids}
      [] OTHER          -> {}

(* SidfRecord_getSidfScope: the version must be followed by SP or the end. *)
GetSidfScope(r) == IF r.sep THEN ParseVersion(r) ELSE {}

(* Mutant: the first matching record wins, a second one is not noticed.  *)
RECURSIVE UniqueByScopeFirstWins(_, _, _, _)
UniqueByScopeFirstWins(recs, s, n, sel) ==
    IF n > Len(recs) \/ sel # 0 THEN [score |-> Null, sel |-> sel]
    ELSE IF s \cap GetSidfScope(recs[n]) = {} THEN UniqueByScopeFirstWins(recs, s, n + 1, sel)
    ELSE UniqueByScopeFirstWins(recs, s, n + 1, n)

(* SidfRequest_uniqueByScope: scan the records in order; the first one     *)
(* whose scope meets s is selected, a second one is PermError.             *)
RECURSIVE UniqueByScope(_, _, _, _)
UniqueByScope(recs, s, n, sel) ==
    IF n > Len(recs) THEN [score |-> Null, sel |-> sel]
    ELSE IF s \cap GetSidfScope(recs[n]) = {} THEN UniqueByScope(recs, s, n + 1, sel)
    ELSE IF sel = 0 THEN UniqueByScope(recs, s, n + 1, n)
    ELSE [score |-> "permerror", sel |-> sel]

(* The switch on a resolver status in SidfRequest_fetch: success hands the *)
(* records on, NXDOMAIN is Fail for PRA and None otherwise.                *)
FetchAnswer(a) ==
    CASE a.rc = "NETDB_SUCCESS"  -> [score |-> Null, recs |-> a.recs]
      [] a.rc = "NO_DATA"        -> [score |-> "none", recs |-> <<>>]
      [] a.rc = "HOST_NOT_FOUND" -> [score |-> IF "SPF2_PRA" \in scope THEN "hardfail"
                                                ELSE "none", recs |-> <<>>]
      [] a.rc = "NETDB_INTERNAL" -> [score |-> "syserror", recs |-> <<>>]
      [] OTHER                   -> [score |-> "temperror", recs |-> <<>>]

(* SidfRequest_fetch: the SPF RR is asked first when the policy says so;  *)
(* only NO_DATA for it falls back to the TXT RR.                           *)
Fetch ==
    IF lookup_spf_rr /\ spf_answer.rc # "NO_DATA"
    THEN FetchAnswer(spf_answer) ELSE FetchAnswer(txt_answer)

(* Mutant: the build status is returned as it is instead of as a score.  *)
BuildScoreUnmapped(b) == IF b = "SIDF_STAT_OK" THEN Null ELSE b

(* The switch on SidfRecord_build's status at the end of lookupRecord.    *)
BuildScore(b) ==
    CASE b = "SIDF_STAT_OK" -> Null
      [] b = "SIDF_STAT_NO_RESOURCE" -> "syserror"
      [] OTHER -> "permerror"

(* SidfRequest_lookupRecord: the spf2.0 pass only for an SIDF scope, the   *)
(* v=spf1 pass when it selected nothing, None when neither did.           *)
LookupRecordResult ==
    LET f  == Fetch
        s2 == IF scope \cap SidfBits # {} THEN UniqueByScope(f.recs, scope, 1, 0)
              ELSE [score |-> Null, sel |-> 0]
        s1 == IF s2.score = Null /\ s2.sel = 0
              THEN UniqueByScope(f.recs, {"SPF1"}, 1, 0) ELSE s2
    IN  IF f.score # Null THEN [score |-> f.score, rec |-> NoRecord]
        ELSE IF s1.score # Null THEN [score |-> s1.score, rec |-> NoRecord]
        ELSE IF s1.sel = 0 THEN [score |-> "none", rec |-> NoRecord]
        ELSE [score |-> BuildScore(build),
              rec |-> IF BuildScore(build) = Null THEN f.recs[s1.sel] ELSE NoRecord]

Init ==
    /\ lookup_spf_rr \in BOOLEAN
    /\ scope \in Scopes
    /\ spf_answer \in Answers
    /\ txt_answer \in Answers
    /\ build \in BuildOutcomes
    /\ result = [score |-> "pending", rec |-> NoRecord]

LookupRecord ==
    /\ result.score = "pending"
    /\ result' = LookupRecordResult
    /\ UNCHANGED <<lookup_spf_rr, scope, spf_answer, txt_answer, build>>

Next == LookupRecord

Spec == Init /\ [][Next]_vars

-----------------------------------------------------------------------------
Results == {Null, "none", "hardfail", "permerror", "temperror", "syserror", "pending"}

TypeOK ==
    /\ lookup_spf_rr \in BOOLEAN
    /\ scope \in Scopes
    /\ spf_answer \in Answers /\ txt_answer \in Answers
    /\ build \in BuildOutcomes
    /\ result.score \in Results
    /\ result.rec \in RawRecords \cup {NoRecord}

(* The record set RFC 4408 4.5 / RFC 4406 4.4 and spec.md 4.4 say is used: *)
(* the SPF RR answer when the policy asks for it and it is not empty,      *)
(* else the TXT answer.                                                     *)
RefAnswer == IF lookup_spf_rr /\ spf_answer.rc # "NO_DATA" THEN spf_answer ELSE txt_answer

(* RFC 4406 3 / RFC 4408 4.5: the scopes a record declares.  "v=spf1" and *)
(* "spf2.0/" with a list of names, followed by a space or the end; names  *)
(* other than mfrom and pra are ignored.                                    *)
RefScopes(r) ==
    IF ~r.sep THEN {}
    ELSE IF r.ver = "spf1" THEN {"SPF1"}
    ELSE IF r.ver = "spf2" /\ r.ids # {} /\ "bad" \notin r.ids
         THEN {b \in SidfBits : (b = "SPF2_MFROM" /\ "mfrom" \in r.ids)
                                \/ (b = "SPF2_PRA" /\ "pra" \in r.ids)}
    ELSE {}

(* spec.md 4.3 c: the records whose version names the request's spf2.0    *)
(* scope if there are any, else the v=spf1 records; exactly one of them   *)
(* is parsed, two or more are PermError, none is None.                     *)
RefLookup ==
    LET a      == RefAnswer
        idx    == DOMAIN a.recs
        sidf   == {i \in idx : RefScopes(a.recs[i]) \cap scope # {}}
        spf1   == {i \in idx : "SPF1" \in RefScopes(a.recs[i])}
        chosen == IF scope \cap SidfBits # {} /\ sidf # {} THEN sidf ELSE spf1
    IN  CASE a.rc # "NETDB_SUCCESS" -> [score |-> FetchAnswer(a).score, rec |-> NoRecord]
          [] Cardinality(chosen) > 1 -> [score |-> "permerror", rec |-> NoRecord]
          [] chosen = {} -> [score |-> "none", rec |-> NoRecord]
          [] OTHER -> [score |-> BuildScore(build),
                       rec |-> IF BuildScore(build) = Null
                               THEN a.recs[CHOOSE i \in chosen : TRUE] ELSE NoRecord]

(* lookupRecord, with its in-order scans of the answer, returns the score *)
(* of the set-based selection rule, and the record it hands to the parser *)
(* is the single record of the answer that rule settles on.               *)
SelectsUniqueRecord == result.score # "pending" => result = RefLookup
=============================================================================
