--------------------------- MODULE SidfCheckHost ---------------------------
(***************************************************************************)
(* The SPF / Sender-ID evaluator of libsidf (src/libsidf/src/sidfrequest.c)*)
(* as a state machine.  SidfRequest_checkHost is recursive in C: include   *)
(* and redirect call it again on another domain.  The C call stack is      *)
(* made explicit as the sequence `frames`, one frame per active checkHost  *)
(* that has pushed its domain and parsed its record.  The request fields   *)
(* shared by all activations (the visited-domain StrArray, the DNS         *)
(* mechanism counter, the two depth counters, the local-policy flag and    *)
(* the explanation) are variables of their own, as in struct SidfRequest.  *)
(*                                                                         *)
(* DNS is abstracted: `zone` maps each domain to what SidfRequest_         *)
(* lookupRecord returns for it: a record whose `score` is the failure      *)
(* (no record, DNS failure, parse failure), or Null and the parsed record. *)
(* A parsed record carries the answers its mechanisms get from DNS, so    *)
(* one evaluation sees stable DNS data.                                    *)
(***************************************************************************)
EXTENDS Naturals, SequencesExt

CONSTANTS
    Domains,          \* domain names the records refer to
    MalformedDomains, \* those failing SidfRequest_checkDomain's length/charset test
    NoDomain,         \* "no redirect=" / "no domain" sentinel
    MaxDnsMech,       \* policy->max_dns_mech
    LookupExp,        \* policy->lookup_exp
    Policies,         \* the policies a request may be made with: [local_policy, overwrite_all]
    LocalPolicyExp,   \* policy->local_policy_explanation: "none", "ok" or "bad" expansion
    Zones,            \* the DNS contents an evaluation may face
    SenderChoices,    \* sender domain set by SidfRequest_setSender, or NoDomain
    HeloChoices,      \* domain set by SidfRequest_setHeloDomain, or NoDomain
    SinFamilies,      \* address family set by SidfRequest_setIpAddr (AF_UNSPEC = 0 = unset)
    MaxResets         \* model bound: how often one request is reset and reused

VARIABLE policy   \* the SidfPolicy the request was created with (fixed)

(* policy->local_policy is NULL (~set), or text that SidfRecord_build     *)
(* fails on (~builds), or text parsed into the directives dirs.            *)
LocalPolicy == policy.local_policy
LocalPolicyUsable == LocalPolicy.set /\ LocalPolicy.builds

(* policy->overwrite_all_directive_score (Null when unset).               *)
OverwriteAll == policy.overwrite_all

ASSUME MalformedDomains \subseteq Domains /\ NoDomain \notin Domains
ASSUME MaxDnsMech \in Nat /\ LookupExp \in BOOLEAN

(* SidfScore.  SIDF_SCORE_NULL means "no result yet / mechanism did not   *)
(* match".                                                                 *)
Null == "null"
Scores == {"none", "neutral", "pass", "policy", "hardfail", "softfail",
           "temperror", "permerror", "syserror"}

(* SidfRequest_getScoreByQualifier: the qualifier is the score.            *)
ScoreByQualifier(q) ==
    CASE q = "+" -> "pass" [] q = "-" -> "hardfail"
      [] q = "~" -> "softfail" [] q = "?" -> "neutral"

(* involve_dnslookup of the mechanism table (sidfrecord.c).                *)
DnsMechs == {"include", "a", "mx", "ptr", "exists"}

(* SidfRequest_mapMechDnsResponseToSidfScore for a lookup that failed.    *)
MapMechDnsResponse(rc) ==
    CASE rc \in {"NETDB_SUCCESS", "HOST_NOT_FOUND", "NO_DATA"} -> Null
      [] rc = "NETDB_INTERNAL" -> "syserror"
      [] OTHER -> "temperror"

VARIABLES
    zone,              \* the DNS contents (fixed during a behaviour)
    sender,            \* self->sender, by its domain
    eval_by_sender,    \* self->eval_by_sender
    helo_domain,       \* self->helo_domain
    sin_family,        \* self->sin_family
    phase,             \* "idle" before SidfRequest_eval, "running", "done", "freed"
    result,            \* the score SidfRequest_eval returned
    frames,            \* the active checkHost activations, innermost last
    domain,            \* self->domain, the StrArray of visited domains
    dns_mech_count,    \* self->dns_mech_count
    redirect_depth,    \* self->redirect_depth
    include_depth,     \* self->include_depth
    local_policy_mode, \* self->local_policy_mode
    explanation,       \* self->explanation: "none", the exp= domain, or "local"
    call,              \* target of a checkHost call not yet entered, or NoDomain
    ret,               \* score a checkHost activation returned to its caller, or Null
    lookups,           \* history: DNS mechanisms evaluated under the current budget
    overBudget,        \* history: the counter refused a mechanism under this budget
    mailboxes,         \* InetMailbox objects the request allocated and has not freed
    resets             \* SidfRequest_reset calls so far

life == <<mailboxes, resets>>

vars == <<life, policy, zone, sender, eval_by_sender, helo_domain, sin_family, phase, result, frames, domain,
          dns_mech_count, redirect_depth, include_depth, local_policy_mode,
          explanation, call, ret, lookups, overBudget>>

Top == frames[Len(frames)]

(* The directives a frame walks: the record's, or the local policy's.      *)
Directives(f) == IF f.stage = "local" THEN LocalPolicy.dirs ELSE f.rec.dirs

(* SidfRequest_getDepth                                                     *)
GetDepth == redirect_depth + include_depth

(* The mechanisms that do not recurse.  t.dns is the DNS answer the       *)
(* mechanism meets: "match" when an address, A record or validated PTR    *)
(* name matches, otherwise the resolver's status (NETDB_SUCCESS: the      *)
(* lookup succeeded but nothing matched).  The CIDR comparison, the MX    *)
(* and PTR loops and their caps are folded into that one answer.           *)

(* SidfRequest_evalMechAll                                                  *)
EvalMechAll(t) ==
    IF OverwriteAll = Null THEN ScoreByQualifier(t.q) ELSE OverwriteAll

(* SidfRequest_evalByALookup for the A (AF_INET) or AAAA (AF_INET6) query *)
(* of "a", and of each exchange of "mx": a failed query is mapped, a      *)
(* matching address yields the qualifier's score.                          *)
EvalByALookup(t) ==
    IF t.dns = "match" THEN ScoreByQualifier(t.q) ELSE MapMechDnsResponse(t.dns)

(* SidfRequest_evalMechPtr: a failing PTR query, or no validated name     *)
(* under the target, is no match.                                           *)
EvalMechPtr(t) == IF t.dns = "match" THEN ScoreByQualifier(t.q) ELSE Null

(* SidfRequest_evalMechIp4 / _evalMechIp6: only an address of the         *)
(* mechanism's family is compared.                                          *)
EvalMechIp(t, family) ==
    IF sin_family = family /\ t.dns = "match" THEN ScoreByQualifier(t.q) ELSE Null

(* SidfRequest_evalMechExists: a failed A query is mapped; any A record   *)
(* matches.                                                                 *)
EvalMechExists(t) ==
    IF t.dns = "match" THEN ScoreByQualifier(t.q) ELSE MapMechDnsResponse(t.dns)

(* The dispatch of SidfRequest_evalMechanism for the non-recursive        *)
(* mechanisms.                                                              *)
EvalLeaf(t) ==
    CASE t.mech = "all" -> EvalMechAll(t)
      [] t.mech \in {"a", "mx"} -> EvalByALookup(t)
      [] t.mech = "ptr" -> EvalMechPtr(t)
      [] t.mech = "ip4" -> EvalMechIp(t, "AF_INET")
      [] t.mech = "ip6" -> EvalMechIp(t, "AF_INET6")
      [] t.mech = "exists" -> EvalMechExists(t)

(* SidfRequest_evalMechInclude: the score of the included check_host()    *)
(* seen from the include mechanism.  Any other score reaches abort().     *)
IncludeResult(s, q) ==
    CASE s = "pass" -> ScoreByQualifier(q)
      [] s \in {"hardfail", "softfail", "neutral"} -> Null
      [] s = "temperror" -> "temperror"
      [] s \in {"permerror", "none"} -> "permerror"
      [] s = "syserror" -> "syserror"

(* SidfRequest_checkDomain: malformed domain -> None, loop -> PermError.   *)
(* The case-insensitive search is abstracted: domains are distinct names. *)
CheckDomain(d) ==
    IF d \in MalformedDomains THEN "none"
    ELSE IF d \in ToSet(domain) THEN "permerror"
    ELSE Null

(* checkHost's `finally:` block: popDomain, free the record, return s.    *)
PopFrame(s) ==
    /\ frames' = Front(frames)
    /\ domain' = Front(domain)
    /\ ret' = s

(* SidfRequest_setExplanation: a successful expansion of the explanation  *)
(* (exp "ok") replaces any explanation already set, a failed one leaves   *)
(* it alone.                                                                *)
SetExplanation(exp, x) == IF exp = "ok" THEN x ELSE explanation

(* SidfRequest_evalModExplanation of frame f's exp=: the TXT lookup fails *)
(* or does not return exactly one record ("bad"), or the explanation is   *)
(* expanded and set.                                                        *)
EvalModExplanation(f) == SetExplanation(f.rec.exp, f.dom)

(* Mutant: exp= is also evaluated inside an include.                      *)
RecordMatchedAnyDepth(f, s, incl) ==
    /\ explanation' =
          IF LookupExp /\ s = "hardfail" /\ f.rec.exp # "none"
          THEN EvalModExplanation(f) ELSE explanation
    /\ PopFrame(s)
    /\ UNCHANGED local_policy_mode

(* checkHost after evalDirectives returned a score s of its record: exp=  *)
(* is looked up when policy->lookup_exp, s is HardFail and the include    *)
(* depth (already decremented by evalMechInclude) is 0.  The TXT lookup   *)
RecordMatched(f, s, incl) ==
    /\ explanation' =
          IF LookupExp /\ s = "hardfail" /\ incl = 0 /\ f.rec.exp # "none"
          THEN EvalModExplanation(f) ELSE explanation
    /\ PopFrame(s)
    /\ UNCHANGED local_policy_mode

(* Mutant: only PermError of the local policy is ignored.                 *)
LocalPolicyEndedKeepsTempError(s, incl) ==
    LET lp == IF s = "permerror" THEN Null ELSE s IN
    /\ local_policy_mode' = FALSE
    /\ explanation' =
          IF LookupExp /\ lp = "hardfail" /\ incl = 0 /\ LocalPolicyExp # "none"
          THEN SetExplanation(LocalPolicyExp, "local") ELSE explanation
    /\ PopFrame(IF lp = Null THEN "neutral" ELSE lp)

(* The end of SidfRequest_evalLocalPolicy and of checkHost after it: the  *)
(* flag is cleared, PermError/TempError are ignored, a NULL score becomes *)
(* the default Neutral, and a HardFail sets the local explanation.        *)
LocalPolicyEnded(s, incl) ==
    LET lp == IF s \in {"permerror", "temperror"} THEN Null ELSE s IN
    /\ local_policy_mode' = FALSE
    /\ explanation' =
          IF LookupExp /\ lp = "hardfail" /\ incl = 0 /\ LocalPolicyExp # "none"
          THEN SetExplanation(LocalPolicyExp, "local") ELSE explanation
    /\ PopFrame(IF lp = Null THEN "neutral" ELSE lp)

(* evalDirectives returned the non-NULL score s to the frame f.           *)
DirectiveMatched(f, s, incl) ==
    IF f.stage = "local" THEN LocalPolicyEnded(s, incl)
    ELSE RecordMatched(f, s, incl)

-----------------------------------------------------------------------------
(* The request fields SidfRequest_eval works on, left alone by the        *)
(* setters and by free.                                                    *)
evalState == <<result, frames, domain, dns_mech_count, redirect_depth, include_depth,
               local_policy_mode, explanation, call, ret, lookups, overBudget>>

(* SidfRequest_setSender: InetMailbox_duplicate's copy of the mailbox     *)
(* (NULL for none) replaces the one held, which is freed.  A failed copy  *)
(* returns false and changes nothing.                                      *)
SetSender ==
    /\ phase = "idle"
    /\ \E d \in SenderChoices :
          /\ sender' = d
          /\ mailboxes' = mailboxes - (IF sender # NoDomain THEN 1 ELSE 0)
                                    + (IF d # NoDomain THEN 1 ELSE 0)
    /\ UNCHANGED <<resets, policy, zone, eval_by_sender, helo_domain, sin_family, phase, evalState>>

(* SidfRequest_setHeloDomain: strdup of the domain (or NULL) replaces the *)
(* one held.                                                               *)
SetHeloDomain ==
    /\ phase = "idle"
    /\ \E d \in HeloChoices : helo_domain' = d
    /\ UNCHANGED <<life, policy, zone, sender, eval_by_sender, sin_family, phase, evalState>>

(* SidfRequest_setIpAddr / _setIpAddrString for AF_INET and AF_INET6.     *)
SetIpAddr ==
    /\ phase = "idle"
    /\ \E f \in SinFamilies : sin_family' = f
    /\ UNCHANGED <<life, policy, zone, sender, eval_by_sender, helo_domain, phase, evalState>>

(* SidfRequest_reset: scope, family and address, the domain StrArray, the *)
(* counter and flags are cleared, HELO and explanation freed.  The sender *)
(* is set to NULL before the `if (NULL != self->sender)` that would free  *)
(* it, so its mailbox stays allocated.  The depths are left (eval clears  *)
(* them).                                                                  *)
Reset ==
    /\ phase \in {"idle", "done"}
    /\ resets < MaxResets
    /\ resets' = resets + 1
    /\ phase' = "idle"
    /\ sin_family' = "AF_UNSPEC"
    /\ domain' = <<>>
    /\ sender' = NoDomain
    /\ dns_mech_count' = 0
    /\ eval_by_sender' = TRUE
    /\ local_policy_mode' = FALSE
    /\ helo_domain' = NoDomain
    /\ explanation' = "none"
    /\ UNCHANGED <<mailboxes, policy, zone, result, frames, redirect_depth, include_depth,
                   call, ret, lookups, overBudget>>

(* SidfRequest_free: the domain StrArray, buffer, sender, HELO and        *)
(* explanation are freed with the request.                                *)
Free ==
    /\ phase \in {"idle", "done"}
    /\ phase' = "freed"
    /\ mailboxes' = mailboxes - (IF sender # NoDomain THEN 1 ELSE 0)
    /\ UNCHANGED <<resets, policy, zone, sender, eval_by_sender, helo_domain, sin_family, evalState>>

(* SidfRequest_eval when the IP address or HELO domain is not set.        *)
EvalNoArgs ==
    /\ phase = "idle"
    /\ sin_family = "AF_UNSPEC" \/ helo_domain = NoDomain
    /\ phase' = "done"
    /\ result' = Null
    /\ dns_mech_count' = 0
    /\ UNCHANGED <<life, policy, zone, sender, eval_by_sender, helo_domain, sin_family, frames, domain,
                   redirect_depth, include_depth, local_policy_mode,
                   explanation, call, ret, lookups, overBudget>>

(* Mutant: checkHost is called on the sender as it was before the        *)
(* postmaster@HELO default was built.                                      *)
EvalStartStaleSender ==
    /\ phase = "idle"
    /\ sin_family # "AF_UNSPEC" /\ helo_domain # NoDomain
    /\ phase' = "running"
    /\ dns_mech_count' = 0
    /\ sender' = IF sender = NoDomain THEN helo_domain ELSE sender
    /\ mailboxes' = IF sender = NoDomain THEN mailboxes + 1 ELSE mailboxes
    /\ eval_by_sender' = (sender # NoDomain)
    /\ redirect_depth' = 0
    /\ include_depth' = 0
    /\ call' = sender
    /\ lookups' = 0
    /\ overBudget' = FALSE
    /\ UNCHANGED <<resets, policy, zone, helo_domain, sin_family, result, frames, domain,
                   local_policy_mode, explanation, ret>>

(* SidfRequest_eval: the counter and depths are cleared, a missing sender *)
(* becomes postmaster@HELO, and checkHost is called on its domain.        *)
EvalStart ==
    /\ phase = "idle"
    /\ sin_family # "AF_UNSPEC" /\ helo_domain # NoDomain
    /\ phase' = "running"
    /\ dns_mech_count' = 0
    /\ sender' = IF sender = NoDomain THEN helo_domain ELSE sender
    /\ mailboxes' = IF sender = NoDomain THEN mailboxes + 1 ELSE mailboxes
    /\ eval_by_sender' = (sender # NoDomain)
    /\ redirect_depth' = 0
    /\ include_depth' = 0
    /\ call' = sender'
    /\ lookups' = 0
    /\ overBudget' = FALSE
    /\ UNCHANGED <<resets, policy, zone, helo_domain, sin_family, result, frames, domain,
                   local_policy_mode, explanation, ret>>

-----------------------------------------------------------------------------
(* The prologue of SidfRequest_checkHost(call), in three outcomes.        *)
(* checkDomain rejects the domain: nothing is pushed.                      *)
CheckHostRejected ==
    /\ call # NoDomain
    /\ CheckDomain(call) # Null
    /\ ret' = CheckDomain(call)
    /\ call' = NoDomain
    /\ UNCHANGED <<life, policy, zone, sender, eval_by_sender, helo_domain, sin_family, phase, result,
                   frames, domain, dns_mech_count, redirect_depth,
                   include_depth, local_policy_mode, explanation, lookups,
                   overBudget>>

(* Mutant: lookupRecord's early return forgets popDomain.                 *)
LookupRecordFailedNoPop ==
    /\ call # NoDomain
    /\ CheckDomain(call) = Null
    /\ zone[call].score # Null
    /\ ret' = zone[call].score
    /\ call' = NoDomain
    /\ domain' = Append(domain, call)
    /\ UNCHANGED <<life, policy, zone, sender, eval_by_sender, helo_domain, sin_family, phase, result,
                   frames, dns_mech_count, redirect_depth,
                   include_depth, local_policy_mode, explanation, lookups,
                   overBudget>>

(* The domain is pushed, lookupRecord returns a score, the domain is      *)
(* popped again and the score returned.                                    *)
LookupRecordFailed ==
    /\ call # NoDomain
    /\ CheckDomain(call) = Null
    /\ zone[call].score # Null
    /\ ret' = zone[call].score
    /\ call' = NoDomain
    /\ UNCHANGED <<life, policy, zone, sender, eval_by_sender, helo_domain, sin_family, phase, result,
                   frames, domain, dns_mech_count, redirect_depth,
                   include_depth, local_policy_mode, explanation, lookups,
                   overBudget>>

(* The domain is pushed and its record parsed: a new activation starts at *)
(* its first directive.                                                     *)
CheckHostStart ==
    /\ call # NoDomain
    /\ CheckDomain(call) = Null
    /\ zone[call].score = Null
    /\ frames' = Append(frames, [dom |-> call, rec |-> zone[call],
                                 stage |-> "dirs", idx |-> 1])
    /\ domain' = Append(domain, call)
    /\ call' = NoDomain
    /\ UNCHANGED <<life, policy, zone, sender, eval_by_sender, helo_domain, sin_family, phase, result,
                   dns_mech_count, redirect_depth, include_depth,
                   local_policy_mode, explanation, ret, lookups, overBudget>>

-----------------------------------------------------------------------------
(* The innermost activation is running: no call or return is in flight.   *)
Ready == phase = "running" /\ call = NoDomain /\ ret = Null /\ frames # <<>>

(* evalDirectives is at a directive of the record or the local policy.    *)
AtDirective ==
    /\ Ready
    /\ Top.stage \in {"dirs", "local"}
    /\ Top.idx <= Len(Directives(Top))

CurTerm == Directives(Top)[Top.idx]

(* SidfRequest_incrementDnsMechCounter accepts the mechanism.              *)
UnderBudget(t) == t.mech \in DnsMechs => dns_mech_count + 1 <= MaxDnsMech

(* ... and counts it.                                                       *)
CountMech(t) ==
    IF t.mech \in DnsMechs
    THEN /\ dns_mech_count' = dns_mech_count + 1
         /\ lookups' = lookups + 1
    ELSE UNCHANGED <<dns_mech_count, lookups>>

NextDirective == frames' = [frames EXCEPT ![Len(frames)].idx = @ + 1]

(* SidfRequest_evalMechanism: the counter refuses a mechanism that looks  *)
(* up DNS; the directive yields PermError.                                 *)
EvalMechOverBudget ==
    /\ AtDirective
    /\ ~UnderBudget(CurTerm)
    /\ dns_mech_count' = dns_mech_count + 1
    /\ overBudget' = TRUE
    /\ DirectiveMatched(Top, "permerror", include_depth)
    /\ UNCHANGED <<life, policy, zone, sender, eval_by_sender, helo_domain, sin_family, phase, result,
                   redirect_depth, include_depth, call, lookups>>

(* SidfRequest_evalMechInclude up to the recursive checkHost call.         *)
EvalMechInclude ==
    /\ AtDirective
    /\ CurTerm.mech = "include"
    /\ UnderBudget(CurTerm)
    /\ CountMech(CurTerm)
    /\ include_depth' = include_depth + 1
    /\ call' = CurTerm.target
    /\ UNCHANGED <<life, policy, zone, sender, eval_by_sender, helo_domain, sin_family, phase, result,
                   frames, domain, redirect_depth, local_policy_mode,
                   explanation, ret, overBudget>>

(* A non-recursive mechanism does not match: evalDirectives goes on.      *)
EvalMechNoMatch ==
    /\ AtDirective
    /\ CurTerm.mech # "include"
    /\ UnderBudget(CurTerm)
    /\ EvalLeaf(CurTerm) = Null
    /\ CountMech(CurTerm)
    /\ NextDirective
    /\ UNCHANGED <<life, policy, zone, sender, eval_by_sender, helo_domain, sin_family, phase, result,
                   domain, redirect_depth, include_depth, local_policy_mode,
                   explanation, call, ret, overBudget>>

(* A non-recursive mechanism yields a score: evalDirectives returns it.   *)
EvalMechMatch ==
    /\ AtDirective
    /\ CurTerm.mech # "include"
    /\ UnderBudget(CurTerm)
    /\ EvalLeaf(CurTerm) # Null
    /\ CountMech(CurTerm)
    /\ DirectiveMatched(Top, EvalLeaf(CurTerm), include_depth)
    /\ UNCHANGED <<life, policy, zone, sender, eval_by_sender, helo_domain, sin_family, phase, result,
                   redirect_depth, include_depth, call, overBudget>>

-----------------------------------------------------------------------------
(* checkHost after evalDirectives returned NULL for its record.           *)
RecordExhausted ==
    /\ Ready
    /\ Top.stage = "dirs"
    /\ Top.idx > Len(Top.rec.dirs)

(* SidfRequest_evalModRedirect: the counter refuses the redirect.          *)
RedirectOverBudget ==
    /\ RecordExhausted
    /\ Top.rec.redirect # NoDomain
    /\ dns_mech_count + 1 > MaxDnsMech
    /\ dns_mech_count' = dns_mech_count + 1
    /\ overBudget' = TRUE
    /\ PopFrame("permerror")
    /\ UNCHANGED <<life, policy, zone, sender, eval_by_sender, helo_domain, sin_family, phase, result,
                   redirect_depth, include_depth, local_policy_mode,
                   explanation, call, lookups>>

(* SidfRequest_evalModRedirect up to the recursive checkHost call.         *)
EvalModRedirect ==
    /\ RecordExhausted
    /\ Top.rec.redirect # NoDomain
    /\ dns_mech_count + 1 <= MaxDnsMech
    /\ dns_mech_count' = dns_mech_count + 1
    /\ lookups' = lookups + 1
    /\ redirect_depth' = redirect_depth + 1
    /\ call' = Top.rec.redirect
    /\ frames' = [frames EXCEPT ![Len(frames)].stage = "redirect"]
    /\ UNCHANGED <<life, policy, zone, sender, eval_by_sender, helo_domain, sin_family, phase, result,
                   domain, include_depth, local_policy_mode, explanation,
                   ret, overBudget>>

(* No redirect=, and SidfRequest_evalLocalPolicy returns NULL without      *)
(* evaluating anything (inside a recursion, no local policy, already in   *)
(* local-policy mode, or the local policy does not build): Neutral.        *)
DefaultNeutral ==
    /\ RecordExhausted
    /\ Top.rec.redirect = NoDomain
    /\ \/ GetDepth > 0
       \/ ~LocalPolicyUsable
       \/ local_policy_mode
    /\ PopFrame("neutral")
    /\ UNCHANGED <<life, policy, zone, sender, eval_by_sender, helo_domain, sin_family, phase, result,
                   dns_mech_count, redirect_depth, include_depth,
                   local_policy_mode, explanation, call, lookups, overBudget>>

(* Mutant: the local policy starts without clearing the counter.          *)
LocalPolicyStartNoCounterReset ==
    /\ RecordExhausted
    /\ Top.rec.redirect = NoDomain
    /\ GetDepth = 0
    /\ LocalPolicyUsable
    /\ ~local_policy_mode
    /\ local_policy_mode' = TRUE
    /\ frames' = [frames EXCEPT ![Len(frames)].stage = "local",
                                ![Len(frames)].idx = 1]
    /\ lookups' = 0
    /\ overBudget' = FALSE
    /\ UNCHANGED <<life, policy, zone, sender, eval_by_sender, helo_domain, sin_family, phase, result,
                   domain, dns_mech_count, redirect_depth, include_depth,
                   explanation, call, ret>>

(* SidfRequest_evalLocalPolicy builds the local policy record, forgets the *)
(* DNS mechanisms counted so far, raises the flag and evaluates its        *)
(* directives in the same activation.                                      *)
LocalPolicyStart ==
    /\ RecordExhausted
    /\ Top.rec.redirect = NoDomain
    /\ GetDepth = 0
    /\ LocalPolicyUsable
    /\ ~local_policy_mode
    /\ dns_mech_count' = 0
    /\ local_policy_mode' = TRUE
    /\ frames' = [frames EXCEPT ![Len(frames)].stage = "local",
                                ![Len(frames)].idx = 1]
    /\ lookups' = 0
    /\ overBudget' = FALSE
    /\ UNCHANGED <<life, policy, zone, sender, eval_by_sender, helo_domain, sin_family, phase, result,
                   domain, redirect_depth, include_depth, explanation, call,
                   ret>>

(* evalDirectives returned NULL for the local policy.                      *)
LocalPolicyExhausted ==
    /\ Ready
    /\ Top.stage = "local"
    /\ Top.idx > Len(LocalPolicy.dirs)
    /\ LocalPolicyEnded(Null, include_depth)
    /\ UNCHANGED <<life, policy, zone, sender, eval_by_sender, helo_domain, sin_family, phase, result,
                   dns_mech_count, redirect_depth, include_depth, call,
                   lookups, overBudget>>

-----------------------------------------------------------------------------
(* A checkHost activation returned `ret` to its caller.                     *)
Returning == phase = "running" /\ ret # Null /\ frames # <<>>

(* The rest of evalModRedirect: --redirect_depth, None becomes PermError,  *)
(* and the caller's checkHost goes to `finally:` with that score.          *)
ReturnFromRedirect ==
    /\ Returning
    /\ Top.stage = "redirect"
    /\ redirect_depth' = redirect_depth - 1
    /\ PopFrame(IF ret = "none" THEN "permerror" ELSE ret)
    /\ UNCHANGED <<life, policy, zone, sender, eval_by_sender, helo_domain, sin_family, phase, result,
                   dns_mech_count, include_depth, local_policy_mode,
                   explanation, call, lookups, overBudget>>

(* Mutant: the include returns by decrementing the redirect depth.        *)
ReturnFromIncludeNoMatchWrongDepth ==
    /\ Returning
    /\ Top.stage \in {"dirs", "local"}
    /\ IncludeResult(ret, CurTerm.q) = Null
    /\ redirect_depth' = redirect_depth - 1
    /\ NextDirective
    /\ ret' = Null
    /\ UNCHANGED <<life, policy, zone, sender, eval_by_sender, helo_domain, sin_family, phase, result,
                   domain, dns_mech_count, include_depth, local_policy_mode,
                   explanation, call, lookups, overBudget>>

(* The rest of evalMechInclude: --include_depth and the child's score     *)
(* mapped; NULL lets evalDirectives go on with the next directive.         *)
ReturnFromIncludeNoMatch ==
    /\ Returning
    /\ Top.stage \in {"dirs", "local"}
    /\ IncludeResult(ret, CurTerm.q) = Null
    /\ include_depth' = include_depth - 1
    /\ NextDirective
    /\ ret' = Null
    /\ UNCHANGED <<life, policy, zone, sender, eval_by_sender, helo_domain, sin_family, phase, result,
                   domain, dns_mech_count, redirect_depth, local_policy_mode,
                   explanation, call, lookups, overBudget>>

(* ... or the mapped score is the directive's score.                        *)
ReturnFromIncludeMatch ==
    /\ Returning
    /\ Top.stage \in {"dirs", "local"}
    /\ IncludeResult(ret, CurTerm.q) # Null
    /\ include_depth' = include_depth - 1
    /\ DirectiveMatched(Top, IncludeResult(ret, CurTerm.q), include_depth - 1)
    /\ UNCHANGED <<life, policy, zone, sender, eval_by_sender, helo_domain, sin_family, phase, result,
                   dns_mech_count, redirect_depth, call, lookups, overBudget>>

(* The outermost checkHost returned: SidfRequest_eval returns its score.   *)
EvalReturn ==
    /\ phase = "running"
    /\ ret # Null
    /\ frames = <<>>
    /\ phase' = "done"
    /\ result' = ret
    /\ ret' = Null
    /\ UNCHANGED <<life, policy, zone, sender, eval_by_sender, helo_domain, sin_family, frames, domain,
                   dns_mech_count, redirect_depth, include_depth,
                   local_policy_mode, explanation, call, lookups, overBudget>>

-----------------------------------------------------------------------------
(* SidfRequest_new: a zeroed request with its domain StrArray and buffer. *)
Init ==
    /\ policy \in Policies
    /\ zone \in Zones
    /\ sender = NoDomain
    /\ eval_by_sender = FALSE
    /\ helo_domain = NoDomain
    /\ sin_family = "AF_UNSPEC"
    /\ phase = "idle"
    /\ result = Null
    /\ frames = <<>>
    /\ domain = <<>>
    /\ dns_mech_count = 0
    /\ redirect_depth = 0
    /\ include_depth = 0
    /\ local_policy_mode = FALSE
    /\ explanation = "none"
    /\ call = NoDomain
    /\ ret = Null
    /\ lookups = 0
    /\ overBudget = FALSE
    /\ mailboxes = 0
    /\ resets = 0

(* The steps SidfRequest_eval takes once it has been called.              *)
EvalStep ==
    \/ CheckHostRejected \/ LookupRecordFailed \/ CheckHostStart
    \/ EvalMechOverBudget \/ EvalMechInclude \/ EvalMechNoMatch \/ EvalMechMatch
    \/ RedirectOverBudget \/ EvalModRedirect \/ DefaultNeutral
    \/ LocalPolicyStart \/ LocalPolicyExhausted
    \/ ReturnFromRedirect \/ ReturnFromIncludeNoMatch \/ ReturnFromIncludeMatch
    \/ EvalReturn

(* The caller's calls: the setters, eval, reset and free.                 *)
Next ==
    \/ SetSender \/ SetHeloDomain \/ SetIpAddr \/ Reset \/ Free
    \/ EvalNoArgs \/ EvalStart
    \/ EvalStep

(* Evaluation is synchronous and single-threaded: once called, every step *)
(* of SidfRequest_eval is taken (each DNS call returns, the resolver has   *)
(* its own timeouts).  Whether and when the caller calls is its business. *)
Spec == Init /\ [][Next]_vars /\ WF_vars(EvalStep)

-----------------------------------------------------------------------------
Stages == {"dirs", "local", "redirect"}
Frame == [dom : Domains, rec : Range(zone), stage : Stages,
          idx : Nat \ {0}]
Explanations == {"none", "local"} \cup Domains

TypeOK ==
    /\ phase \in {"idle", "running", "done", "freed"}
    /\ result \in Scores \cup {Null}
    /\ frames \in Seq(Frame)
    /\ domain \in Seq(Domains)
    /\ dns_mech_count \in Nat
    /\ redirect_depth \in Nat
    /\ include_depth \in Nat
    /\ local_policy_mode \in BOOLEAN
    /\ eval_by_sender \in BOOLEAN
    /\ explanation \in Explanations
    /\ call \in Domains \cup {NoDomain}
    /\ ret \in Scores \cup {Null}
    /\ lookups \in Nat
    /\ overBudget \in BOOLEAN
    /\ mailboxes \in Nat
    /\ resets \in 0..MaxResets

(* Frame i has a checkHost call of its own in flight.                      *)
Waiting(i) == i < Len(frames) \/ call # NoDomain \/ ret # Null

(* The visited-domain stack of checkHost (pushDomain / popDomain on every *)
(* return path, including lookupRecord's early return) is exactly the    *)
(* domains of the active activations, innermost last, and holds no domain *)
(* twice (checkDomain's loop detection); include_depth and redirect_depth *)
(* count the activations suspended in evalMechInclude and                 *)
(* evalModRedirect.  Hence spec.md's "stack length = depths" outside a    *)
(* recursive call.                                                         *)
StackDiscipline ==
    /\ domain = [i \in 1..Len(frames) |-> frames[i].dom]
    /\ IsInjective(domain)
    /\ include_depth =
          Cardinality({i \in 1..Len(frames) :
                          Waiting(i) /\ frames[i].stage # "redirect"})
    /\ redirect_depth =
          Cardinality({i \in 1..Len(frames) :
                          Waiting(i) /\ frames[i].stage = "redirect"})

(* SidfRequest_incrementDnsMechCounter across include and redirect: no    *)
(* more than max_dns_mech DNS mechanisms and redirects are evaluated under *)
(* one budget, and the counter refuses one only after exactly that many   *)
(* (spec.md 8: "PermError at the 11th lookup attempt, not before").        *)
LookupBudget ==
    /\ lookups <= MaxDnsMech
    /\ overBudget => lookups = MaxDnsMech

(* SidfRequest_setExplanation logs "clean up existing explanation" as an  *)
(* implementation error: an evaluation never replaces an explanation it   *)
(* has set, whatever include/redirect/local policy paths it takes.        *)
ExplanationSetOnce ==
    [][phase = "running" /\ explanation # "none" => explanation' = explanation]_vars

(* Once called, SidfRequest_eval returns: include/redirect recursion,     *)
(* loops through the visited-domain stack and the local policy all end,   *)
(* and no path of checkHost leaves the caller without a score.            *)
EvalReturns == (phase = "running") ~> (phase = "done")

(* The detailed request implements SidfEvalSpec: bound while idle, each  *)
(* SidfRequest_eval returns the score and explanation of the recursive    *)
(* check_host() of spec.md 4.3 for what is bound, whatever shared         *)
(* counters, depths and stack the C recursion threads through its         *)
(* activations, and reset gives back an unbound request, so an eval after *)
(* reset depends only on what is bound again (spec.md 9, idempotence).    *)
Abs == INSTANCE SidfEvalSpec WITH
           phase <- IF phase = "running" THEN "idle" ELSE phase,
           sender <- IF phase = "running" /\ ~eval_by_sender
                     THEN NoDomain ELSE sender,
           explanation <- IF phase = "running" THEN "none" ELSE explanation

RefinesEvalSpec == Abs!SafetySpec

(* spec.md 3: the request owns its sender mailbox, the one the caller set *)
(* or the postmaster@HELO eval built, and frees it by the end of its     *)
(* life, however often it was reset and reused in between.               *)
NoLeak == phase = "freed" => mailboxes = 0

=============================================================================
