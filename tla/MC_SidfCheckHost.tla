-------------------------- MODULE MC_SidfCheckHost --------------------------
(***************************************************************************)
(* Model values and DNS contents for checking SidfCheckHost.  Four        *)
(* domains: d1..d3 carry records, d4 is malformed (too long or bad        *)
(* characters) and only appears as a target.  Every record has at most    *)
(* two directives; together they exercise include, redirect, loops back   *)
(* to d1, exp=, every DNS status a mechanism can meet, both address       *)
(* families, and a budget of two DNS mechanisms that a chain of three     *)
(* domains can exhaust.                                                    *)
(***************************************************************************)
EXTENDS SidfCheckHost

CONSTANTS d1, d2, d3, d4, NoDom

MCDomains == {d1, d2, d3, d4}
MCMalformed == {d4}

(* A directive: mechanism, qualifier, <domain-spec> target, DNS answer.    *)
T(m, q, tgt, dns) == [mech |-> m, q |-> q, target |-> tgt, dns |-> dns]
(* A parsed record: directives, redirect= target, exp= outcome.            *)
R(ds, red, exp) == [score |-> "null", dirs |-> ds, redirect |-> red, exp |-> exp]
(* lookupRecord failing with score s.                                      *)
F(s) == [score |-> s, dirs |-> <<>>, redirect |-> NoDom, exp |-> "none"]

RInc  == R(<<T("include", "+", d2, "-"), T("all", "-", NoDom, "-")>>, NoDom, "ok")
RRed  == R(<<T("a", "+", NoDom, "NETDB_SUCCESS")>>, d3, "ok")
RLoop == R(<<T("include", "~", d3, "-")>>, d1, "none")
RPass == R(<<T("ip6", "+", NoDom, "match"), T("mx", "~", NoDom, "HOST_NOT_FOUND")>>, NoDom, "none")
RFail == R(<<T("ip4", "+", NoDom, "match"), T("all", "-", NoDom, "-")>>, NoDom, "ok")
RErr  == R(<<T("ptr", "-", NoDom, "NO_RECOVERY"),
             T("exists", "?", NoDom, "TRY_AGAIN")>>, NoDom, "none")
RMal  == R(<<T("ip6", "-", NoDom, "match"), T("a", "+", NoDom, "NETDB_INTERNAL")>>, d4, "bad")

(* What lookupRecord can return for a domain: a score or a parsed record. *)
Entries == {F("none"), F("temperror"), F("permerror"), F("syserror"), F("hardfail"),
            RInc, RRed, RLoop, RPass, RFail, RErr, RMal}

MCZones == {z \in [MCDomains -> Entries] : z[d4] = F("none")}

MCSenders == {d1, NoDom}
MCHelos == {d2, NoDom}
MCFamilies == {"AF_INET", "AF_INET6"}

(* The local policy "-include:d3": a pass of d3 makes it fail, anything    *)
(* else falls through or is ignored.                                       *)
MCLocalPolicy == [set |-> TRUE, builds |-> TRUE,
                  dirs |-> <<T("include", "-", d3, "-")>>]
MCNoLocalPolicy == [set |-> FALSE, builds |-> FALSE, dirs |-> <<>>]

(* The default policy, and one with that local policy and "all" scored as *)
(* SoftFail whatever its qualifier.                                        *)
MCPolicies == {[local_policy |-> MCNoLocalPolicy, overwrite_all |-> "null"],
               [local_policy |-> MCLocalPolicy, overwrite_all |-> "softfail"]}

=============================================================================
