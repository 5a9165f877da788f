---------------------------- MODULE SidfEvalSpec ----------------------------
(***************************************************************************)
(* What a SidfRequest promises (spec.md 3, 4.3, 4.3.1, 4.3.2, 4.4, 4.5):  *)
(* inputs bound while idle, eval as one atomic step from "idle" to "done" *)
(* whose score and explanation are those of check_host() defined          *)
(* recursively over the DNS contents, reset back to an unbound request,   *)
(* and free.                                                               *)
(* There is no stack, no counters shared across calls and no depth        *)
(* bookkeeping here: the visited set, depths and budget are arguments and *)
(* the budget and explanation come back as results.                       *)
(***************************************************************************)
EXTENDS Naturals, Sequences

CONSTANTS Domains, MalformedDomains, NoDomain, MaxDnsMech, LookupExp,
          Policies, LocalPolicyExp, Zones,
          SenderChoices, HeloChoices, SinFamilies

VARIABLES policy, zone, sender, helo_domain, sin_family, phase, result, explanation

vars == <<policy, zone, sender, helo_domain, sin_family, phase, result, explanation>>

Null == "null"

(* The policy's local_policy and overwrite_all_directive_score.           *)
LocalPolicy == policy.local_policy
OverwriteAll == policy.overwrite_all
Scores == {"none", "neutral", "pass", "policy", "hardfail", "softfail",
           "temperror", "permerror", "syserror"}

(* Qualifier +,-,~,? to Pass, Fail, SoftFail, Neutral (glossary).          *)
QualScore(q) ==
    IF q = "+" THEN "pass" ELSE IF q = "-" THEN "hardfail"
    ELSE IF q = "~" THEN "softfail" ELSE "neutral"

(* 4.3.2: mechanisms that perform a DNS lookup use the global budget.      *)
CostsLookup(t) == t.mech \in {"include", "a", "mx", "ptr", "exists"}

(* 4.3.2 / 4.4: the score of a mechanism other than include.               *)
MechScore(t, fam) ==
    IF t.mech = "all"
    THEN IF OverwriteAll = Null THEN QualScore(t.q) ELSE OverwriteAll
    ELSE IF t.dns = "match"
         THEN IF (t.mech = "ip4" /\ fam # "AF_INET")
                 \/ (t.mech = "ip6" /\ fam # "AF_INET6")
              THEN Null ELSE QualScore(t.q)
    ELSE IF t.mech \in {"a", "mx", "exists"}
         THEN IF t.dns = "NETDB_INTERNAL" THEN "syserror"
              ELSE IF t.dns \in {"NETDB_SUCCESS", "HOST_NOT_FOUND", "NO_DATA"}
                   THEN Null ELSE "temperror"
    ELSE Null

(* 4.3.2 include: the child's score as seen by the including record.       *)
Included(s, q) ==
    IF s = "pass" THEN QualScore(q)
    ELSE IF s \in {"hardfail", "softfail", "neutral"} THEN Null
    ELSE IF s \in {"permerror", "none"} THEN "permerror"
    ELSE s

(* An outcome: score s, budget used so far n, explanation x.               *)
Out(s, n, x) == [s |-> s, n |-> n, x |-> x]

(* check_host(d): vis is the set of domains on the recursion path, incl   *)
(* and redir the depths, lp the local-policy guard, n the lookups spent.  *)
RECURSIVE CheckHostRef(_, _, _, _, _, _, _, _, _), Walk(_, _, _, _, _, _, _, _, _, _)

Walk(z, fam, ds, i, vis, incl, redir, lp, n, x) ==
    IF i > Len(ds) THEN Out(Null, n, x)
    ELSE LET t == ds[i] IN
         IF CostsLookup(t) /\ n + 1 > MaxDnsMech
         THEN Out("permerror", n + 1, x)
         ELSE LET n1 == IF CostsLookup(t) THEN n + 1 ELSE n
                  r == IF t.mech = "include"
                       THEN LET c == CheckHostRef(z, fam, t.target, vis, incl + 1,
                                                  redir, lp, n1, x)
                            IN Out(Included(c.s, t.q), c.n, c.x)
                       ELSE Out(MechScore(t, fam), n1, x)
              IN IF r.s = Null
                 THEN Walk(z, fam, ds, i + 1, vis, incl, redir, lp, r.n, r.x)
                 ELSE r

CheckHostRef(z, fam, d, vis, incl, redir, lp, n, x) ==
    IF d \in MalformedDomains THEN Out("none", n, x)
    ELSE IF d \in vis THEN Out("permerror", n, x)
    ELSE IF z[d].score # Null THEN Out(z[d].score, n, x)
    ELSE
      LET rec == z[d]
          vis1 == vis \cup {d}
          m == Walk(z, fam, rec.dirs, 1, vis1, incl, redir, lp, n, x)
      IN
      IF m.s # Null
      THEN Out(m.s, m.n,
               IF LookupExp /\ m.s = "hardfail" /\ incl = 0 /\ rec.exp = "ok"
               THEN d ELSE m.x)
      ELSE IF rec.redirect # NoDomain
      THEN IF m.n + 1 > MaxDnsMech THEN Out("permerror", m.n + 1, m.x)
           ELSE LET c == CheckHostRef(z, fam, rec.redirect, vis1, incl,
                                      redir + 1, lp, m.n + 1, m.x)
                IN Out(IF c.s = "none" THEN "permerror" ELSE c.s, c.n, c.x)
      ELSE IF incl + redir > 0 \/ ~LocalPolicy.set \/ ~LocalPolicy.builds \/ lp
      THEN Out("neutral", m.n, m.x)
      ELSE LET l == Walk(z, fam, LocalPolicy.dirs, 1, vis1, incl, redir, TRUE, 0, m.x)
           IN IF l.s \in {Null, "permerror", "temperror"}
              THEN Out("neutral", l.n, l.x)
              ELSE Out(l.s, l.n,
                       IF LookupExp /\ l.s = "hardfail" /\ LocalPolicyExp = "ok"
                       THEN "local" ELSE l.x)

(* 4.3 step 1 and 3: the score eval returns.                               *)
EvalRef ==
    IF sin_family = "AF_UNSPEC" \/ helo_domain = NoDomain THEN Out(Null, 0, "none")
    ELSE CheckHostRef(zone, sin_family,
                      IF sender = NoDomain THEN helo_domain ELSE sender,
                      {}, 0, 0, FALSE, 0, "none")

(* A request as SidfRequest_new hands it out: nothing bound yet.           *)
Init ==
    /\ policy \in Policies
    /\ zone \in Zones
    /\ sender = NoDomain
    /\ helo_domain = NoDomain
    /\ sin_family = "AF_UNSPEC"
    /\ phase = "idle"
    /\ result = Null
    /\ explanation = "none"

(* spec.md 3, Request: the caller binds the sender, the HELO domain and   *)
(* the address before eval, each as often as it likes.                     *)
Bind(v, x) ==
    /\ phase = "idle"
    /\ v' = x
    /\ UNCHANGED <<policy, zone, phase, result, explanation>>

SetSender == \E d \in SenderChoices : Bind(sender, d) /\ UNCHANGED <<helo_domain, sin_family>>
SetHeloDomain == \E d \in HeloChoices : Bind(helo_domain, d) /\ UNCHANGED <<sender, sin_family>>
SetIpAddr == \E f \in SinFamilies : Bind(sin_family, f) /\ UNCHANGED <<sender, helo_domain>>

Eval ==
    /\ phase = "idle"
    /\ phase' = "done"
    /\ result' = EvalRef.s
    /\ explanation' = EvalRef.x
    /\ sender' = IF sin_family = "AF_UNSPEC" \/ helo_domain = NoDomain \/ sender # NoDomain
                  THEN sender ELSE helo_domain
    /\ UNCHANGED <<policy, zone, helo_domain, sin_family>>

(* spec.md 3: reset between sequential evaluations unbinds everything and *)
(* frees the explanation, so that the next eval of the same object sees   *)
(* only what is bound again (spec.md 9, idempotence).                     *)
Reset ==
    /\ phase \in {"idle", "done"}
    /\ phase' = "idle"
    /\ sender' = NoDomain
    /\ helo_domain' = NoDomain
    /\ sin_family' = "AF_UNSPEC"
    /\ explanation' = "none"
    /\ UNCHANGED <<policy, zone, result>>

(* The request is freed at the end of the transaction.                    *)
Free ==
    /\ phase \in {"idle", "done"}
    /\ phase' = "freed"
    /\ UNCHANGED <<policy, zone, sender, helo_domain, sin_family, result, explanation>>

Next == SetSender \/ SetHeloDomain \/ SetIpAddr \/ Eval \/ Reset \/ Free

(* No fairness: when eval is called is up to the caller, and an eval, one *)
(* step here, cannot stop half-way.                                        *)
SafetySpec == Init /\ [][Next]_vars

=============================================================================
