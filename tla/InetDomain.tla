----------------------------- MODULE InetDomain -----------------------------
(***************************************************************************)
(* libsidf/src/inetdomain.c: the domain-name comparisons the ptr mechanism *)
(* and the %{p} macro use (InetDomain_isParent, InetDomain_isMatch) and    *)
(* the label stripping of domain-spec truncation (InetDomain_upward).      *)
(* A name is a sequence of characters from a small alphabet, so that      *)
(* suffixes that do and do not start on a label boundary, trailing dots   *)
(* and letter case all occur.  The harness picks two names and makes one  *)
(* call of each function on them.                                          *)
(***************************************************************************)
EXTENDS Naturals, Sequences, FiniteSets, SequencesExt

CONSTANTS Alphabet,   \* the characters names are made of, "." included
          Folding,    \* tolower() on the letters of Alphabet that are upper case
          MaxLen,     \* the longest name
          NoDomain    \* InetDomain_upward's NULL

Names == UNION {[1..n -> Alphabet] : n \in 1..MaxLen}

(* tolower() as strncasecmp applies it.                                    *)
Lower(c) == IF c \in DOMAIN Folding THEN Folding[c] ELSE c

(* strncasecmp(s + i, t, n) == 0 for the n characters after offset i.      *)
CaseEqualAt(s, i, t, n) == \A k \in 1..n : Lower(s[i + k]) = Lower(t[k])

(* The length without one trailing '.', as both functions compute it.      *)
LenNoDot(s) == IF s[Len(s)] = "." THEN Len(s) - 1 ELSE Len(s)

(* Mutant: the label-boundary check before the matched suffix is dropped. *)
IsParentAnySuffix(parent, child) ==
    LET plen == LenNoDot(parent)
        cp   == Len(child) - plen - (IF child[Len(child)] = "." THEN 1 ELSE 0)
    IN  cp >= 0 /\ CaseEqualAt(child, cp, parent, plen)

(* InetDomain_isParent: parent is child or one of its ancestors.  cp is   *)
(* the offset of childpart, the tail of child as long as parent.          *)
IsParent(parent, child) ==
    LET plen == LenNoDot(parent)
        cp   == Len(child) - plen - (IF child[Len(child)] = "." THEN 1 ELSE 0)
    IN  /\ cp >= 0
        /\ CaseEqualAt(child, cp, parent, plen)
        /\ cp > 0 => child[cp] = "."

(* InetDomain_isMatch: the same name, up to case and a trailing dot.       *)
IsMatch(d1, d2) ==
    /\ LenNoDot(d1) = LenNoDot(d2)
    /\ CaseEqualAt(d2, 0, d1, LenNoDot(d1))

(* Mutant: the check that something follows the first '.' is dropped.    *)
UpwardNoEndCheck(s) ==
    LET dots == {i \in DOMAIN s : s[i] = "."}
        p    == CHOOSE i \in dots : \A j \in dots : i <= j
    IN  IF dots = {} THEN NoDomain ELSE SubSeq(s, p + 1, Len(s))

(* InetDomain_upward: the name after its first '.', NULL when there is no *)
(* '.' or nothing after it.                                                *)
Upward(s) ==
    LET dots == {i \in DOMAIN s : s[i] = "."}
        p    == CHOOSE i \in dots : \A j \in dots : i <= j
    IN  IF dots = {} THEN NoDomain
        ELSE IF p = Len(s) THEN NoDomain
        ELSE SubSeq(s, p + 1, Len(s))

(* Mutant: a name of exactly the limit is truncated too.                  *)
RECURSIVE TruncateDomainAtLimit(_, _)
TruncateDomainAtLimit(s, limit) ==
    IF Len(s) < limit THEN s
    ELSE IF Upward(s) = NoDomain THEN NoDomain
    ELSE TruncateDomainAtLimit(Upward(s), limit)

(* The truncation loop of SidfRecord_parseDomainSpec: while the expanded *)
(* domain-spec is longer than SIDF_MACRO_EXPANSION_MAX_LENGTH, step up   *)
(* with InetDomain_upward; NULL ends the term with                        *)
(* SIDF_STAT_MALICIOUS_MACRO_EXPANSION (NoDomain here).                   *)
RECURSIVE TruncateDomain(_, _)
TruncateDomain(s, limit) ==
    IF Len(s) <= limit THEN s
    ELSE IF Upward(s) = NoDomain THEN NoDomain
    ELSE TruncateDomain(Upward(s), limit)

-----------------------------------------------------------------------------
(* The harness: two names and the results of one call of each function,   *)
(* truncation under every limit up to MaxLen included.                     *)
VARIABLES name1, name2, called, out

vars == <<name1, name2, called, out>>

Init ==
    /\ name1 \in Names
    /\ name2 \in Names
    /\ called = FALSE
    /\ out = [isParent |-> FALSE, isMatch |-> FALSE, upward |-> NoDomain,
              truncate |-> [k \in 0..MaxLen |-> NoDomain]]

Compare ==
    /\ ~called
    /\ called' = TRUE
    /\ out' = [isParent |-> IsParent(name1, name2), isMatch |-> IsMatch(name1, name2),
               upward |-> Upward(name1),
               truncate |-> [k \in 0..MaxLen |-> TruncateDomain(name1, k)]]
    /\ UNCHANGED <<name1, name2>>

Spec == Init /\ [][Compare]_vars

TypeOK ==
    /\ name1 \in Names /\ name2 \in Names
    /\ called \in BOOLEAN
    /\ out \in [isParent : BOOLEAN, isMatch : BOOLEAN, upward : Names \cup {NoDomain},
               truncate : [0..MaxLen -> Names \cup {NoDomain}]]

(* The reference: s cut at every character of D into the maximal pieces  *)
(* between them (a name's labels when D is {"."}).                         *)
SplitOn(s, D) ==
    LET C       == {0, Len(s) + 1} \cup {i \in DOMAIN s : s[i] \in D}
        Cut(k)  == CHOOSE i \in C : Cardinality({j \in C : j < i}) = k
    IN  [k \in 1..Cardinality(C) - 1 |-> SubSeq(s, Cut(k - 1) + 1, Cut(k) - 1)]

Labels(s) ==
    LET t == IF Len(s) > 0 /\ Last(s) = "." THEN Front(s) ELSE s
    IN  SplitOn([i \in DOMAIN t |-> Lower(t[i])], {"."})

(* isParent, compared character by character from the end of child, says *)
(* exactly that the labels of parent are the last labels of child (RFC    *)
(* 1034 ancestry, case-insensitive, trailing dot ignored), and isMatch    *)
(* holds exactly when each name is the parent of the other.               *)
ParentIsLabelSuffix ==
    called =>
        /\ out.isParent = IsSuffix(Labels(name1), Labels(name2))
        /\ out.isMatch = (IsParent(name1, name2) /\ IsParent(name2, name1))

(* RFC 4408 8.1: a domain-spec longer than the limit loses its leftmost  *)
(* labels until it fits.  parseDomainSpec's loop over InetDomain_upward   *)
(* gives the longest suffix of the name that starts a label and fits, and *)
(* fails only when no non-empty one does.                                  *)
RefTruncate(s, limit) ==
    LET starts == {i \in DOMAIN s : (i = 1 \/ s[i - 1] = ".") /\ Len(s) - i + 1 <= limit}
    IN  IF starts = {} THEN NoDomain
        ELSE SubSeq(s, CHOOSE i \in starts : \A j \in starts : i <= j, Len(s))

TruncatesAtLabels ==
    called => \A k \in 0..MaxLen : out.truncate[k] = RefTruncate(name1, k)
=============================================================================
