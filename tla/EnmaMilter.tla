----------------------------- MODULE EnmaMilter -----------------------------
(***************************************************************************)
(* The milter side of ENMA (enma/src/enma_mfi.c, enma_mfi_ctx.c,          *)
(* enma_sidf.c) for one SMTP connection: libmilter calls mfi_connect,     *)
(* then mfi_helo, mfi_envfrom, mfi_header, mfi_eom and mfi_abort in the   *)
(* order its contract allows, and mfi_close last.  Each callback is one   *)
(* action; every allocation that can fail is a site in Failures, and a   *)
(* site that fails takes the code's error path.                           *)
(*                                                                          *)
(* live counts the heap objects the connection owns by kind, so that a   *)
(* path that drops a pointer shows as a count left at close.  The MTA's  *)
(* copy of the message headers is kept beside the milter's, so that the   *)
(* effect of smfi_chgheader and smfi_insheader at eom can be compared with *)
(* what the milter collected.  The SPF/SIDF evaluation itself              *)
(* (SidfRequest_eval, modelled in SidfCheckHost) returns a score or fails. *)
(***************************************************************************)
EXTENDS Naturals, Sequences, FiniteSets

CONSTANTS Headers,        \* the header fields a message may carry
          Failures,       \* the allocation/call sites that may fail
          MaxMsgs,        \* messages per connection
          MaxHdrs,        \* headers per message
          MaxHelo         \* HELO commands per connection

Kinds == {"ctx", "hostname", "hostaddr", "ipaddr", "helohost", "qid", "raw_envfrom",
          "envfrom", "pra_mailbox"}

VARIABLES phase,     \* where libmilter is in the connection
          postfix,   \* g_enma_config->milter_postfix
          spf_auth,  \* g_enma_config->spf_auth
          sidf_auth, \* g_enma_config->sidf_auth
          priv,      \* smfi_getpriv(ctx) # NULL
          ctx,       \* the EnmaMfiCtx fields the callbacks use
          live,      \* heap objects of each kind owned by the connection
          msgs, helos,
          mta_hdrs,  \* the MTA's header list of the current message
          delivered  \* the message mfi_eom let through, until the next MAIL FROM

config == <<postfix, spf_auth, sidf_auth>>
vars == <<phase, config, priv, ctx, live, msgs, helos, mta_hdrs, delivered>>

NoMsg == [top |-> <<>>, rest |-> <<>>, orig |-> <<>>, helo |-> FALSE, pra_nomem |-> FALSE]

Ok(site) == IF site \in Failures THEN BOOLEAN ELSE {TRUE}

Alloc(l, K) == [k \in Kinds |-> IF k \in K THEN l[k] + 1 ELSE l[k]]
Free(l, K)  == [k \in Kinds |-> IF k \in K THEN l[k] - 1 ELSE l[k]]

(* EnmaMfiCtx_new: all members allocated, or everything freed again.      *)
NewCtx == [helohost |-> FALSE, qid |-> FALSE, raw_envfrom |-> FALSE, envfrom |-> "none",
           authhdr_count |-> 0, delauthhdr |-> <<>>, headers |-> <<>>, authresult |-> <<>>]

(* Mutant: the envelope sender mailbox is not freed.                       *)
HeldNoEnvfrom(c) == {k \in {"qid", "raw_envfrom"} : c[k]}

(* The per-message objects EnmaMfiCtx_reset frees.                          *)
Held(c) == {k \in {"qid", "raw_envfrom"} : c[k]} \cup (IF c.envfrom # "none" THEN {"envfrom"} ELSE {})

(* Mutant: the AuthResult is not reset.                                     *)
ResetKeepAuthResult(c) == [c EXCEPT !.qid = FALSE, !.raw_envfrom = FALSE, !.envfrom = "none",
                                    !.headers = <<>>, !.authhdr_count = 0, !.delauthhdr = <<>>]

(* Mutant: authhdr_count is not zeroed.                                   *)
ResetKeepCount(c) == [c EXCEPT !.qid = FALSE, !.raw_envfrom = FALSE, !.envfrom = "none",
                               !.headers = <<>>, !.authresult = <<>>, !.delauthhdr = <<>>]

(* EnmaMfiCtx_reset: the per-message members freed or emptied.            *)
Reset(c) == [c EXCEPT !.qid = FALSE, !.raw_envfrom = FALSE, !.envfrom = "none",
                      !.headers = <<>>, !.authresult = <<>>, !.authhdr_count = 0,
                      !.delauthhdr = <<>>]

(* EnmaMfiCtx_free: every member and the context itself.                  *)
FreeCtx(l, c) == Free(l, {"ctx", "hostname", "hostaddr", "ipaddr"} \cup Held(c)
                         \cup (IF c.helohost THEN {"helohost"} ELSE {}))

-----------------------------------------------------------------------------
(* SidfPra_lookup over the collected headers (MailHeaders_get index + 1;  *)
(* 0 for -1).  NonEmptyIndex is MailHeaders_getHeaderIndexImpl with       *)
(* ignore_empty_header: the first non-empty field of that name, and       *)
(* whether a second one follows.                                           *)
RECURSIVE NonEmptyScan(_, _, _, _)
NonEmptyScan(hs, name, i, key) ==
    IF i > Len(hs) THEN [pos |-> key, multiple |-> FALSE]
    ELSE IF hs[i].name # name \/ hs[i].flag = "empty" THEN NonEmptyScan(hs, name, i + 1, key)
    ELSE IF key > 0 THEN [pos |-> key, multiple |-> TRUE]
    ELSE NonEmptyScan(hs, name, i + 1, i)

NonEmptyIndex(hs, name) == NonEmptyScan(hs, name, 1, 0)

IsTrace(h) == h.name \in {"Received", "Return-Path"}

SidfPraLookup(hs) ==
    LET rs == NonEmptyIndex(hs, "Resent-Sender").pos
        rf == NonEmptyIndex(hs, "Resent-From").pos
        se == NonEmptyIndex(hs, "Sender")
        fr == NonEmptyIndex(hs, "From")
    IN  CASE rs > 0 -> IF rf > 0 /\ rf < rs /\ \E i \in rf + 1 .. rs - 1 : IsTrace(hs[i])
                       THEN rf ELSE rs
          [] rf > 0 -> rf
          [] se.pos > 0 -> IF se.multiple THEN 0 ELSE se.pos
          [] fr.pos > 0 -> IF fr.multiple THEN 0 ELSE fr.pos
          [] OTHER -> 0

(* The Authentication-Results entries: method, result, property.          *)
Entry(m, r, by) == [m |-> m, r |-> r, by |-> by]

(* EnmaSpf_evaluate: PermError without HELO; else a request is made, the *)
(* sender set (only for a non-null envelope sender), and the score of     *)
(* SidfRequest_eval appended with smtp.mailfrom or smtp.helo.  A failed   *)
(* allocation or a SysError returns false.                                 *)
SpfOutcomes(c) ==
    IF ~c.helohost THEN {[fail |-> FALSE, entry |-> <<Entry("SPF", "permerror", "-")>>]}
    ELSE {[fail |-> FALSE,
           entry |-> <<Entry("spf", "score", IF c.envfrom = "mailbox" THEN "mailfrom" ELSE "helo")>>]}
         \cup (IF "request" \in Failures \/ "eval" \in Failures
                  \/ ("sender" \in Failures /\ c.envfrom = "mailbox")
               THEN {[fail |-> TRUE, entry |-> <<>>]} ELSE {})

SidfFailed(leak) == [fail |-> TRUE, leak |-> leak, entry |-> <<>>, nomem |-> FALSE]
SidfPermError(nomem) ==
    [fail |-> FALSE, leak |-> FALSE, entry |-> <<Entry("SIDF", "permerror", "-")>>, nomem |-> nomem]

(* EnmaSidf_evaluate: PermError without HELO or without a PRA mailbox.    *)
(* SidfPra_extract parses the selected header; an allocation failure in  *)
(* InetMailbox_build2822Mailbox leaves p at the header, not NULL, so it   *)
(* is taken for a format violation.  With a mailbox: a failed            *)
(* SidfRequest_new returns false without freeing it; a failed setSender  *)
(* or a SysError frees both and returns false.                            *)
SidfOutcomes(c) ==
    LET idx == SidfPraLookup(c.headers)
        h   == c.headers[idx]
    IN  IF ~c.helohost \/ idx = 0 THEN {SidfPermError(FALSE)}
        ELSE IF h.flag # "ok" THEN {SidfPermError(FALSE)}
        ELSE {[fail |-> FALSE, leak |-> FALSE, entry |-> <<Entry("senderid", "score", h.name)>>,
               nomem |-> FALSE]}
             \cup (IF "pra_parse" \in Failures THEN {SidfPermError(TRUE)} ELSE {})
             \cup (IF "request" \in Failures THEN {SidfFailed(TRUE)} ELSE {})
             \cup (IF "sender" \in Failures \/ "eval" \in Failures THEN {SidfFailed(FALSE)} ELSE {})

NoEval == [fail |-> FALSE, leak |-> FALSE, entry |-> <<>>, nomem |-> FALSE]

(* smfi_chgheader(ctx, "Authentication-Results", idx, NULL) as sendmail  *)
(* performs it: the idx-th field of that name, deleted ones still        *)
(* counted, is marked deleted.                                             *)
ChgHeaderDelete(hs, idx) ==
    LET at == {i \in DOMAIN hs : hs[i].h.name = "AR"
                                 /\ Cardinality({j \in 1..i : hs[j].h.name = "AR"}) = idx}
    IN  [i \in DOMAIN hs |-> IF i \in at THEN [hs[i] EXCEPT !.del = TRUE] ELSE hs[i]]

RECURSIVE ChgHeaders(_, _)
ChgHeaders(hs, idxs) ==
    IF idxs = <<>> THEN hs ELSE ChgHeaders(ChgHeaderDelete(hs, Head(idxs)), Tail(idxs))

-----------------------------------------------------------------------------
Init ==
    /\ phase = "start"
    /\ config \in BOOLEAN \X BOOLEAN \X BOOLEAN
    /\ priv = FALSE
    /\ ctx = NewCtx
    /\ live = [k \in Kinds |-> 0]
    /\ msgs = 0 /\ helos = 0
    /\ mta_hdrs = <<>>
    /\ delivered = NoMsg

ConnectSteps == <<"hostname", "hostaddr", "ipaddr", "setpriv">>

(* mfi_connect: EnmaMfiCtx_new, then hostname, hostaddr and ipaddr copies *)
(* and smfi_setpriv; a failure after EnmaMfiCtx_new goes through          *)
(* EnmaMfi_tempfail, which resets the context and returns SMFIS_TEMPFAIL.  *)
MfiConnect ==
    /\ phase = "start"
    /\ \/ /\ "ctx" \in Failures
          /\ phase' = "rejected"
          /\ UNCHANGED <<priv, ctx, live>>
       \/ \E n \in 1..Len(ConnectSteps) + 1 :
             /\ n <= Len(ConnectSteps) => ConnectSteps[n] \in Failures
             /\ live' = Alloc(live, {"ctx"} \cup ({ConnectSteps[i] : i \in 1..n - 1} \ {"setpriv"}))
             /\ ctx' = NewCtx
             /\ priv' = (n > Len(ConnectSteps))
             /\ phase' = IF n > Len(ConnectSteps) THEN "conn" ELSE "rejected"
    /\ UNCHANGED <<config, msgs, helos, mta_hdrs, delivered>>

(* The EnmaMfi_tempfail path of a callback.                                *)
TempFail(nextPhase) ==
    /\ ctx' = Reset(ctx)
    /\ live' = Free(live, Held(ctx))
    /\ phase' = nextPhase

(* mfi_helo: the previous helohost is freed and the new one copied.       *)
MfiHelo ==
    /\ phase = "conn" /\ helos < MaxHelo
    /\ helos' = helos + 1
    /\ LET l1 == IF ctx.helohost THEN Free(live, {"helohost"}) ELSE live
       IN  \/ /\ live' = Alloc(l1, {"helohost"})
              /\ ctx' = [ctx EXCEPT !.helohost = TRUE]
              /\ UNCHANGED phase
           \/ /\ "helohost" \in Failures
              /\ ctx' = [Reset(ctx) EXCEPT !.helohost = FALSE]
              /\ live' = Free(l1, Held(ctx))
              /\ phase' = "rejected"
    /\ UNCHANGED <<config, priv, msgs, mta_hdrs, delivered>>

(* What InetMailbox_buildSendmailReversePath and the trailing-FWS check   *)
(* leave in envfrom: a mailbox, the null path "<>", or nothing (trailing  *)
(* text or a syntax error); NULL with no errptr is an allocation failure. *)
ReversePaths == {"mailbox", "null", "trailing", "syntax"}
                \cup (IF "mailbox" \in Failures THEN {"nomem"} ELSE {})

(* mfi_envfrom: reset for a new transaction, the sendmail queue id, a    *)
(* copy of the argument and its parse.                                     *)
MfiEnvfrom ==
    /\ phase = "conn" /\ msgs < MaxMsgs
    /\ msgs' = msgs + 1
    /\ mta_hdrs' = <<>>
    /\ LET c0 == Reset(ctx)
           l0 == Free(live, Held(ctx))
       IN  \/ /\ \/ ~postfix /\ "qid" \in Failures
                 \/ "raw_envfrom" \in Failures
                 \/ "nomem" \in ReversePaths
              /\ ctx' = c0 /\ live' = l0 /\ phase' = "conn"
           \/ \E p \in ReversePaths \ {"nomem"} :
                 LET ef == IF p \in {"mailbox", "null"} THEN p ELSE "none"
                 IN  /\ ctx' = [c0 EXCEPT !.qid = ~postfix, !.raw_envfrom = TRUE, !.envfrom = ef]
                     /\ live' = Alloc(l0, {"raw_envfrom"} \cup (IF postfix THEN {} ELSE {"qid"})
                                          \cup (IF ef # "none" THEN {"envfrom"} ELSE {}))
                     /\ phase' = "msg"
    /\ delivered' = NoMsg
    /\ UNCHANGED <<config, priv, helos>>

(* Mutant: only the fields with our authserv-id are counted.              *)
AuthHdrCountOursOnly(c, h) ==
    IF h.name = "AR" /\ h.flag = "ours" THEN c.authhdr_count + 1 ELSE c.authhdr_count

(* ++authhdr_count for every Authentication-Results field.                *)
AuthHdrCount(c, h) == IF h.name = "AR" THEN c.authhdr_count + 1 ELSE c.authhdr_count

(* mfi_header: count the Authentication-Results fields and remember the   *)
(* numbers of those with our authserv-id; with SIDF on, keep the header.  *)
MfiHeader ==
    /\ phase = "msg" /\ Len(mta_hdrs) < MaxHdrs
    /\ \E h \in Headers :
         LET cnt  == AuthHdrCount(ctx, h)
             ours == h.name = "AR" /\ h.flag = "ours"
         IN  /\ mta_hdrs' = Append(mta_hdrs, [h |-> h, del |-> FALSE])
             /\ \/ /\ ctx' = [ctx EXCEPT !.authhdr_count = cnt,
                                         !.delauthhdr = IF ours THEN Append(@, cnt) ELSE @,
                                         !.headers = IF sidf_auth THEN Append(@, h) ELSE @]
                   /\ UNCHANGED <<live, phase>>
                \/ /\ \/ ours /\ "intarray" \in Failures
                      \/ sidf_auth /\ "mailheaders" \in Failures
                   /\ TempFail("conn")
    /\ UNCHANGED <<config, priv, msgs, helos, delivered>>
(* mfi_eom: the postfix queue id, deletion of the recorded forged         *)
(* Authentication-Results fields, the authserv-id, SPF, then SIDF, the    *)
(* AuthResult status and insertion of the new field at the top; any      *)
(* failure is EnmaMfi_tempfail.  Every path ends in EnmaMfiCtx_reset.      *)
MfiEom ==
    /\ phase = "msg"
    /\ \E q    \in (IF postfix /\ ~ctx.qid THEN Ok("qid") ELSE {TRUE}),
          a    \in Ok("authserv"),
          spf  \in (IF spf_auth THEN SpfOutcomes(ctx) ELSE {NoEval}),
          sidf \in (IF sidf_auth THEN SidfOutcomes(ctx) ELSE {NoEval}),
          st   \in Ok("arstatus"),
          ins  \in Ok("insheader") :
         LET hs        == ChgHeaders(mta_hdrs, ctx.delauthhdr)
             reachSidf == q /\ a /\ ~spf.fail
             ok        == reachSidf /\ ~sidf.fail /\ st /\ ins
             appended  == IF q /\ a THEN <<Entry("authserv", "-", "-")>> \o spf.entry
                                        \o (IF reachSidf THEN sidf.entry ELSE <<>>)
                          ELSE <<>>
             top       == ctx.authresult \o appended
         IN  /\ ctx' = Reset([ctx EXCEPT !.authresult = top])
             /\ live' = Alloc(Free(live, Held(ctx)),
                              IF reachSidf /\ sidf.leak THEN {"pra_mailbox"} ELSE {})
             /\ phase' = "conn"
             /\ mta_hdrs' = IF q THEN hs ELSE mta_hdrs
             /\ delivered' =
                  IF ok THEN [top |-> top,
                              rest |-> [i \in 1..Len(SelectSeq(hs, LAMBDA x : ~x.del)) |->
                                          SelectSeq(hs, LAMBDA x : ~x.del)[i].h],
                              orig |-> [i \in DOMAIN mta_hdrs |-> mta_hdrs[i].h],
                              helo |-> ctx.helohost, pra_nomem |-> sidf.nomem]
                  ELSE delivered
    /\ UNCHANGED <<config, priv, msgs, helos>>

(* mfi_abort: reset the context if there is one.                          *)
MfiAbort ==
    /\ phase \in {"conn", "msg"}
    /\ TempFail("conn")
    /\ UNCHANGED <<config, priv, msgs, helos, mta_hdrs, delivered>>

(* mfi_close: free the context and clear the private pointer.             *)
MfiClose ==
    /\ phase \in {"conn", "msg", "rejected"}
    /\ phase' = "closed"
    /\ live' = IF priv THEN FreeCtx(live, ctx) ELSE live
    /\ priv' = FALSE
    /\ UNCHANGED <<config, ctx, msgs, helos, mta_hdrs, delivered>>

Next == MfiConnect \/ MfiHelo \/ MfiEnvfrom \/ MfiHeader \/ MfiEom \/ MfiAbort \/ MfiClose

Spec == Init /\ [][Next]_vars

-----------------------------------------------------------------------------
TypeOK ==
    /\ phase \in {"start", "conn", "msg", "rejected", "closed"}
    /\ config \in BOOLEAN \X BOOLEAN \X BOOLEAN /\ priv \in BOOLEAN
    /\ live \in [Kinds -> Nat]
    /\ ctx.authhdr_count \in 0..MaxHdrs
    /\ msgs \in 0..MaxMsgs /\ helos \in 0..MaxHelo

(* No heap object the connection allocated is still held when libmilter *)
(* has called mfi_close: every error path of every callback hands its     *)
(* allocations to the context, and the context is freed.                  *)
NoLeak == phase = "closed" => \A k \in Kinds : live[k] = 0

(* The message mfi_eom passes on carries none of the Authentication-      *)
(* Results fields with our authserv-id that arrived with it, and every    *)
(* other field in its order: the numbers mfi_header counted are the ones  *)
(* smfi_chgheader deletes by.                                              *)
ForgedHeadersRemoved ==
    delivered.rest = SelectSeq(delivered.orig, LAMBDA h : ~(h.name = "AR" /\ h.flag = "ours"))

(* RFC 4407 2: the first non-empty Resent-Sender unless a Resent-From     *)
(* precedes it with Received or Return-Path fields in between; else the   *)
(* first non-empty Resent-From; else the single non-empty Sender; else    *)
(* the single non-empty From; the PRA is that field's mailbox.            *)
RefPra(hs) ==
    LET F(n)  == {i \in DOMAIN hs : hs[i].name = n /\ hs[i].flag # "empty"}
        First(S) == CHOOSE i \in S : \A j \in S : i <= j
        skipRS == F("Resent-Sender") # {}
                  /\ \E j \in F("Resent-From") :
                        j < First(F("Resent-Sender"))
                        /\ \E k \in j + 1 .. First(F("Resent-Sender")) - 1 : IsTrace(hs[k])
        sel == CASE F("Resent-Sender") # {} /\ ~skipRS -> {First(F("Resent-Sender"))}
                 [] F("Resent-From") # {} -> {First(F("Resent-From"))}
                 [] F("Sender") # {} -> F("Sender")
                 [] OTHER -> F("From")
    IN  IF Cardinality(sel) = 1 /\ hs[First(sel)].flag = "ok" THEN hs[First(sel)].name ELSE "-"

(* The Authentication-Results field mfi_eom inserts holds this message's *)
(* results only: the authserv-id, one SPF entry, and one Sender ID entry *)
(* naming the RFC 4407 PRA field of this message (PermError without HELO *)
(* or without a PRA).                                                      *)
AuthResultsOfThisMessage ==
    delivered # NoMsg =>
        /\ Len(delivered.top) = 1 + (IF spf_auth THEN 1 ELSE 0) + (IF sidf_auth THEN 1 ELSE 0)
        /\ delivered.top[1].m = "authserv"
        /\ sidf_auth =>
             delivered.top[Len(delivered.top)].by =
                 IF delivered.helo THEN RefPra(delivered.orig) ELSE "-"

(* spec.md 7: an allocation failure is SysError, which EnmaSidf_evaluate  *)
(* turns into a temporary failure of the message, never a verdict in the  *)
(* header.                                                                  *)
PraNoMemIsSysError == ~delivered.pra_nomem

(* The methods of the inserted field are the registered ones (spf,       *)
(* senderid; method names compare case-insensitively).                     *)
MethodKey == [m \in {"authserv", "spf", "SPF", "senderid", "SIDF"} |->
                 CASE m = "SPF" -> "spf" [] m = "SIDF" -> "sidf" [] OTHER -> m]
ReportsRegisteredMethods ==
    \A i \in DOMAIN delivered.top :
        MethodKey[delivered.top[i].m] \in {"authserv", "spf", "senderid"}

(* The Sender ID result in the delivered header is what spec.md 7 asks:   *)
(* no PermError verdict for an allocation failure of the PRA parse, and   *)
(* only registered method names, on the PermError paths too.              *)
SenderIdHeaderPerSpec == PraNoMemIsSysError /\ ReportsRegisteredMethods

(* Under every allocation failure the code meets, a connection ends with  *)
(* nothing it allocated still held, and what it delivers carries the      *)
(* Sender ID result spec.md 7 asks for.                                    *)
MilterPerSpec == NoLeak /\ SenderIdHeaderPerSpec
====
