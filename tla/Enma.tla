-------------------------------- MODULE Enma --------------------------------
(***************************************************************************)
(* enma-milter as enma.c runs it: config_init loads the configuration      *)
(* (EnmaConfig) and the process exits if that fails; then libmilter calls  *)
(* the callbacks of one connection (EnmaMilter), which read                 *)
(* milter.postfix, spf.auth and sidf.auth from g_enma_config.  The milter  *)
(* is instantiated with those three entries for its flags, and takes no    *)
(* step before the load is done.                                           *)
(***************************************************************************)
CONSTANTS Argvs, Files, Folding, Headers, Failures, MaxMsgs, MaxHdrs, MaxHelo

VARIABLES stage, argv, operands, lines, conf, written,
          phase, priv, ctx, live, msgs, helos, mta_hdrs, delivered

C == INSTANCE EnmaConfig
(* The three boolean entries the milter reads (1 is TRUE).                  *)
PostfixEntry == C!Entry("milter.postfix")
SpfAuthEntry == C!Entry("spf.auth")
SidfAuthEntry == C!Entry("sidf.auth")
M == INSTANCE EnmaMilter WITH postfix <- conf[PostfixEntry] = 1,
                              spf_auth <- conf[SpfAuthEntry] = 1,
                              sidf_auth <- conf[SidfAuthEntry] = 1

cvars == <<stage, argv, operands, lines, conf, written>>
mvars == <<phase, priv, ctx, live, msgs, helos, mta_hdrs, delivered>>
allvars == <<cvars, mvars>>

Init == C!Init /\ M!Init

Next == \/ C!Next /\ UNCHANGED mvars
        \/ stage = "done" /\ UNCHANGED cvars /\ M!Next

Spec == Init /\ [][Next]_allvars

TypeOK == C!ConfTypeOK /\ M!TypeOK

(* The milter's properties, under the configuration the load produced.     *)
NoLeak == M!NoLeak
ForgedHeadersRemoved == M!ForgedHeadersRemoved
AuthResultsOfThisMessage == M!AuthResultsOfThisMessage

(* The load keeps the first value each entry is given.                      *)
ConfigPrecedence == C!ConfigPrecedence

(* Everything enma-milter promises: the milter's NoLeak and Sender ID      *)
(* result (MilterPerSpec) at every state, and the loader as documented.    *)
EnmaPerSpec == []M!MilterPerSpec /\ C!ConfigPerDoc
====
