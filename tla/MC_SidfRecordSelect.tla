------------------------- MODULE MC_SidfRecordSelect -------------------------
(* Answers of up to two records drawn from eight kinds of version section. *)
EXTENDS SidfRecordSelect

V(ver, ids, sep) == [ver |-> ver, ids |-> ids, sep |-> sep]

MCRawRecords ==
    { V("spf1", {}, TRUE),                 \* v=spf1 ...
      V("spf1", {}, FALSE),                \* v=spf1x ...
      V("spf2", {"mfrom"}, TRUE),          \* spf2.0/mfrom ...
      V("spf2", {"pra"}, TRUE),            \* spf2.0/pra ...
      V("spf2", {"mfrom", "pra"}, TRUE),   \* spf2.0/mfrom,pra ...
      V("spf2", {"pra", "other"}, TRUE),   \* spf2.0/pra,foo ...
      V("spf2", {"pra", "bad"}, TRUE),     \* spf2.0/pra,-x ...
      V("other", {}, TRUE) }               \* any other TXT record

MCScopes == {{"SPF1"}, {"SPF2_MFROM"}, {"SPF2_PRA"}}
MCBuildOutcomes == {"SIDF_STAT_OK", "SIDF_STAT_NO_RESOURCE", "SIDF_STAT_RECORD_SYNTAX_VIOLATION"}
=============================================================================
