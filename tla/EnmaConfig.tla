----------------------------- MODULE EnmaConfig -----------------------------
(***************************************************************************)
(* How enma-milter reads its configuration at startup (enma/src/          *)
(* enma_config.c, config_loader.c, string_util.c, syslogtable.c):          *)
(* EnmaConfig_new leaves every entry of ConfigEntry_table unset, then     *)
(* EnmaConfig_setConfig stores the getopt options in argv order, the       *)
(* lines of the file named by milter.conffile, and last the defaults.      *)
(* An entry that holds a value is never stored again ("already saved,      *)
(* do not overwrite"), so the first source that names an entry wins.       *)
(*                                                                          *)
(* Text is a sequence of one-character strings.  An int entry holds the    *)
(* int the C code stores; "unset" is the -1 that ConfigLoader_init writes. *)
(***************************************************************************)
EXTENDS Integers, Sequences, SequencesExt, FiniteSetsExt

CONSTANTS Argvs,      \* the command lines: [opts : Seq([opt, arg]), operands : BOOLEAN]
          Files,      \* the configuration files: path -> Seq(line)
          Folding     \* tolower() on the upper-case letters the inputs use

Chars(s) == [i \in 1..Len(s) |-> SubSeq(s, i, i)]
(* NULL: no char sequence, since every element of one is a single char.  *)
Null == <<"NULL">>
NoDefault == ""
Unset == -1

(* ConfigEntry_table: name, type, default (NoDefault for NULL).            *)
ConfigEntryTable ==
    << [name |-> "milter.verbose", type |-> "BOOLEAN", default |-> "false"],
       [name |-> "milter.conffile", type |-> "STRING", default |-> NoDefault],
       [name |-> "milter.user", type |-> "STRING", default |-> NoDefault],
       [name |-> "milter.pidfile", type |-> "STRING", default |-> "/var/run/enma/enma.pid"],
       [name |-> "milter.chdir", type |-> "STRING", default |-> "/var/tmp/"],
       [name |-> "milter.socket", type |-> "STRING", default |-> "inet:10025@127.0.0.1"],
       [name |-> "milter.timeout", type |-> "INTEGER", default |-> "7210"],
       [name |-> "milter.loglevel", type |-> "INTEGER", default |-> "0"],
       [name |-> "milter.postfix", type |-> "BOOLEAN", default |-> "false"],
       [name |-> "syslog.ident", type |-> "STRING", default |-> "enma"],
       [name |-> "syslog.facility", type |-> "SYSLOG_FACILITY", default |-> "local4"],
       [name |-> "syslog.logmask", type |-> "SYSLOG_PRIORITY", default |-> "info"],
       [name |-> "spf.auth", type |-> "BOOLEAN", default |-> "true"],
       [name |-> "spf.explog", type |-> "BOOLEAN", default |-> "true"],
       [name |-> "sidf.auth", type |-> "BOOLEAN", default |-> "true"],
       [name |-> "sidf.explog", type |-> "BOOLEAN", default |-> "true"],
       [name |-> "authresult.identifier", type |-> "STRING", default |-> "localhost"] >>
Entries == DOMAIN ConfigEntryTable
Entry(name) == SelectInSeq(ConfigEntryTable, LAMBDA e : e.name = name)

(* facilitytbl and prioritytbl of syslogtable.c with the <syslog.h> values *)
(* of a Linux build; KeywordMap_lookupByCaseString gives -1 for no match.  *)
FacilityTbl == [kern |-> 0, user |-> 8, mail |-> 16, daemon |-> 24, auth |-> 32,
                syslog |-> 40, lpr |-> 48, news |-> 56, uucp |-> 64, cron |-> 72,
                authpriv |-> 80, ftp |-> 88, local0 |-> 128, local1 |-> 136,
                local2 |-> 144, local3 |-> 152, local4 |-> 160, local5 |-> 168,
                local6 |-> 176, local7 |-> 184]
PriorityTbl == [emerg |-> 0, alert |-> 1, crit |-> 2, err |-> 3, warning |-> 4,
                notice |-> 5, info |-> 6, debug |-> 7]
Lower(v) == [i \in DOMAIN v |-> IF v[i] \in DOMAIN Folding THEN Folding[v[i]] ELSE v[i]]
LookupByCaseString(tbl, v) ==
    LET hit == {k \in DOMAIN tbl : Chars(k) = Lower(v)}
    IN  IF hit = {} THEN -1 ELSE tbl[CHOOSE k \in hit : TRUE]

DigitValue == [d \in {"0", "1", "2", "3", "4", "5", "6", "7", "8", "9"} |->
               CHOOSE n \in 0..9 : SubSeq("0123456789", n + 1, n + 1) = d]
(* isdigits: every character a digit; true for the empty string.          *)
IsDigits(v) == \A i \in DOMAIN v : v[i] \in DOMAIN DigitValue
(* atoi: strtol's long, converted to int, keeps the low 32 bits (two's    *)
(* complement); computed in 16-bit halves.  Exact for up to 18 digits.    *)
Atoi(v) ==
    LET w == FoldLeft(LAMBDA acc, c :
                 LET lo == acc[2] * 10 + DigitValue[c]
                 IN  <<(acc[1] * 10 + lo \div 65536) % 65536, lo % 65536>>, <<0, 0>>, v)
    IN  IF w[1] >= 32768 THEN (w[1] - 65536) * 65536 + w[2] ELSE w[1] * 65536 + w[2]

TrueList  == {Chars(s) : s \in {"yes", "true", "on", "1"}}
FalseList == {Chars(s) : s \in {"no", "false", "off", "0"}}

(* ConfigLoader_isSet: a string is set when non-NULL, an int when not -1. *)
IsSet(e, x) == IF ConfigEntryTable[e].type = "STRING" THEN x # Null ELSE x # Unset

(* setValue without its isSet check: every later source overwrites.       *)
SetValueOverwrite(e, v, cf) ==
    LET t == ConfigEntryTable[e].type
        Store(x, ok) == [ok |-> ok, conf |-> [cf EXCEPT ![e] = x], stored |-> {e}]
    IN  CASE t = "STRING" /\ v = Null -> [ok |-> TRUE, conf |-> cf, stored |-> {}]
          [] t = "STRING" -> Store(v, TRUE)
          [] t = "BOOLEAN" /\ Lower(v) \in TrueList -> Store(1, TRUE)
          [] t = "BOOLEAN" /\ Lower(v) \in FalseList -> Store(0, TRUE)
          [] t = "INTEGER" /\ IsDigits(v) -> Store(Atoi(v), TRUE)
          [] t = "SYSLOG_FACILITY" -> Store(LookupByCaseString(FacilityTbl, v),
                                            LookupByCaseString(FacilityTbl, v) # -1)
          [] t = "SYSLOG_PRIORITY" -> Store(LookupByCaseString(PriorityTbl, v),
                                            LookupByCaseString(PriorityTbl, v) # -1)
          [] OTHER -> [ok |-> FALSE, conf |-> cf, stored |-> {}]

(* ConfigLoader_setValue: nothing happens to an entry already set; else   *)
(* the per-type setter converts v (NULL only as a string default).  The    *)
(* syslog setters store the -1 of a failed lookup before they fail.       *)
SetValue(e, v, cf) ==
    LET t == ConfigEntryTable[e].type
        Store(x, ok) == [ok |-> ok, conf |-> [cf EXCEPT ![e] = x], stored |-> {e}]
    IN  CASE IsSet(e, cf[e]) -> [ok |-> TRUE, conf |-> cf, stored |-> {}]
          [] t = "STRING" /\ v = Null -> [ok |-> TRUE, conf |-> cf, stored |-> {}]
          [] t = "STRING" -> Store(v, TRUE)
          [] t = "BOOLEAN" /\ Lower(v) \in TrueList -> Store(1, TRUE)
          [] t = "BOOLEAN" /\ Lower(v) \in FalseList -> Store(0, TRUE)
          [] t = "INTEGER" /\ IsDigits(v) -> Store(Atoi(v), TRUE)
          [] t = "SYSLOG_FACILITY" -> Store(LookupByCaseString(FacilityTbl, v),
                                            LookupByCaseString(FacilityTbl, v) # -1)
          [] t = "SYSLOG_PRIORITY" -> Store(LookupByCaseString(PriorityTbl, v),
                                            LookupByCaseString(PriorityTbl, v) # -1)
          [] OTHER -> [ok |-> FALSE, conf |-> cf, stored |-> {}]

(* ConfigLoader_lookupEntry: the first entry whose name is a prefix of the *)
(* key (strncmp over strlen(config_name)); 0 for none.                     *)
LookupEntry(key) == SelectInSeq(ConfigEntryTable, LAMBDA e : IsPrefix(Chars(e.name), key))
-----------------------------------------------------------------------------
(* string_util.c strstrip: leading and trailing spaces removed.            *)
StrStrip(s) ==
    LET ne == {i \in DOMAIN s : s[i] # " "}
    IN  IF ne = {} THEN <<>> ELSE SubSeq(s, Min(ne), Max(ne))

(* strtok_r(line, ":", &value) of glibc: leading ':' skipped, the key runs *)
(* to the next ':', the value is what follows it, or the empty string at  *)
(* the end of a line without one; no key when only ':' remain.             *)
Strtok(s) ==
    LET k0 == SelectInSeq(s, LAMBDA c : c # ":")
        r  == SubSeq(s, k0, Len(s))
        c  == SelectInSeq(r, LAMBDA ch : ch = ":")
    IN  CASE k0 = 0 -> [key |-> Null, value |-> Null]
          [] c = 0  -> [key |-> r, value |-> <<>>]
          [] OTHER  -> [key |-> SubSeq(r, 1, c - 1), value |-> SubSeq(r, c + 1, Len(r))]

VARIABLES stage,    \* where EnmaConfig_setConfig is
          argv,     \* the options getopt has still to return
          operands, \* argv holds a non-option argument
          lines,    \* the lines fgets has still to read
          conf,     \* the EnmaConfig entries
          written   \* auxiliary: the entries a setter has stored into

cvars == <<stage, argv, operands, lines, conf, written>>

Stages == {"getopt", "open", "file", "defaults", "done", "failed", "usage"}

(* EnmaConfig_new and ConfigLoader_init: every entry unset.               *)
Init ==
    /\ \E a \in Argvs : argv = a.opts /\ operands = a.operands
    /\ stage = "getopt"
    /\ lines = <<>>
    /\ conf = [e \in Entries |-> IF ConfigEntryTable[e].type = "STRING" THEN Null ELSE Unset]
    /\ written = {}

(* The end of a step that stores through setValue: a failed store makes  *)
(* EnmaConfig_setConfig return false (main exits with EX_USAGE).           *)
Apply(r, next) ==
    /\ conf' = r.conf
    /\ written' = written \cup r.stored
    /\ stage' = IF r.ok THEN next ELSE "failed"

(* ConfigLoader_setOptionValue: an unknown key fails.                     *)
SetOptionValue(key, v) ==
    LET e == LookupEntry(key)
    IN  IF e = 0 THEN stage' = "failed" /\ UNCHANGED <<conf, written>>
        ELSE Apply(SetValue(e, v, conf), "getopt")

(* ConfigLoader_setEqualStringOptionValue: "key=value" split at the first  *)
(* '='; no '=' or an empty value fails.                                    *)
SetEqualStringOptionValue(arg) ==
    LET eq == SelectInSeq(arg, LAMBDA c : c = "=")
    IN  IF eq = 0 \/ eq = Len(arg) THEN stage' = "failed" /\ UNCHANGED <<conf, written>>
        ELSE SetOptionValue(SubSeq(arg, 1, eq - 1), SubSeq(arg, eq + 1, Len(arg)))

(* One option of EnmaConfig_getopt: -o, -c and -v set entries; -h and any  *)
(* other option print the usage and exit.                                  *)
Getopt ==
    /\ stage = "getopt" /\ argv # <<>>
    /\ argv' = Tail(argv)
    /\ LET o == Head(argv)
       IN  CASE o.opt = "o" -> SetEqualStringOptionValue(o.arg)
             [] o.opt = "c" -> SetOptionValue(Chars("milter.conffile"), o.arg)
             [] o.opt = "v" -> SetOptionValue(Chars("milter.verbose"), Chars("true"))
             [] OTHER -> stage' = "usage" /\ UNCHANGED <<conf, written>>
    /\ UNCHANGED <<operands, lines>>

(* After getopt: an operand left over fails; then the file, if one is     *)
(* named, else the defaults.                                               *)
GetoptEnd ==
    /\ stage = "getopt" /\ argv = <<>>
    /\ stage' = CASE operands -> "failed"
                  [] conf[Entry("milter.conffile")] # Null -> "open"
                  [] OTHER -> "defaults"
    /\ UNCHANGED <<argv, operands, lines, conf, written>>

(* ConfigLoader_setConfigValue: fopen.                                    *)
FileOpen ==
    /\ stage = "open"
    /\ LET path == conf[Entry("milter.conffile")]
       IN  IF path \in DOMAIN Files THEN stage' = "file" /\ lines' = Files[path]
           ELSE stage' = "failed" /\ UNCHANGED lines
    /\ UNCHANGED <<argv, operands, conf, written>>

(* One line: stripped; a comment or an empty line is skipped; a line with  *)
(* no key, an unknown key or a value setValue refuses fails the load.     *)
FileLine ==
    /\ stage = "file" /\ lines # <<>>
    /\ lines' = Tail(lines)
    /\ LET l == StrStrip(Head(lines))
           t == Strtok(l)
           e == IF t.key = Null THEN 0 ELSE LookupEntry(StrStrip(t.key))
       IN  CASE l = <<>> \/ l[1] = "#" -> UNCHANGED <<stage, conf, written>>
             [] e = 0 -> stage' = "failed" /\ UNCHANGED <<conf, written>>
             [] OTHER -> Apply(SetValue(e, StrStrip(t.value), conf), "file")
    /\ UNCHANGED <<argv, operands>>

(* fgets fails: ferror is set and the load fails.                         *)
FileReadError ==
    /\ stage = "file" /\ lines # <<>>
    /\ stage' = "failed"
    /\ UNCHANGED <<argv, operands, lines, conf, written>>

FileEnd ==
    /\ stage = "file" /\ lines = <<>>
    /\ stage' = "defaults"
    /\ UNCHANGED <<argv, operands, lines, conf, written>>

(* ConfigLoader_setDefaultValue: setValue with each entry's default in     *)
(* table order, stopping at the first failure.                            *)
RECURSIVE Defaults(_, _)
Defaults(e, r) ==
    IF e > Len(ConfigEntryTable) \/ ~r.ok THEN r
    ELSE LET d  == ConfigEntryTable[e].default
             r2 == SetValue(e, IF d = NoDefault THEN Null ELSE Chars(d), r.conf)
         IN  Defaults(e + 1, [r2 EXCEPT !.stored = @ \cup r.stored])

SetDefaultValue ==
    /\ stage = "defaults"
    /\ Apply(Defaults(1, [ok |-> TRUE, conf |-> conf, stored |-> {}]), "done")
    /\ UNCHANGED <<argv, operands, lines>>

Next == Getopt \/ GetoptEnd \/ FileOpen \/ FileLine \/ FileReadError \/ FileEnd \/ SetDefaultValue

Spec == Init /\ [][Next]_cvars

-----------------------------------------------------------------------------
ConfTypeOK ==
    /\ stage \in Stages
    /\ written \subseteq Entries
    /\ \A e \in Entries : IF ConfigEntryTable[e].type = "STRING" THEN conf[e] = Null \/ conf[e] \in Seq(STRING)
                                                              ELSE conf[e] \in (-2147483647 - 1)..2147483647

(* The key of the option or line the next step stores by.                 *)
CurrentKey ==
    CASE stage = "getopt" /\ argv # <<>> /\ Head(argv).opt = "o" ->
             SubSeq(Head(argv).arg, 1, SelectInSeq(Head(argv).arg, LAMBDA c : c = "=") - 1)
      [] stage = "getopt" /\ argv # <<>> /\ Head(argv).opt = "c" -> Chars("milter.conffile")
      [] stage = "getopt" /\ argv # <<>> /\ Head(argv).opt = "v" -> Chars("milter.verbose")
      [] stage = "file" /\ lines # <<>> /\ Strtok(StrStrip(Head(lines))).key # Null ->
             StrStrip(Strtok(StrStrip(Head(lines))).key)
      [] OTHER -> <<>>

(* The precedence the loader promises (enma_config.c: options, then the    *)
(* file, then defaults; config_loader.c: "already saved, do not            *)
(* overwrite"): once an option, a line or a default has stored a value     *)
(* into an entry, no later step of the load changes that entry.             *)
ConfigPrecedence == [][\A e \in written : conf'[e] = conf[e]]_cvars

(* An option or a line stores only into the entry its key names: the       *)
(* usage text lists the names "-o" accepts, and a misspelt key is          *)
(* reported as "config parse failed".                                      *)
KeysExact ==
    [][(stage \in {"getopt", "file"}) =>
          (\A e \in Entries : conf'[e] # conf[e] => CurrentKey = Chars(ConfigEntryTable[e].name))]_cvars

(* A line of the file with a key and no ':' fails the load, as the        *)
(* `NULL == config_value` test after strtok_r means it to.                  *)
ColonlessLineRejected ==
    [][(/\ stage = "file" /\ lines # <<>> /\ lines' = Tail(lines)
        /\ LET l == StrStrip(Head(lines))
           IN  l # <<>> /\ l[1] # "#" /\ Strtok(l).key # Null /\ \A i \in DOMAIN l : l[i] # ":")
       => stage' = "failed"]_cvars

(* The loader as its code comments and usage text describe it.             *)
ConfigPerDoc == ConfigPrecedence /\ KeysExact /\ ColonlessLineRejected
====
