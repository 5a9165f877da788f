---------------------------- MODULE MC_EnmaMilter ----------------------------
(* enma-milter started with one of the command lines and configuration    *)
(* files below; then one connection, two messages of up to three header   *)
(* fields, two HELOs.                                                      *)
EXTENDS Enma, Integers, Sequences, TLC

S(str) == [i \in 1..Len(str) |-> SubSeq(str, i, i)]

O(s) == [opt |-> "o", arg |-> S(s)]
Cf(s) == [opt |-> "c", arg |-> S(s)]
Verbose == [opt |-> "v", arg |-> <<>>]
Help == [opt |-> "h", arg |-> <<>>]
Cmd(os) == [opts |-> os, operands |-> FALSE]

MCFolding == [c \in {"T", "R", "U", "E", "M", "A", "I", "L"} |->
              CASE c = "T" -> "t" [] c = "R" -> "r" [] c = "U" -> "u" [] c = "E" -> "e"
                [] c = "M" -> "m" [] c = "A" -> "a" [] c = "I" -> "i" [] c = "L" -> "l"]

Conf1 == S("/etc/enma.conf")
Conf2 == S("/etc/enma2.conf")
(* A file whose second spf.auth line is ignored, with comments, blank      *)
(* lines, spaces around keys and values, and upper case.                   *)
File1 == <<S("# enma"), <<>>, S("  spf.auth : off "), S("sidf.auth:yes"), S("spf.auth: true"),
           S("milter.postfix: TRUE"), S("syslog.facility: MAIL")>>
(* A file that repeats what the options set, with a value after ':'.        *)
File2 == <<S("sidf.auth: on"), S("milter.timeout: 30"), S("milter.socket: inet:1@h")>>
MCFiles == (Conf1 :> File1) @@ (Conf2 :> File2)

(* Command lines that load: defaults only, a file, options over a file,   *)
(* the file named with -o, and -v.                                          *)
MCArgvsOk ==
    { Cmd(<<>>), Cmd(<<Cf("/etc/enma.conf")>>),
      Cmd(<<O("spf.auth=false"), O("sidf.auth=no"), Cf("/etc/enma2.conf")>>),
      Cmd(<<O("milter.postfix=on"), O("milter.conffile=/etc/enma2.conf"), O("spf.auth=0")>>),
      Cmd(<<Verbose, O("milter.postfix=yes"), O("milter.postfix=no")>>) }
(* Command lines that fail: -o without '=' or value, an unknown key, a bad *)
(* value, a missing file, -h, an operand.                                   *)
MCArgvsFail ==
    { Cmd(<<O("spf.auth")>>), Cmd(<<O("spf.auth=")>>), Cmd(<<O("nosuch.key=1")>>),
      Cmd(<<O("sidf.auth=maybe")>>), Cmd(<<O("syslog.logmask=loud")>>),
      Cmd(<<Cf("/etc/none.conf")>>), Cmd(<<Help>>), [opts |-> <<Verbose>>, operands |-> TRUE] }
MCArgvs == MCArgvsOk \cup MCArgvsFail

(* Inputs the documented loader refuses or keeps and this one does not:    *)
(* a key with a valid name as prefix, an int that wraps to -1, and lines   *)
(* without ':'.                                                            *)
Conf3 == S("/etc/enma3.conf")
File3 == <<S("milter.timeout: 4294967295"), S("milter.loglevel")>>
MCArgvsDoc ==
    MCArgvs \cup { Cmd(<<O("spf.authx=false")>>), Cmd(<<Cf("/etc/enma3.conf")>>) }
MCFilesDoc == MCFiles @@ (Conf3 :> File3)

H(n, f) == [name |-> n, flag |-> f]

(* Authentication-Results with our and another authserv-id, the PRA       *)
(* fields with a good, an empty and a malformed value, and a trace field. *)
MCHeaders == {H("AR", "ours"), H("AR", "other"), H("From", "ok"), H("From", "bad"),
              H("Sender", "ok"), H("Sender", "empty"), H("Resent-From", "ok"),
              H("Resent-Sender", "ok"), H("Received", "-")}

(* Every site whose failure the code handles without losing memory.       *)
MCFailures == {"ctx", "helohost", "qid", "raw_envfrom", "mailbox", "intarray", "mailheaders",
               "authserv", "sender", "eval", "arstatus", "insheader"}
(* Every failure site at once: those of MCFailures, the sites after        *)
(* EnmaMfiCtx_new in mfi_connect, the allocation inside                    *)
(* InetMailbox_build2822Mailbox for the PRA, and SidfRequest_new in        *)
(* EnmaSidf_evaluate.                                                      *)
MCAllFailures == MCFailures \cup {"hostname", "hostaddr", "ipaddr", "setpriv", "pra_parse", "request"}
=============================================================================
