---------------------------- MODULE MC_SidfRecord ----------------------------
(***************************************************************************)
(* Record texts for SidfRecord_build: one term, or a second term after a  *)
(* first one that sets a modifier slot, adds a directive or is ignored.   *)
(* A term is a qualifier, a name, a parameter form and a cidr suffix.     *)
(* The names cover the four parameter kinds (none, required and optional *)
(* domain-spec, address) and the three cidr kinds, the two modifiers and *)
(* an unknown name.  Lengths have one to three digits (0, valid, over 32, *)
(* over 128); a cidr suffix always starts with '/', so a symbol before it *)
(* is never read as one of its digits.                                     *)
(***************************************************************************)
EXTENDS SidfRecord

MCIp4Lit == "192.0.2.1"
MCIp6Lit == "2001:db8::1"

Quals == {<<>>, <<"-">>}
Names == {"all", "a", "ip4", "ip6", "include", "redirect", "exp", "foo"}
Params == {<<>>, <<":">>, <<":", "example.com">>, <<":", "%">>, <<":", MCIp4Lit>>,
           <<":", MCIp6Lit>>, <<"=">>, <<"=", "example.com">>, <<"=", "%">>}
Cidrs == {<<>>, <<"/">>, <<"/", "1", "4">>, <<"/", "4", "1">>, <<"/", "0">>,
          <<"/", "1", "4", "0">>, <<"/", "/", "4", "1">>, <<"/", "/", "0">>,
          <<"/", "1", "4", "/", "/", "4", "1">>, <<"/", "1", "/", "4">>}

(* Terms the product misses: no name, a name running into digits.         *)
Odd == {<<"=", "example.com">>, <<"a", "1">>, <<"+", "a", "-">>}

MCTerms == {q \o <<n>> \o p \o c : q \in Quals, n \in Names, p \in Params, c \in Cidrs} \cup Odd

Firsts == {<<"redirect", "=", "example.com">>, <<"exp", "=", "example.com">>,
           <<"-", "all">>, <<"foo", "=", "%">>}

MCBodies ==
    {t : t \in MCTerms} \cup {t \o <<" ">> : t \in Firsts}
    \cup {f \o <<" ">> \o t : f \in Firsts, t \in MCTerms}
    \cup {f \o <<" ", " ">> \o g \o <<" ">> : f, g \in Firsts}

(* Records at the edges of the grammar: "v=spf1" with no terms at all,   *)
(* next to one with a term, and cidr-lengths of four digits (RFC 4408     *)
(* allows 1*DIGIT) beside the same length in three.                       *)
MCEdgeBodies ==
    {<<>>, <<"-", "all">>} \cup
    {t \o <<"/">> \o d : t \in {<<"a", ":", "example.com">>, <<"ip4", ":", MCIp4Lit>>},
                         d \in {<<"0", "0", "2", "4">>, <<"0", "2", "4">>}}
=============================================================================
