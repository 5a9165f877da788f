---------------------------- MODULE MC_SidfMacro ----------------------------
(* One request, every macro-expand built from the letters below, up to two *)
(* digits, "r", two delimiters, an open or closed brace; for %{p}, every  *)
(* PTR answer of up to three names and every forward lookup outcome.      *)
EXTENDS SidfMacro

CONSTANT NoDom

S(str) == [i \in 1..Len(str) |-> SubSeq(str, i, i)]   \* a string literal as characters

MCFolding == [c \in {"D", "P", "I", "B"} |-> IF c = "D" THEN "d" ELSE IF c = "P" THEN "p"
                                              ELSE IF c = "I" THEN "i" ELSE "b"]
SenderLocalV == S("a-b")
DomainV == S("b.a")
HeloV == S("h.a")
Ip4V == <<"o1", ".", "o2", ".", "o3", ".", "o4">>
Ip6V == <<"2001:db8::1">>
TsV == <<"1220000000">>
MCPtrNames == {S("B.a"), S("c.b.a"), S("c.a")}

Brace(letters, ds) ==
    [pct : {"{"}, letter : letters, digits : 0..2, zero : {FALSE}, r : BOOLEAN, delims : ds,
     closed : BOOLEAN]
Others == [pct : {"%", "_", "-", "?", "end"}, letter : {""}, digits : {0}, zero : {FALSE}, r : {FALSE},
           delims : {<<>>}, closed : {FALSE}]

MCTokens ==
    Brace({"s", "l", "o", "d", "i", "p", "v", "h", "c", "r", "t", "D", "x", ""},
          {<<>>, <<".">>, <<"-">>, <<".", "-">>, <<"-", "-">>})
    \cup Others
MCIpTokens == Brace({"i", "I"}, {<<>>})
MCPTokens == Brace({"p"}, {<<>>})
(* %{d0} and %{d0r}: a written zero transformer.                         *)
MCZeroTokens == [pct : {"{"}, letter : {"d"}, digits : {0}, zero : {TRUE}, r : BOOLEAN,
                 delims : {<<>>}, closed : {TRUE}]
MCClientTokens == MCIpTokens \cup MCPTokens \cup MCZeroTokens
=============================================================================
