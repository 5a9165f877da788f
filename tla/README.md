# TLA+ models of ENMA's SPF / Sender ID evaluator

ENMA is a sendmail milter (`src/enma`) built on a library, `libsidf`
(`src/libsidf`). The library evaluates SPF (RFC 4408) and Sender ID (RFC 4406,
4407) for a connecting client. This directory holds TLA+ modules of that
library's evaluator, the TLC configurations that check them, and `PROJECT.json`.
`PROJECT.json` lists the components, runs, mutants, the map from definitions to
source lines, and the hazards.

## The system's parts and how they interact

| part | source | role |
|---|---|---|
| milter callbacks | `enma/src/enma_mfi.c`, `enma_mfi_ctx.c` | one context per SMTP connection; they collect the HELO, envelope sender and headers, and call the evaluator at end of message |
| SIDF glue | `enma/src/enma_sidf.c` | builds a `SidfRequest` per check (SPF for the envelope, PRA for the headers) and turns the score into an Authentication-Results header |
| evaluator | `libsidf/src/sidfrequest.c` | `SidfRequest_eval` → `checkHost` → `evalDirectives` → one function per mechanism; `include` and `redirect=` recurse into `checkHost` |
| record fetch/selection | `sidfrequest.c` 116-320 | SPF RR, then TXT; keeps the records of the requested scope; exactly one must remain |
| record parser | `libsidf/src/sidfrecord.c` | text → directives and modifiers |
| macros | `libsidf/src/sidfmacro.c` | expands `%{s}`, `%{i}`, `%{p}`, … in domain-specs |
| policy | `libsidf/src/sidfpolicy.c` | lookup budget, local policy, `exp=` lookup, `all` overwrite |
| resolver | `libsidf/src/dnsresolv.c` | wraps libresolv: one typed lookup per record kind, returning a NETDB status and a response the caller frees |
| CIDR match | `libsidf/src/bitmemcmp.c` | compares the leading bits of two addresses for `a`, `mx`, `ip4` and `ip6` |
| configuration | `enma/src/enma_config.c`, `config_loader.c`, `string_util.c`, `syslogtable.c` | `main` loads `g_enma_config` from options, then the file, then defaults, before libmilter starts; the callbacks read `milter.postfix`, `spf.auth` and `sidf.auth` from it |

The evaluator is synchronous and single-threaded. The state of one evaluation
lives in the `SidfRequest`:
- the domain stack `domain` (a `StrArray`);
- `dns_mech_count`, `include_depth`, `redirect_depth` and `local_policy_mode`;
- the explanation.

That state is shared by every level of recursion. The hard parts are the
interactions across those levels:
- a budget spent at one level limits the next level;
- the stack decides loop detection;
- the depth at the moment a record matches decides whether `exp=` applies;
- the local policy resets the counter and guards against running itself again.

## Modules

**`SidfCheckHost`** models the evaluator's control flow step by step. The C
recursion becomes an explicit stack of frames, one per active `checkHost`:

| element | meaning |
|---|---|
| frame `[dom, rec, stage, idx]` | `stage` is `"dirs"` (in `evalDirectives`), `"redirect"` (waiting on a `redirect=`) or `"local"` (in the local policy); `idx` is the loop index `i` |
| `domain` | the `StrArray` domain stack |
| `call` | a pending call of `checkHost(d)` |
| `ret` | a return value on its way back to the caller |

The actions follow the functions:

| action | code |
|---|---|
| `SetSender`, `SetHeloDomain`, `SetIpAddr` | the setters; each may be called any number of times while the request is idle |
| `Reset`, `Free` | `SidfRequest_reset`, `SidfRequest_free` |
| `EvalNoArgs`, `EvalStart` | `SidfRequest_eval` |
| `CheckHostRejected` | `checkDomain`: malformed domain or loop |
| `LookupRecordFailed`, `CheckHostStart` | push the domain, then `lookupRecord` |
| `EvalMechOverBudget`, `EvalMechInclude`, `EvalMechNoMatch`, `EvalMechMatch` | one directive of `evalDirectives`, including `incrementDnsMechCounter` |
| `RecordExhausted`, `EvalModRedirect`, `RedirectOverBudget`, `DefaultNeutral` | what `checkHost` does after the loop |
| `LocalPolicyStart`, `LocalPolicyExhausted` | `evalLocalPolicy` |
| `ReturnFromInclude*`, `ReturnFromRedirect`, `EvalReturn` | the code after the recursive call returns |

Every action that ends a `checkHost` also pops the domain (`PopFrame`), as the
`finally:` label does. The `exp=` lookup is part of the action that decides the
score (`RecordMatched`, `LocalPolicyEnded`).

`Init` is `SidfRequest_new`: nothing bound. The request's life adds two
counters: `mailboxes`, the `InetMailbox` objects the request holds (the one
`setSender` duplicates, or the postmaster@HELO one `eval` builds), and
`resets`, bounded by `MaxResets`. `Reset` leaves `mailboxes` alone, because
`SidfRequest_reset` sets `sender` to NULL before the test that would free it
(`sidfrequest.c:1074`).

Data is abstracted as follows:
- A domain is a model value.
- A parsed record (the zone entry of a domain) is its list of terms
  `[mech, q, target, dns]`, its `redirect=` target and its `exp=` outcome.
- A failed lookup is the score that `lookupRecord` returns.
- `dns` is the resolver status the term's lookup gets, or `"match"` / `"-"`
  for the ip4/ip6/all/ptr outcomes.

**`SidfEvalSpec`** is the abstract specification: what a `SidfRequest`
promises. Inputs are bound while the request is idle, `Eval` is one atomic
step, `Reset` unbinds everything, and `Free` ends the request. Its score and explanation are those of
`CheckHostRef`, a RECURSIVE definition of check_host. In `CheckHostRef`, the
visited set, depths and budget are arguments, not shared mutable state.

**`MC_SidfCheckHost`** instantiates the model. It has four domains, `d4`
malformed, and seven records:
- an include record with `exp=`;
- a redirect;
- an include that loops back through a redirect;
- a pass record whose `mx` gets NXDOMAIN;
- a fail record with `exp=`;
- an error record (`ptr` and `exists` getting `NO_RECOVERY` and `TRY_AGAIN`);
- a record with a malformed redirect and a failing `exp=`.

`d1`, `d2` and `d3` each take any record or any lookup failure, so the initial
states cover all 13,824 combinations of zone, sender, HELO and address family.
The `SidfPolicy` the request was created with is a variable `policy` fixed by
`Init` from the constant set `Policies`. The model checks two policies in one
run: the default one (no local policy, no `all` overwrite) and one with the
local policy `-include:d3` and an `all` overwrite of `softfail`.

**`SidfRecordSelect`** models `SidfRequest_lookupRecord` and what it calls.
`fetch` asks for the SPF RR first when the policy says so, and falls back to TXT
only on NO_DATA. `getSidfScope`/`parseVersion` classify each answer by its version
section. `uniqueByScope` runs a pass for the spf2.0 scopes and then a v=spf1
pass, and the status of `SidfRecord_build` is mapped to a score. A raw record is
abstracted to its version section: `spf1`, `spf2` with a set of scope-ids, or
`other`, plus whether a space follows it. One action, `LookupRecord`, is one
call. Its outcomes are the zone entries `SidfCheckHost` enumerates.

**`SidfRecord`** models `SidfRecord_build` on the text after the version
section. The text is a sequence of symbols. A symbol is a single character
(space, `=`, `:`, `/`, a qualifier, a digit, `%`) or a whole word (a name, a
domain, or one of two address literals), because the parser only ever
branches on the classes of characters. The C functions are operators that
thread a parse state `[stat, dirs, redirect, exp, n]`:

| operator | code |
|---|---|
| `ParseTerms`, `NextTerm`, `SpaceOrEnd`, `SkipSpaces` | the term loop of `SidfRecord_parse` |
| `ParseTerm`, `NameEnd`, `Lookup` | qualifier, name, mechanism / modifier table lookup |
| `ParsebackCidrLength`, `SingleCidrLength`, `DualCidrLength`, `CidrLength` | the cidr-length parse-back from the right, three digits at most |
| `TargetName`, `ParseDomainSpec`, `ParseIpAddr` | the parameter |
| `BuildTerm`, `BuildTermParam`, `AppendTerm` | `SidfRecord_buildTerm`: the required-parameter check, leftover check, append, and modifier slots |
| `Build`, `Released` | `SidfRecord_new`, `SidfRecord_build` and `SidfRecord_free` |

`n` counts allocations. The harness picks `nomem_at`, the allocation that
fails (0: none), so every malloc of the record, its array, each term, each
domain-spec buffer and copy, and each append can fail. One action,
`BuildRecord`, is one call of `SidfRecord_build`.

`RefBuild` is the reference: the RFC 4408 4.6.1 term grammar as sets. A term
is a qualifier, the longest name, then `=` and a modifier value or a
parameter and the longest cidr suffix of its kind. The lengths are then
validated. It uses the lenient domain-spec of spec.md 4.2: any non-empty
text without a bad macro. An empty one (`a:`, `include:`, `a:/24`,
`redirect=`) is an error, as RFC 4408's non-empty `domain-end` requires; the
code agrees, since `SidfMacro_parseMacroString` returns RECORD_NOT_MATCH when
it consumes nothing, and `ParseDomainSpec` gives that status (`NOT_MATCH`),
which `lookupRecord` turns into PermError.

**`InetDomain`** holds `InetDomain_isParent`, `isMatch` and `upward` as
operators on names that are character sequences. A one-step harness calls them
on every pair of names of up to four characters over `{a, A, b, .}`. It
compares the results with label-suffix ancestry computed by splitting at dots.
It also holds `TruncateDomain`, the truncation loop of
`SidfRecord_parseDomainSpec` (`sidfrecord.c` 287-298). While the name is
longer than the limit, the loop steps up with `InetDomain_upward`. The harness
applies it under every limit from 0 to the names' length, standing in for
253.

**`SidfMacro`** models one call of `SidfMacro_parseMacroExpand` on one
macro-expand token `[pct, letter, digits, zero, r, delims, closed]`, where `zero`
means the digits are a written "0":
- the letter table with its exp-only letters;
- the transformers and the delimiter block, with duplicates detected;
- `dupMacroSource` for every letter. `%{i}` follows the C loop byte by byte,
  and the out-of-bounds byte is a nondeterministic value `beyond`. `%{p}` runs
  the three passes over at most `PtrMax` PTR names with each name's forward
  lookup outcome, and the bool conversion of the -1 result.
- the split / reverse / keep-rightmost / join of `expandMacro`;
- the expansion limit.

The character scanner that calls it for every `%` is not modelled.

**`EnmaMilter`** models one SMTP connection as libmilter drives it:
- `mfi_connect`, `mfi_helo`, `mfi_envfrom`, `mfi_header`, `mfi_eom`,
  `mfi_abort` and `mfi_close` are actions, in the order the libmilter contract
  allows. A TEMPFAIL from `connect` or `helo` leaves only `close`; a message
  TEMPFAIL ends the message.
- Every allocation the code checks is a site in `Failures`. A site that fails
  takes the code's error path (`EnmaMfi_tempfail`, `goto cleanup`, …).
- `live` counts the heap objects of each kind the connection owns, so a
  dropped pointer shows as a count left after `mfi_close`.
- `EnmaSpf_evaluate` and `EnmaSidf_evaluate` are operators over the context.
  `EnmaSidf_evaluate` includes `SidfPra_lookup` on the collected headers. The
  score of `SidfRequest_eval` itself is a value or a SysError.
- The MTA's header list is kept beside the milter's state. At eom it
  undergoes `smfi_chgheader` deletions, with sendmail's numbering in which
  deleted fields still count, and `smfi_insheader` at index 0.

**`EnmaConfig`** models `EnmaConfig_setConfig` (`enma_config.c`) over the
17-entry `ConfigEntry_table`:
- `conf` holds every entry with the sentinels of `ConfigLoader_init`
  (`Null` for a string, -1 for the rest). `IsSet` is `ConfigLoader_isSet`, and
  `SetValue` is `ConfigLoader_setValue` with its per-type setters: `Lower`
  and the true/false lists for `setBoolean`, `IsDigits` and a 32-bit `Atoi`
  for `setInteger`, and `LookupByCaseString` over the syslog tables (which
  store the -1 of a failed lookup before failing).
- Strings (option arguments, file lines, values) are sequences of
  single-character strings, so that `StrStrip`, `Strtok` (glibc's
  `strtok_r`, which leaves the value empty, never NULL, for a line without
  `:`) and `LookupEntry` (a prefix match over the entry's name) are
  modelled by what they do.
- `stage` follows `setConfig`: `Getopt` takes one option (`-o` through
  `SetEqualStringOptionValue`, `-c`, `-v`; `-h` and others go to `usage`),
  `GetoptEnd` checks for operands and for `milter.conffile`, `FileOpen`,
  `FileLine`, `FileReadError` and `FileEnd` are `ConfigLoader_setConfigValue`,
  and `SetDefaultValue` is `setDefaultValue` in table order. Every failure
  goes to `failed`, after which `main` exits with `EX_USAGE`.
- `written` (auxiliary) is the set of entries a setter has stored into.

**`Enma`** composes the two as `main` does. `C == INSTANCE EnmaConfig`, and
`M == INSTANCE EnmaMilter` with `postfix`, `spf_auth` and `sidf_auth`
substituted by the three entries of `conf` (`EnmaMilter` declares them as
variables that its actions leave unchanged). The milter takes no step until
the load is `done`, and never after a failed load.

**`DnsResolver`** models `dnsresolv.c` and the three mechanisms that consume
its lookups (`sidfrequest.c` 402-613), with `bitmemcmp`:
- A reply is a record `[rcode, init_ok, an]`: the RCODE or a timeout, whether
  `ns_initparse` accepts it, and the answer section. An RR is `[type, parses,
  fits, val]`: whether `ns_parserr` accepts it, whether its RDLEN suits the
  type (the abstraction of the `rdlen` and `ns_name_uncompress` checks), and
  its value (address bytes, an MX name, a PTR name, TXT RDATA bytes).
- `Query` is `DnsResolver_query` after glibc's `res_nquery`: a non-NOERROR
  RCODE gives the `h_errno` that `rcode2statcode` also uses; an empty answer
  is NO_DATA.
- `Collect` is the answer loop every lookup shares. The heap of a lookup
  (`n` allocations made, `live` blocks held, the records, an overflow flag)
  is threaded through it. Allocation `f` fails, and `m0` says whether
  `malloc(0)` returns NULL. `FormErr` and `NoResource` are the two labels,
  each calling the response's free function (`ResponseFree`).
- `TxtCopy` is the character-string copy loop of `lookupTxtData`. `RRType`
  is its type test, which is `ns_t_txt` for both TXT and SPF lookups.
- `ReverseEntry4/6` are the reverse names `lookupPtr` queries, including the
  pointer arithmetic of the IPv6 loop. `Beyond` is the byte after the address.
- `BitMemCmp` is `bitmemcmp` with the `bitmask` table and the `&` operator of
  `Bitwise`. `ALookupScore`, `MxLoop` and `PtrLoop` are the loops of
  `evalByALookup`, `evalMechMx` and `evalMechPtr`, which also count the blocks
  still held.

The harness makes one call: a lookup (`LookupCall`, `LookupPtrCall`) or a
mechanism (`EvalMechA`, `EvalMx`, `EvalPtr`) on inputs from the constants.
The references (`RefLookup`, `RefReverse`, `RefAddr`, `RefMxWith`,
`RefPtrWith`) state the interface without the code's loops:
- TXT text as RDATA minus the length bytes of its character-string chain;
- prefix equality bit by bit;
- mx as the first exchange that scores;
- ptr as "some capped name under the target resolves to the client".

## Runs

| run | cfg | checks | result |
|---|---|---|---|
| `checkhost_core` | `MC_SidfCheckHost.cfg` | `TypeOK`, `StackDiscipline`, `LookupBudget`, `ExplanationSetOnce`, `RefinesEvalSpec`, `EvalReturns` | pass, 944,344 states |
| `request_reuse_leak` | `MC_SidfCheckHostReuse.cfg` (module `MC_SidfCheckHost`) | `NoLeak` | violation |
| `record_select` | `MC_SidfRecordSelect.cfg` | `TypeOK`, `SelectsUniqueRecord` | pass, 219,024 states |
| `inetdomain` | `MC_InetDomain.cfg` | `TypeOK`, `ParentIsLabelSuffix`, `TruncatesAtLabels` | pass, 231,200 states |
| `macro_transform` | `MC_SidfMacro.cfg` | `MacroTransformPerRFC` | pass, 537,640 states |
| `macro_client` | `MC_SidfMacroClient.cfg` | `MacrosPerSpec` | violation |
| `milter` | `MC_EnmaMilter.cfg` (module `Enma` via `MC_EnmaMilter`) | `TypeOK`, `NoLeak`, `ForgedHeadersRemoved`, `AuthResultsOfThisMessage`, `ConfigPrecedence` | pass, 404,108 states |
| `milter_faults` | `MC_EnmaMilterFaults.cfg` | `EnmaPerSpec` | violation |
| `record_build` | `MC_SidfRecord.cfg` | `TypeOK`, `BuildsPerRFC` | pass, 159,170 states |
| `record_build_edges` | `MC_SidfRecordEdges.cfg` | `BuildsPerRFC` | violation |
| `dns_mechanisms` | `MC_DnsResolver.cfg` | `TypeOK`, `ResolverPerInterface`, `NoLeak`, `AddrMechPerRFC`, `PtrMechPerRFC` | pass, 6,833 states |
| `dns_interface` | `MC_DnsResolverIface.cfg` | `ResolverPerInterface` | violation |

The properties:
- **`StackDiscipline`**: the domain stack equals the frames' domains and has
  no duplicates. Each depth counter equals the number of frames waiting on an
  include, or on a redirect.
- **`LookupBudget`**: no more than `max_dns_mech` DNS mechanisms are evaluated
  (counted since the last reset). PermError for the budget is returned only
  when exactly the budget was used.
- **`ExplanationSetOnce`**: once an evaluation has set the explanation, no
  later step of that evaluation changes it.
- **`EvalReturns`**: every evaluation that starts returns a score, under
  `WF_vars(EvalStep)`.
- **`NoLeak`** (`SidfCheckHost`, a violation run): a freed request holds no
  mailbox. TLC's trace: `SetSender`, `Reset`, `Free`.
- **`RefinesEvalSpec`**: the request implements `SidfEvalSpec`. Every
  evaluation ends with the score and explanation of the recursive reference
  for what is bound, and the setters, reset and free are the abstract ones.
  The mapping hides the running phase (idle to the abstract spec), the
  postmaster sender `eval` fills in, and the explanation under construction.
  This is checked as `Abs!SafetySpec`.
- **`SelectsUniqueRecord`**: `lookupRecord` gives the result of a set-based
  rule (spec.md 4.3): the records whose version names the request's spf2.0
  scope if there are any, else the v=spf1 records. Exactly one is parsed; two
  or more give PermError; none gives None. This holds for every answer of up
  to two records, both resolver paths and all three scopes.
- **`ParentIsLabelSuffix`**: `isParent` holds exactly when the parent's
  labels are the child's last labels (case-insensitive, one trailing dot
  ignored). `isMatch` holds exactly when each name is the other's parent.
- **`TruncatesAtLabels`**: under every limit, the truncated domain-spec is
  the longest suffix of the name that starts a label and fits (RFC 4408 8.1).
  When no non-empty such suffix exists, the result is
  MALICIOUS_MACRO_EXPANSION.
- **`MacroTransformPerRFC`**: every successful expansion is the RFC 4408 8.1
  transformation of its letter's value.
- **`BuildsPerRFC`**: `SidfRecord_build` accepts exactly the records that
  `RefBuild` accepts. It builds the same directives, with the default
  qualifier `+` and default cidr 32/128, and the same `redirect=` and `exp=`
  slots. A failed allocation may turn any outcome into NO_RESOURCE, and
  nothing else can.
- **`MacrosPerSpec`** (a violation run): a written zero transformer
  (`%{d0}`) is refused, as RFC 4408 8.1 and the comment on
  `SidfMacro.transformer` say (`NonzeroTransformer`); `%{i}` of an IPv6 client is
  its 32 dotted nibbles (`DottedIp6IsNibbles`), and `%{p}` follows spec.md 4.1
  (`PValidatedPerSpec`). A DNS error on a forward lookup gives `unknown`, and
  no validated name gives an empty field rather than an error.
- **`ConfigPrecedence`** (`EnmaConfig`): once a setter has stored into an
  entry, no later step changes it, so an option beats the file and the file
  beats the default, and the first of two file lines wins. It fails if
  `setValue` loses its `isSet` check.
- **`EnmaPerSpec`** (a violation run, every allocation failure site on, and
  inputs the loader mishandles): `MilterPerSpec` of the milter (`NoLeak`, an
  allocation failure of the PRA parse is never reported as a PermError
  (`PraNoMemIsSysError`), and the inserted field uses only registered method
  names (`ReportsRegisteredMethods`)), and `ConfigPerDoc` of the loader:
  `ConfigPrecedence`, `KeysExact` (a step changes only the entry its key
  names exactly) and `ColonlessLineRejected` (a file line with a key and no
  `:` fails the load, as the check after `strtok_r` intends). Each of the six
  conjuncts is violated on its own.
- **`ResolverPerInterface`**: every lookup returns what its interface
  promises for the reply:
  - the status of the RCODE;
  - NO_DATA without a record of the type;
  - NO_RECOVERY for a malformed answer;
  - otherwise the decoded records, with no write past a block.
  NETDB_INTERNAL is returned only when an allocation fails, and `lookupPtr`
  queries the RFC reverse name.
- **`NoLeak`** (`DnsResolver`): a failed lookup holds no block, and a
  successful one holds the response and one block per entry. Each mechanism
  has freed every response on each of its returns.
- **`AddrMechPerRFC`**: `a` and `mx` match exactly when an address shares
  the client's first `cidr` bits. For `mx`, the first exchange within
  `max_mxrr_per_mxmech` that scores decides. Errors map as RFC 4408 5
  says.
- **`PtrMechPerRFC`**: `ptr` matches exactly when one of the first
  `max_ptrrr_per_ptrmech` names is at or under the target and resolves to the
  client address. A failing PTR lookup is no match, and a failing A lookup
  skips the name.
- **`NoLeak`**: after `mfi_close` the connection holds no heap object.
- **`ForgedHeadersRemoved`**: the delivered message is the received one minus
  exactly our forged Authentication-Results fields, in order.
- **`AuthResultsOfThisMessage`**: the inserted field has the authserv-id, one
  SPF entry and one Sender ID entry. The Sender ID entry names the field that
  RFC 4407 2 selects; it is a PermError without HELO or without a PRA. This
  also checks `SidfPra_lookup` against a set-based statement of RFC 4407.

The policy with a local policy (`-include:d3`, `all` overwritten to
`softfail`) exercises three things:
- the counter reset;
- the `local_policy_mode` guard;
- ignoring a TempError or PermError from the local policy.

The milter run lets every allocation fail whose failure the code recovers from
without losing memory. Its cfg leaves out two sets of sites, whose leaks
`NoLeak` finds there; `milter_faults` enables both (`MCAllFailures`):
- the sites after `EnmaMfiCtx_new` in `mfi_connect`;
- `SidfRequest_new` in `EnmaSidf_evaluate`.

Each property of a passing run has a mutant in `PROJECT.json`: a plausible
bug in the mapped code that TLC finds.

### Findings (violation runs)

| run | what TLC shows |
|---|---|
| `macro_client` | Four departures, each checked to fail on its own under the same inputs: (0) `%{d0}` expands like `%{d}`, because `SidfMacro_parseTransformers` (`sidfmacro.c:472`) takes strptoul's 0 as "no limit", while the comment at line 57 calls a 0 transformer a grammar error and RFC 4408 8.1 says it MUST be nonzero; (1) `%{i}` of an IPv6 client is 12 nibbles and reads byte 16 past the address, because the loop at `sidfmacro.c:252` advances the pointer three times per pass; (2) with no validated PTR name, `%{p}` fails with `SIDF_STAT_NO_RESOURCE` (SysError) where spec.md 4.1 says the field is empty; (3) a DNS error while validating a PTR name validates it, because the `bool` functions at `sidfmacro.c:125` return -1, which converts to true. |
| `request_reuse_leak` | `SidfRequest_reset` sets `sender` to NULL (`sidfrequest.c:1074`) before `if (NULL != self->sender) InetMailbox_free(...)`, so a request reset between evaluations, as spec.md 3 prescribes, leaks the mailbox of `setSender` or of eval's postmaster default. No caller in `src` reuses a request today. |
| `milter_faults` | Four departures, each checked to fail on its own (TLC's trace for the run shows the first it reaches, the `-o spf.authx` prefix key; each other one was confirmed by checking its conjunct alone): a failure after `EnmaMfiCtx_new` in `mfi_connect` leaks the context (`enma_mfi.c:355`); a failing `SidfRequest_new` in `EnmaSidf_evaluate` leaks `pra_mailbox` (`enma_sidf.c:370`); an allocation failure parsing the PRA mailbox becomes `SIDF=permerror`, because `sidfpra.c:110` tests `p` instead of `errptr`; and the PermError path writes the method as `SIDF` (`enma_sidf.c:355`), while scored results use `senderid`. The loader adds three, each also failing on its own: `milter.timeout: 4294967295` is stored by `atoi` as -1, which `isSet` reads as unset, so the default 7210 overwrites it (`config_loader.c:112`); `-o spf.authx=false` sets `spf.auth`, since `lookupEntry` compares only the entry name's length (`config_loader.c:299`); and a file line `milter.loglevel` with no `:` stores 0, because `strtok_r` never leaves the value NULL (`config_loader.c:344`). |
| `record_build_edges` | Two departures, each checked to fail on its own. (1) A record with no terms after its version (`v=spf1`) is a PermError, because `SidfRecord_parse` parses one term before it tests for the end (`sidfrecord.c:724`) and the empty name is an unsupported mechanism; RFC 4408 4.6.1 allows zero terms, so the result should be Neutral. (2) `parsebackCidrLength` reads at most three digits (`sidfrecord.c:341`). So `a:example.com/0024` builds with the domain-spec `example.com/0024` and /32, and `ip4:192.0.2.1/0024` is a syntax error; RFC 4408 allows `1*DIGIT`, and `/024` builds as /24. |

| `dns_interface` | Four departures, each checked to fail on its own by leaving the others' inputs out: (1) an answer with no record of the queried type (a lone CNAME) is NO_RECOVERY, hence TempError, instead of no data (`dnsresolv.c:216`); (2) a TXT record with RDLEN 0 gets `malloc(0)` and a NUL written past it, or NETDB_INTERNAL if `malloc(0)` returns NULL (`dnsresolv.c:381`); (3) `lookupSpf` keeps only `ns_t_txt` RRs (`dnsresolv.c:361`), so a published type-99 SPF record makes the lookup NO_RECOVERY, and `SidfRequest_fetch` returns TempError under the library's default `lookup_spf_rr` (ENMA itself turns it off); (4) the IPv6 reverse name is 12 nibbles in address order and reads a byte past the address (`dnsresolv.c:446`), the same loop as `%{i}`. |

### Bounds

`SidfCheckHost`:
- `MaxResets = 1` gives a request evaluated, reset, re-bound and evaluated
  again, enough to reach the leak and to check that reset unbinds.
- `MaxDnsMech = 2` makes the budget bite within a chain of three records. The
  reference budget (10) only matters through the same comparison.
- Four domains are enough for a two-level include with a redirect below it, a
  loop through include and redirect, and a malformed target. The longest path
  has every domain on the stack at once.

`SidfRecordSelect`:
- Answers of up to two records are enough for every pair case: duplicate,
  spf1 with spf2, other-scope, and malformed version.

`InetDomain`:
- Names of up to four characters over `{a, A, b, .}` include these cases:
  - a suffix off a label boundary (`b` / `ab`, `a.b` / `aa.b`);
  - case folding;
  - a trailing dot on one side;
  - the empty label.
- Limits 0 to 4 put the limit below, at and above every label boundary of
  those names, including exactly the name's length.

`SidfMacro`:
- Two digits and two delimiters reach a transformer equal to, and larger
  than, the number of parts. They also reach an even count for the reverse
  swap, and a duplicated delimiter.
- `PtrMax = 2` with three PTR names makes the cap drop a name.
- The limit 30 with 10 bytes already written is exceeded only by the
  untruncated IPv6 `%{i}`.

`SidfRecord`:
- The bodies are one term, or one of four first terms (`redirect=`, `exp=`,
  `-all`, an ignored modifier with a bad macro) followed by a term. A term is
  no qualifier or `-`, one of eight names, one of nine parameter forms and one
  of ten cidr suffixes. That gives over 7,000 records covering these cases:
  - every parameter kind and cidr kind;
  - modifiers repeated and qualified;
  - lengths of 0, valid, and over the ip4 and ip6 maximums;
  - `//` with and without an ip4 length;
  - a misplaced `/`;
  - names running into digits;
  - double spaces.
- `MaxAlloc = 10` exceeds the allocations of any two-term record, so every
  single allocation failure happens.

`EnmaMilter`:
- Two messages of up to three fields are needed to see per-message state
  outlive a message.
- Two HELOs exercise the replacement of `helohost`.
- Nine kinds of header field cover forged, foreign and PRA-relevant fields,
  including an empty Sender and a malformed From.

`EnmaConfig` (in the `milter` run): five command lines that load give four
different flag combinations to the milter:
- no option (defaults only);
- `-c` of a file with a comment, a blank line, spaces around key and value,
  upper case, a syslog name and a repeated `spf.auth`;
- `-o` options over a second file that sets the same entries;
- the file named by `-o milter.conffile=`;
- `-v` and a repeated `-o`.
Eight command lines fail: `-o` without `=` or with an empty value, an unknown
key, a bad boolean, a bad syslog priority, a missing file, `-h`, and an
operand. `milter_faults` adds the three inputs of the findings. The file
read error is possible on every line.

`DnsResolver`:
- Replies cover each RCODE, a timeout, an empty answer, a message
  `ns_initparse` rejects, an RR that does not parse (after a good one), a bad
  RDLEN, and RRs of other types before and after the wanted ones.
- The TXT RDATA are all byte strings of one to three bytes over `0..2`. These
  include chains that end exactly at RDLEN, run past it, and hold
  zero-length strings.
- Two-record answers with a bad second record reach the frees of stored
  entries. `MaxAlloc = 3` fails the response, the first entry and the
  second.
- IPv4 clients differ from the answers inside the last octet (`.1`, `.129`,
  `.130`), and IPv6 ones in the 4th and the 16th byte. With every prefix
  length (0-32, 0-128), each value of `bits % 8` is exercised on a byte that
  differs.
- MX and PTR answers are every ordering of up to three distinct names against
  a cap of 2, so the cap drops a name. Each name's A reply is the client,
  another address, or an error.
- PTR names `a.b`, `ab` and `b` against the target `b` cover a subdomain, a
  suffix off a label boundary, and equality.
- The passing run leaves out the four answer kinds of the violation run, so
  that it checks everything else.
- The mechanisms use lookups without allocation failures (the code passes
  them through as SysError). The lookup calls cover those failures.

### Fairness

`SidfCheckHost`'s `Spec` has `WF_vars(EvalStep)`. The evaluator is one
synchronous C call with no waits, so once started it keeps taking steps until
it returns. The setters, reset and free are the caller's choice and get no
fairness; `SidfEvalSpec!SafetySpec` has none either.
The other modules check safety only and have no fairness. Their one-step
harnesses, and `mfi_close`, really stop, so those runs set
`CHECK_DEADLOCK FALSE`; in `Enma` a failed load also stops, as `main`
exits. In `EnmaMilter`, libmilter and the MTA decide which
callback comes next, so no callback is promised to happen.

## Not modelled

- Record-parser details that the symbol alphabet leaves out:
  - case-insensitive names;
  - the inside of an address literal (`inet_ppton` is "the literal or not");
  - cidr lengths of four or more digits in the passing run. The three-digit
    window misreads them, which `record_build_edges` shows.
- `SidfCheckHost` and `SidfRecordSelect` still take the parsed record as
  data. They do not call `SidfRecord`.
- The macro-string scanner (`parseMacroString`, `parseDomainSpec`,
  `parseExplainString`). The 253-byte truncation after it is in
  `InetDomain`, but `SidfRecord` keeps domain-specs as symbols without a
  length.
- `SidfCheckHost` still abstracts each mechanism to a status or match.
  `DnsResolver` checks the `a`, `mx` and `ptr` mechanisms on their own over
  real lookups; the two are not composed.
- `DnsResolver_new`/`free` (`res_ninit`), `getErrorString`, and the bytes
  of names (`ns_name_uncompress` is abstracted to "fits").
- The setters' allocation failures (`strdup`, `InetMailbox_duplicate`) and
  `setIpAddr` with an unknown family (it stores the family, then returns
  false).
- `InetMailbox` and `XParse` parsing: they are built on `XSkip`, whose source
  (`xskip.c`) is not in the repository.
- MTAs other than sendmail in `smfi_chgheader`'s numbering.
- In the configuration loader: `fgets`' split of a line over 511 bytes, the
  `strdup` failure of `setEqualStringOptionValue`, `setLong` (no entry has
  that type) and `ConfigLoader_dump`.
- Daemonizing (`daemonize.c`: fork, setuid, the pid file), logging,
  libresolv itself (`res_nquery` is the `Query` abstraction), and the string
  containers. These are process set-up and I/O, and hold no state a property
  here is about. `strarray.c`, `inetmailbox.c` and `xparse.c` rest on
  `ptrarray.c` and `xskip.c`, which are not in the repository.

## Plan

0. Pass `milter.timeout` and `syslog.*` from `Enma` to the parts that use
   them, once a model of `EnmaMfi_init` or logging asks for them.

1. Drive `SidfRecordSelect`'s build status from `SidfRecord` on the selected
   text instead of a nondeterministic status.
2. Compose the `DnsResolver` mechanisms into `SidfCheckHost`, so that the
   record fetch (`SidfRequest_fetch`'s SPF-then-TXT order) uses the real
   lookups.
