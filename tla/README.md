# TLA+ models of beacon

This directory holds TLA+ specifications of the concurrent and stateful parts
of the beacon mail server that live under `src/`. TLC checks them. Each
module models one component. Each `MC_*.tla` module gives the constants
values, and each `.cfg` file is one TLC run. `PROJECT.json` lists:

- the components, with what is and is not modelled;
- the runs and their expected outcome;
- the mutants that show each checked property can fail;
- the source lines each definition translates;
- the findings;
- the hazards: what is hard to test in this code.

Run a check from this directory:

```
tlc -workers 2 -config CheckDomain_fanin.cfg MC_CheckDomain
```

## 1. The system and its parts

`spec.md` describes a whole mail server: SMTP reception, inbound
authentication, the delivery queue, the SMTP client, policy lookups, and
correlation ids with shutdown. Most of that code is not in this repository's
`src/`. What `src/` has, and how its parts interact:

| Part | Source | State | Operations | Interacts with |
|---|---|---|---|---|
| Domain check | `webadmin/admin.go` `CheckDomain`, `checkDomain` (413-1481) | the result `r` (one section per check), the WaitGroup `wg`, IPRev's `results` channel, SRVConf's `reqs` and `srvwg` | parse the domain; launch 14 goroutines (DNSSEC, IPRev, MX, TLS, DANE, SPF, DKIM, DMARC, host and domain TLSRPT, MTA-STS, SRVConf, autoconfig, autodiscover); `wg.Wait`; return `r` | DNS resolver, TCP dialer, the config (`beacon.Conf`) |
| Web server config | `admin.go` `WebserverConfig`, `WebserverConfigSave` (2007-2067) | the dynamic config in `beacon.Conf` | load the config; compare `oldConf`; check for duplicate redirects; `WebserverConfigSet`; reply with the saved config | other admin sessions (HTTP requests run concurrently) |
| Report views | `admin.go` `TLSReports`, `TLSRPTSummaries`, `TLSReportID`, `DMARCReports`, `DMARCSummaries`, `DMARCReportID` (1564-1743) | none of their own; the records read from the report databases | sort by end then domain; per-domain sums over reports, policies and rows; sort by domain | the report databases (not in `src/`) |
| Admin routing | `admin.go` `handle`, `xcheckf`, `xcheckuserf`, `LoginPrep`, `Login`, `Logout` (148-252) | none of its own; sessions are `webauth`'s | serve the page; refuse non-POST API calls; `webauth.Check` except for login; pass to the sherpa handler; turn errors into user or server error codes | every admin API function |
| Other admin handlers | `admin.go` (domain, account, queue, DNSBL, log-level calls) | databases and config outside `src/` | thin wrappers | - |
| Shutdown | `serve.go` `shutdown` (22-52), `start` | tickers, `beacon.Connections` | `ShutdownCancel`; wait for the connections or 3 s; `ContextCancel` and `Connections.Shutdown`; wait for the connections or 1 s; remove the ctl socket | every connection handler |
| Connection ids | `beacon-/cid.go` | atomic counter, started at `UnixMilli` | `Cid()` = `Add(1)` | listener goroutines |
| Throttling sleep | `beacon-/sleep.go` | a ticker | return on the tick or on `ctx.Done()` | the shutdown context |
| Alignment | `smtpserver/alignment.go` | none (pure) | DKIM loop with `break`, then SPF | DMARC evaluation (not in `src/`) |
| Local DSNs | `smtpserver/dsn.go` `queueDSN` | temp file, queue | compose, DKIM-sign, the UTF-8 variant, write, `queue.Add` | queue (not in `src/`) |
| HTTP client metric | `metrics.go` `httpClientObserve` | Prometheus histogram | classify the result; observe with labels | MTA-STS policy fetching |
| Last known version | `beacon-/lastknown.go` | the file `lastknownversion` | `StoreLastKnown` (`os.WriteFile`); `LastKnown` (read, parse, take the newer version) | the update checker (not in `src/`) |
| TLSRPT databases | `tlsrptdb/db.go` | `ReportDB`, `ResultDB`, `mutex` | `Init`, `Close` | `tlsrptsend` and the report handlers |
| IMAP packing | `imapserver/pack.go` | the connection's output | `pack` and `writeTo` of each token type: atom, quoted string, literal, NIL, number, lists | the IMAP server (not in `src/`) and its clients |
| Local server | `localserve.go` `cmdLocalserve`, `writeLocalConfig`, `localLoadConfig`; `serve.go` `start` | the config directory on disk, the account `beacon` and its mail | create the directory and write each file in turn, removing all on an error; load the config; `start()`; serve until a signal | `shutdown`, the account store and SMTP delivery (not in `src/`) |
| Directory sync | `beaconio/syncdir*.go` | - | `fsync` of a directory | - |

The behaviours that make this code hard to test:

- **Goroutine interleavings in checkDomain.** The MX and STARTTLS
  goroutines both append to `r.MX.Errors`. IPRev's fan-in must receive
  exactly `n` results. SRVConf must wait on `srvwg` before reading. The main
  goroutine must wait on `wg` before returning.
- **Check-then-act across admin requests.** This is the problem in
  `WebserverConfigSave`.
- **Timers racing connection completion during shutdown**, including which
  `select` case fires when several are ready.
- **A crash, or a concurrent read, between truncating and writing
  `lastknownversion`.**
- **Encodings a client must read back**: the choice between atom, quoted
  string and literal in IMAP responses, escaping, and literal lengths in
  bytes, not runes.
- **A wrong variable in an error path** (SRVConf).
- **A directory that outlives the process**: `localserve` writes its
  config one file at a time, removes the whole directory when a step fails,
  and may be killed between two steps.

## 2. Modules and how they correspond to the code

### CheckDomain (`CheckDomain.tla`, instance `MC_CheckDomain.tla`)

**State.**

- `mainPc`, `launched` and `wg` belong to the main goroutine.
- `pc[g]` is the control state of each check goroutine `g`.
- `mxErrors` is `r.MX.Errors`. `pend`, `tmp`, `nhosts`, `hi` and
  `stopAfter` hold the MX and TLS goroutines' loop state and pending `addf`
  calls.
- `spc`, `res`, `n`, `recvd` and `recorded` belong to IPRev: per-IP sender
  goroutines, the expected count, and the receive loop.
- `srvwg`, `reqs` and `srvReport` belong to SRVConf.
- `everAppended` is a history of every error an `addf` call was made with.

**Actions.**

- `StartCheck` (parse the domain, or panic).
- `LaunchCheck` (`wg.Add(1); go ...`, in code order, from `CodeOrder`).
- `WaitChecks` (`wg.Wait(); return r`).
- One action per simple check (`DNSSECCheck` ... `AutodiscoverCheck`), each
  one step that writes only its own section of `r`.
- MX: `MXLookup`, `MXHost` (`lookupIPs` plus the ours/not-ours errors),
  `MXFinish`. `LookupIPsErrors` is `lookupIPs`'s own appends: the lookup
  error, or "Bad IP" for an address `net.ParseIP` rejects. The constant
  `BadAddress` says whether the resolver (outside `src/`) may return one.
  The race run allows it; the fanin and join runs do not, since their
  questions are about the join and not about which errors are appended.
- TLS: `TLSLookup`, `TLSHost` (`lookupIPs(&r.MX.Errors, ...)`),
  `TLSFinish`.
- `AddfRead` and `AddfWrite`: `*l = append(*l, x)` as two steps, a read of
  the slice header and a write of the new one. This turns the data race into
  the lost updates it can cause.
- IPRev: `IPRevSpawn`, `RevLookup(i)`, `IPRevRecv(i)` (the rendezvous of
  the unbuffered send with the receive), `IPRevFinish`.
- SRVConf: `SRVSpawn`, `SRVLookup(s)`, `SRVReport`. `SRVReportOf` keeps the
  code's test of checkDomain's own `err` (`CheckDomainErr`, always nil at
  that point).

DNS answers are small sets of outcomes. Message texts and instructions are
left out, because no property tells them apart.

**Abstract specification and refinement.** `CheckDomainJoin.tla` states
what `checkDomain` promises its caller, as a barrier over the set `Checks`:
the domain is accepted or rejected; once accepted, each check finishes
exactly once, in any order (`Finish(g)`); the result is returned only when
every check has finished (`Return`). `CheckDomain.tla` instantiates it as
`Join` with the refinement mapping

- `phase <- JoinPhase`: `mainPc` with `launch` and `wait` mapped to
  `running`;
- `done <- {g \in Checks : pc[g] = "done"}`.

Every step of the detailed module is then a `Join` step or a stuttering
step: the launches, the MX/TLS loops, IPRev's fan-in and SRVConf's lookups
all leave `phase` and `done` unchanged, and a goroutine's last step is
`Finish(g)`. `CheckDomainRefinesJoin` (`Join!Safety`) and
`CheckDomainImplementsJoin` (`Join!Spec`, with the barrier's weak
fairness) are checked as properties.

### WebserverConfig (`WebserverConfig.tla`)

Each admin session `a` moves through four actions:

1. `Load(a)`: the page reads `webserverConfig()`, and the admin picks a new
   config.
2. `SaveCheck(a)`: the `oldConf` comparison and the duplicate-redirect
   check, with the error paths back to `idle`.
3. `SaveSet(a)`: `beacon.WebserverConfigSet`. When it fails, `xcheckf`
   answers with the error and the config is unchanged.
4. `SaveReturn(a)`: the reply.

Configurations are model values. `overwrote` records a save that replaced
a config that is neither the saving admin's `oldConf` nor its `newConf`:
another admin's change, lost. A save that writes the value already there
is not counted.

### Shutdown (`Shutdown.tla`)

**Time.** `now` counts whole seconds since `ShutdownCancel`. `Tick` advances
it, but not past a timer that is due (`TimerDue`), since the goroutine then
runs within the second.

**The shutdown function.**

- `StartShutdown`: `ShutdownCancel`, then `Connections.Done()`.
- `WaitDone` / `WaitTimeout`: the first `select`. The timeout case includes
  `ContextCancel` and `Connections.Shutdown`.
- `ForcedDone`: the second `select`.
- `SecondThenRemove` / `ForcedSecondThenRemove`: `<-second`, then remove
  the ctl socket and return.

**Connections.**

- `Accept(c)` takes `Cid()`.
- `StartCommand`, `FinishCommand`, `Close` and `Abort` (the socket
  deadline).
- `StartSleep` and `SleepReturn` (`beacon.Sleep`'s `select`).

The connection registry and handlers are not under `src/`. They follow spec
§4.H and are marked `spec_modelled`. After `shutdown` returns the process
exits, so no connection steps are taken after that. The module is
checked as part of `LocalserveProcess`, which runs it inside each serving
process.

### Alignment (`Alignment.tla`)

`DKIMLoop` is the loop of `alignment()` as a RECURSIVE operator, with the
`continue` for non-passing or unsigned results and the `break` on a strict
match. `SPFStep` is the `!strict && spfStatus == pass` step. `AlignmentOf`
is the whole function. `SpecAlignment` is the definition in spec §4.D step 4,
written independently over the set of authenticated identities.
`publicsuffix.Lookup` is the constant function `OrgDomain`. The one action,
`Evaluate`, computes the result for an input chosen in `Init` from every
combination in range.

### LastKnown (`LastKnown.tla`)

- `StoreTruncate` and `StoreWrite` are `os.WriteFile`'s open with `O_TRUNC`
  and its write.
- `CrashDuringWrite` leaves a prefix of the text on disk.
- `LastKnown` is the function's choice between the running and the stored
  version.

The version text is modelled character by character (`VersionString`,
`ParseVersion`), because what a reader sees after a partial write is a
prefix of it. `updates.Version`'s String, Parse and After are outside
`src/`. They are modelled from their contract and marked `spec_modelled`.

### ImapPack (`ImapPack.tla`)

A string is a sequence of runes from a small alphabet. `Encode` gives each
rune's UTF-8 bytes, and the wire is a sequence of bytes. A token is a record
whose `kind` names its Go type.

- `String0`, `Quoted` (dquote), `Astring`, `Syncliteral`, `NilOrString`,
  `Listspace` and `Digits` (`%d`) are the `pack` methods, and `Pack` selects
  by type.
- `WriteTo` differs from `Pack` where the code differs. `readerSizeSyncliteral`
  copies at most `size` bytes, and lists and `concat` write each element in
  turn.
- The two actions, `PackToken` and `WriteToken`, apply `pack` and `writeTo`
  to a token chosen in `Init`, with and without UTF8=ACCEPT.
- `ParseString` and `ParseList` are the reference. They are an independent
  reader for RFC 9051 `string`, `astring`, `nstring` and parenthesised lists
  of `nstring`.

`atomChar` is not under `src/` and is the constant `AtomChars`.

### AdminHandle (`AdminHandle.tla`)

The operators of `handle` and of the error helpers.

- A request is a path, a method and whether `webauth.Check` accepts its
  session. `webauth` is not under `src/`, so its verdict is an input.
- `Route` is `handle`'s chain of early returns: `/` serves the page for
  GET and HEAD; an API path other than `/api/` needs POST; every path but
  `/api/LoginPrep` and `/api/Login` needs the session; API paths go to the
  sherpa handler, and anything else is 404.
- `FunctionOf` is the function the sherpa handler calls.
- `Xcheckf` and `Xcheckuserf` are the codes `xcheckf` and `xcheckuserf`
  panic with: a canceled or expired context is the caller's error.

### ReportViews (`ReportViews.tla`)

- `Init` picks any request (`req`). The API calls are actions guarded by
  `Calls(f)`, which holds when `handle` routes the request to `f`.
- The four views each pick the records `RecordsPeriodDomain` returned to
  them (`records`) and compute their `reply`. `ViewFails` is their error
  paths: the TLS views' `ParseDomain` check and the database error.
- `TLSReportID` and `DMARCReportID` (`ReportIDOf`) look a record up by id,
  treat a record of another domain as absent, and classify the error.
- `Session` is `LoginPrep`, `Login` and `Logout`, with only their outcome:
  the sessions are `webauth`'s. `Doc` is the API documentation at `/api/`.
  `Refused` is `handle` answering without calling the API.
- A behaviour is one request, because the calls share no state of their
  own.
- `SortSlice` is `sort.Slice`. It is not stable, so it may return any
  permutation in which no element is less than one before it.
- `MapValues` is a map's iteration, in any order.
- `TLSAddReport` and `DMARCAddReport` are the loop bodies: the copy out of
  the map, the sums (`AddPolicy`, `AddRow`), and the write-back.
- A TLS report's end is a `time.Time`, modelled as an instant and a
  location. `==` compares both; `After` compares only the instant.
- Strings compare by their position in `DomainTexts`.

The reference properties are written separately, as sums over the records
selected per domain.

### Localserve (`Localserve.tla`)

**State.** The disk: `dir` (the config directory exists), `files` (the
complete files in it: key, certificate, admin password, `beacon.conf`,
`domains.conf`, `receivedid.key`), `account` (`none`, `nopw` without a
password, `pw`) and `mail` (mail was delivered to it). The process: `pc`
(`idle` when none runs, `write`, `config`, `serve`), `step` (the next step
of `writeLocalConfig`, indexed in `WriteSteps`), `initOnly` and
`swallowed`, a history variable: this process's `writeLocalConfig`
recovered a panic value that is not an `error` and returned nil.

**Actions.**

- `InvokeInitOnly` and `Invoke`: `cmdLocalserve` up to the config load.
  With `-initonly` the `os.Stat` only warns, so the config is written again.
  Without it a missing directory is initialised. An existing one is loaded
  by `localLoadConfig` (`LoadConfigOK`), and a failed stat, a failed load or
  `-ip` is fatal.
- `WriteStepOK` and `WriteStepFails`: one step of `writeLocalConfig`. A
  failure after `os.MkdirAll` panics, and the deferred `recover` has two
  outcomes (`localserve.go:216-225`). An `error` value (every `xcheck`
  panics with one) runs `os.RemoveAll(dir)`, and the caller exits fatally.
  Any other value leaves `rerr` nil: nothing is removed and
  `writeLocalConfig` returns nil, so `cmdLocalserve` carries on as if the
  config were written and loaded.
- `LoadedConfig`: the `-loglevel` check, `receivedid.key`, `start()` (each
  of its four initialisations may fail, `StartResults`) and the ctl socket.
- `Deliver`: SMTP delivery to account `beacon` (outside `src/`,
  `spec_modelled`).
- `Signal`: `shutdown` and exit. `Shutdown.tla` models the shutdown itself.
- `Crash`: the process dies. A file `os.WriteFile` was writing may be left
  truncated, which the model treats as missing.

There is no fairness: every step may fail.

### LocalserveProcess (`LocalserveProcess.tla`, instance `MC_LocalserveProcess.tla`)

This module composes `Localserve` and `Shutdown` as the instances `LS` and
`SD`. The two share no variable. They meet at the points where
`cmdLocalserve` hands over to `serve.go`:

- `Setup`: the steps before serving (`LS!Invoke`, `LS!WriteStepOK`, ...).
  No connection exists yet.
- `ConnStep(c)`: a connection step of `Shutdown`, only while `pc = "serve"`,
  because the listeners serve only after `start()` returned.
- `DeliverOn(c)`: a command finishes (`SD!FinishCommand(c)`) with the
  message delivered to account `beacon` (`LS!Deliver`).
- `Signal`: the signal handler starts `shutdown(log)` (`SD!StartShutdown`).
- `ShutdownStep` and `ShutdownTick`: shutdown's selects and the clock.
- `Exit`: once shutdown returned (`spc = "exited"`), `os.Exit`.
- `Crash`: `LS!Crash` at any point.
- `ProcessEnds`: both `Exit` and `Crash` leave the shutdown and connection
  state as a new process starts it.

Shutdown's fairness carries over to the serving process. `Exit` is weakly
fair too: `os.Exit` follows the return of `shutdown`.

, and what they show

| Run (cfg) | Expect | Properties | Bounds and why they suffice |
|---|---|---|---|
| `CheckDomain_join.cfg` | pass | `CheckDomainRefinesJoin` | All 14 goroutines; no MX hosts, IPs or SRV names. The question is whether every goroutine joins `wg.Wait`, in every order, which needs all of them but no data. |
| `CheckDomain_fanin.cfg` | pass | `TypeOK`, `JoinedBeforeRead`, `IPRevReportsEveryLookup`, `CheckCompletes`, `CheckDomainImplementsJoin` | Two IPs (two senders racing for the channel, any subset started), one SRV name, one MX host (both appenders run their full loop), no simple checks. |
| `CheckDomain_race.cfg` | violation | `NoLostMXError` | Two MX hosts, only the MX and TLS goroutines, and the resolver may return an address `net.ParseIP` rejects. |
| `CheckDomain_srverr.cfg` | violation | `SRVLookupErrorReported` | One SRV name. |
| `LocalserveProcess.cfg` | pass | `ExitOnlyDrainedOrCut`, `ServesFromLoadableConfig`, `SignalLeadsToExit` | Processes run one after another with no bound: each set-up, load, serve, shutdown, exit or crash may follow any earlier one. Each process has three connection slots, enough to have one idle, one in a command and one sleeping when the timers fire. The clock is bounded by 4 s, the latest point shutdown can reach. |
| `Alignment.cfg` | pass | `AlignmentMatchesSpec` | Three domains (a subdomain, its organizational domain, an unrelated one) and up to two DKIM results with every status and signature domain. Two results are needed to exercise `break` and ordering. |
| `ImapPack.cfg` | pass | `RoundTrip` | Strings of up to two runes over `a`, `"`, `\\`, CR, `{` and a two-byte rune. This covers the atom, an atom-special, both quoted-specials, a literal-only byte, a multi-byte rune, and the empty string. Each kind of token is checked, with lists of up to two `nilOrString`s, numbers 0, 10 and 2^31-1, and UTF8=ACCEPT on and off. |
| `ReportViews.cfg` | pass | `TLSSummariesMatchReports`, `DMARCSummariesMatchReports`, `ApiCallsAuthenticated` | Every request: the page, `/api/`, each modelled API function and one other path, by GET, HEAD and POST, with and without a session. A report by id of any stored record is asked for under each domain text. Up to two TLS reports of one or two policies. Their domain is one of three texts, two of which are spellings of the same name (`Example.com`, `example.com`), so that reports of one domain written differently must be summed together. Ends are at two instants in two zones, and failure details appear with and without a result type. Up to two DMARC reports over two domains and two end times, one row each, with every disposition, DKIM and SPF result and at most one override reason. Two reports are enough for ties on the end, for two reports of one domain, and for two domains in the summary sort. |
| `ReportViews_tlsorder.cfg` | violation | `TLSReportsOrdered` | The same records. |
| `WebserverConfig_lost.cfg` | violation | `NoLostUpdate` | Two admins and three configs, so that the two saves can write different configs. |
| `LastKnown_crash.cfg` | violation | `LastKnownNotBelowStored` | Versions v0.0.9 and then v0.0.10 while running v0.0.1, so that one text is a prefix of another. |
| `Localserve_initonly.cfg` | violation | `DeliveredMailKept` | The model has no constants. Every invocation, step failure and crash is enabled, unbounded. |

What the passing runs show:

- **CheckDomainRefinesJoin** and **CheckDomainImplementsJoin.**
  `checkDomain` implements the barrier `CheckDomainJoin`. Each check
  finishes once, and the result is returned only after all have finished.
  With fairness, every accepted domain has its result returned.
- **JoinedBeforeRead.** `checkDomain` returns `r` only after every check
  goroutine is done. SRVConf builds its report only after every lookup
  goroutine has written its entry.
- **IPRevReportsEveryLookup.** IPRev records every reverse lookup it started
  before it finishes.
- **CheckCompletes.** `checkDomain` returns, and no per-IP goroutine stays
  blocked on the channel.
- **ExitOnlyDrainedOrCut.** Shutdown exits no sooner than a second after it
  started. It leaves connections open only after the 3 s grace, the context
  cancel, the deadline and one more second.
- **SignalLeadsToExit.** A signalled localserve process ends, even when a
  client holds a command forever.
- **ServesFromLoadableConfig.** A process serves only from a directory that
  `LoadConfig` accepts, unless its own `writeLocalConfig` swallowed a
  non-error panic. This holds even after an earlier process crashed and
  left a file truncated, or swallowed a panic and left the directory half
  written: the next start loads it before serving. The swallowed case is
  excluded because the code has no defence against it. TLC reaches a
  process that serves from such a directory (see §5).
- **AlignmentMatchesSpec.** `alignment()` equals the spec's definition on
  every input in range.
- **RoundTrip.** A client that parses the bytes `pack` returned, or those
  `writeTo` wrote (each literal written in its own steps), reads
  exactly the string's bytes, NIL for `nilOrString("")`, and the same items
  for a list, and it stops at the line's CRLF. For `dquote` this is checked
  only on the strings a quoted string can hold.
- **TLSSummariesMatchReports** and **DMARCSummariesMatchReports.** Each
  domain has exactly one summary, in name order, and its counts are the sums
  over its reports.
- **ApiCallsAuthenticated.** No API function other than `LoginPrep` and
  `Login` runs without a session, and none runs for a method other than
  POST.

Each passing property has a mutant in `PROJECT.json`: a plausible bug in the
code it is about, which TLC then finds. Examples: `wg.Wait` dropped; a
receive loop one short; `Done` called twice; no `<-second`; no timeout
case; the SPF step without `!strict`; the load error of an existing
directory ignored.

The violation runs are the findings:

1. **MX/TLS append race.** The MX and STARTTLS goroutines race on
   `r.MX.Errors` (`admin.go:456`, `:791`). TLC shows an error from one
   goroutine lost by the other's append.
2. **SRV lookup error reported as missing.** SRVConf tests the outer `err`,
   not `req.err` (`admin.go:1383`). A failed lookup is reported as a
   missing record.
3. **Lost update in WebserverConfigSave.** The check and the store are
   separate steps (`admin.go:2046`, `:2060`). Two admins that loaded the
   same config both pass the check, and the second save replaces the
   first admin's different config, which it never loaded.
4. **LastKnown goes backwards.** `LastKnown` can return an older version
   than one already stored: during a write (empty file) or after a crash
   (partial file, which may even parse as another version).
5. **TLS reports out of order.** `TLSReports` compares `time.Time` with
   `==` in its comparator (`admin.go:1580`). Reports that end at the same
   instant, with the end written in different zones, are not ordered by
   domain as the function's comment says.
6. **`localserve -initonly` deletes delivered mail.** With `-initonly`,
   an existing config directory does not stop `writeLocalConfig`
   (`localserve.go:83-93`). If any later step fails, its deferred cleanup
   runs `os.RemoveAll(dir)` on the whole directory (`:223`), including the
   account `beacon` and the mail delivered to it in earlier runs. The
   flag's help says "write configuration files and exit", and the warning
   it logs says "continuing". Nothing says that an existing directory is
   removed.

## 4. Fairness

- **CheckDomain:** `WF_vars(Next)`. Every goroutine is runnable until it
  finishes: Go's scheduler runs runnable goroutines. Every blocking call
  (DNS, TCP dial, STARTTLS) is bounded by the 30 s context that
  `CheckDomain` sets (`admin.go:418`). The only blocking that no context
  bounds is the channel and WaitGroup waits, and those are what
  `CheckCompletes` is about. The abstract `CheckDomainJoin.Spec` asks for
  weak fairness of the barrier's next step. That is the same assumption,
  seen from the caller.
- **Shutdown** (in `LocalserveProcess`):
  - Weak fairness for the shutdown goroutine's steps and for `Tick`: the
    clock advances.
  - Weak fairness for closing an idle connection after `ShutdownCancel`
    (the server refuses new commands) and for `Abort` after the deadline (a
    socket with an immediate deadline fails its I/O).
  - Weak fairness for `SleepReturn` (a ticker with a finite duration fires).
  - No fairness for clients' commands or for the shutdown signal itself.
- **`os.Exit`** after `shutdown` returns: weakly fair.
- **Localserve:** none. Any step may fail or be cut short, and the only
  property checked is a safety property.

## 5. Not modelled, and why

- **Code not in `src/`.** The SMTP session state machine, inbound pipeline,
  SMTP client, queue and policy evaluators (spec §4.A-4.G) are not in this
  repository's `src/`. Only their interfaces that the modelled code calls
  are modelled: connection registry, version parsing.
- **Remaining admin handlers.** Domains, accounts, queue, DNSBL, log
  levels and configuration wrap packages outside `src/`, and their state
  lives there. Only their routing through `handle` is modelled.
- **`start()` in `serve.go`.** Only its outcome is modelled (in
  `Localserve`): which initialisation failed, or none. The calls go into
  packages outside `src/`.
- **Pure I/O or text.** `beaconio.SyncDir` and `doc.go`.
- **`metrics.go`.** `httpClientObserve` passes its label values in the
  order `(pkg, method, result, code)` (`metrics.go:69`), while the
  histogram declares `pkg, method, code, result` (`:37-42`). This is a positional mistake that a
  unit test with a registry finds directly, so no model is kept for it. The
  rest of the file registers collectors.
- **The ctl socket's shutdown.** `cmdLocalserve` hands `servectl` a
  callback that calls `shutdown(log)` (`localserve.go:194`). A ctl command
  could then run `shutdown` alongside the signal handler's. `servectl` is
  not under `src/`, and the spec does not say which commands call the
  callback. The model has only the signal path.
- **`LastKnown`'s error text.** When neither version parses, `LastKnown`
  wraps `err`, the `ReadFile` error, which is nil there
  (`lastknown.go:50`). The message loses the parse error. That is a
  wording mistake in one return, which a unit test shows directly. The
  model keeps that an error is returned.
- **`queueDSN`.** It is a straight-line sequence of calls into `dsn`,
  `beacon`, `store` and `queue`, none of them under `src/`. Its error paths
  all return through one deferred cleanup. One observation is recorded as a
  hazard: a `DKIMSign` error is only logged, so a DSN can be queued unsigned
  (`dsn.go:22`, `:32`), while spec §4.G says DSNs are signed.
- **`tlsrptdb`.** `Init` and `Close` wrap `reportDB` and `resultDB`, which
  are not under `src/`. `Close` has no caller under `src/`.
- **A swallowed panic in `writeLocalConfig`** (`localserve.go:218`).
  `Localserve` models it, and TLC reaches a process serving from a
  directory `LoadConfig` rejects. All twelve runs the project keeps are
  given to other questions, so no violation run records it. The hazard
  list has it, and `ServesFromLoadableConfig` is stated for the other
  processes.
- **Connection ids.** `Cid` is one atomic `Add`, one step in the model, so
  its uniqueness says nothing beyond that step. No property is kept for it.
- **`readerSizeSyncliteral` with a wrong size, and `dquote` of a CR or LF.**
  Their callers are not under `src/`. The model gives readers their true
  size and checks `dquote` on the strings it can quote.

## 6. Plan for further work

In order:

1. **The queue's shutdown** (spec §4.H says in-flight deliveries finish,
   while `serve.go`'s `shutdown` waits only for connections). The queue is
   not under `src/`.
2. **The ctl socket**, once `servectl` is available: two `shutdown` calls
   at once, from the signal handler and from a ctl command.
