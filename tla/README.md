# TLA+ models and proofs of the gateway

This directory holds a formal model of the gateway in `../src`: a local proxy
between coding agents, browsers and LLM providers that scrubs sensitive text,
flags injected prompts, applies a model policy and reviews the code an agent
writes. Paths below are relative to the repository's root; `proxy.ts:390` means
line 390 of `src/proxy.ts`.

The models are written from the code, not from its documents. Where a model
contradicts a document or a comment, a run shows it (section 6).

## 1. Inventory

The gateway is one Node.js process. Code between two `await`s or callbacks runs
to its end, so every interleaving below is an interleaving at these points.
Hooks are short-lived processes of their own, the extension runs in the page.

| Component | State it keeps | Operations | Hard behaviour | What makes it correct |
|---|---|---|---|---|
| Streaming redactor (`stream-redactor.ts`) | unframed tail `raw`, withheld tail `textTail`, delta template, counts | `push`, `flush` | text cut anywhere, rules switched in mid-stream, block and message ends, broken upstream | nothing of a match goes out in clear; text complete, in order, in its block; exact counts |
| Redaction engine (`redaction.ts`) | rule registry, custom rules, allowlist | `redactText`, `redactJson`, setters | overlap resolution, priority, changes while requests are in flight | the outcome does not depend on how text is cut |
| Proxy pipeline (`proxy.ts`) | per request: where it waits, buffered body; module-level logs | `proxyRequest`, `forward` | failures of classifier, upstream and client that meet; policy changes during a wait | one log entry per request with the status the client saw; no call to a blocked model |
| Prompt guard (`prompt-analyzer.ts`, `prompt-classifier.ts`, `guidance.ts`) | verdict cache | `analyze`, `cacheGet`, `cachePut` | timeout against a late answer; concurrent misses | an outage is never cached; fail open |
| Logs (`traffic-log.ts`, `security-log.ts`) | two rings of 200 | `push`, `recent`, `attachResponse` | rows evicted before their reply arrives; replies joined by text | a reply stands next to its own prompt |
| Model policy (`model-policy.ts`) | blocked flag per model | `setModelBlocked`, `isModelBlocked` | aliases; a switch during a wait | the model that would serve is the one tested |
| OpenAI-Anthropic shim (`openai-anthropic-shim.ts`) | per stream: reframer state | `resolveModel`, translation, SSE reframing | missing or repeated ends of a stream | exactly one finish chunk and one `[DONE]` |
| Code guard (`action-guard-store.ts`, `action-scanner.ts`, `action-code-classifier.ts`, scan and stop hooks) | findings per conversation, capped | scan, pending (read and clear), stop | parallel edits, scans that outlive their hook, restarts, the repair loop | findings of a turn are told; the turn ends |
| Command guard (`command-rules.ts`, `server.ts`) | none | `/command-guard` | must fail closed, beside endpoints that must fail open | an error denies |
| Server dispatch (`server.ts`, `http-utils.ts`, `routing.ts`, `config.ts`) | none beyond one body per request | dispatch, origin checks, body reader | `data`/`end`/`error` after a settled promise | one answer per request |
| Admin store, auth, API (`admin-*.ts`) | persisted configuration with a cache, audit rows, login attempts | upserts, login, approve | several writes per change; sliding window | audit and what is served agree; the window holds |
| MCP server (`mcp.ts`) | map of open sessions | tools, SSE sessions | a message for a closing session | no write to a closed stream |
| Extension: interception (`interceptor-core.js`, `content-main.js`, `redact-client.js`) | re-entry flag, pending submits | submit, redact, rewrite, resubmit | the user types during the waits; two submits share one flag; late answers | what is sent is what was redacted |
| Extension: tripwire, uploads, response capture | per upload or per reply timers | last check on `fetch`, file scrub, settle timer | files scrubbed asynchronously; settle against hard timeout; the policy arrives after the guard is installed | a file is handed over checked or not at all; each turn is filed once, with its own reply |
| Editor hooks: turn log, approvals (`cursor-turn-log-hook.mjs`, `cursor-redact-hook.mjs`) | JSON state files | read, change, write by concurrent processes | lost updates, crash between the POST and the write, caps | no turn lost, few logged twice |
| Editor hooks: guards (other `*-hook.mjs`) | one call each | forward one call | gateway unreachable, slow, or cut off in its answer | commands, reads and tool calls fail closed, prompts fail open |
| Consoles and views, service scripts, demos | none of interest | HTML, process control, samples | - | - |

How they interact:

- A client request enters `server.ts`, which hands it to `proxyRequest`. That
  routes it (possibly through the shim), awaits `analyze`, pushes a row to the
  security log if the prompt is flagged, tests the model policy, scrubs and
  forwards the body, and passes the response through a `StreamRedactor` (event
  streams) or the buffered scrub. It ends with one entry of the traffic log and
  the back-fill of the reply into the row of the security log.
- The consoles and the admin API change rules, allowlist and policy between any
  two of these steps: the setters write the same module-level objects.
- The scan hooks post each edited file; the findings wait in the store until the
  stop hook of the conversation takes them.
- The extension and the Cursor hooks use `/redact`, `/prompt-guard` and
  `/log-turn` of the same server and keep state of their own outside it.

`PROJECT.json` lists every component with the status of its model, and every
hazard at the line where it bites with the properties that cover it.

## 2. Modules

| Module | Models | Checked by | Proved in |
|---|---|---|---|
| `StreamRedactor` | `stream-redactor.ts`, `redactText` of `redaction.ts`, the end and the failure of the upstream in `proxy.ts` | `MCStreamRedactor` (4 runs) | `StreamRedactor_proofs`, `StreamDelivery_proofs` |
| `ProxyPipeline` | `proxyRequest`, `analyze` with its cache, both rings, the policy, the routing decision of the shim | `MCProxyPipeline` (3 runs) | `ProxyPipeline_proofs` |
| `ActionGuard` | scan hooks, the two endpoints, the store, the stop hook | `MCActionGuard` (2 runs) | `ActionGuard_proofs` |
| `SendPromise` | nothing by itself: the abstract specification of what the extension promises, implemented by `Interceptor` | `MCExtension` | `Extension_proofs` |
| `Interceptor` | submit handler, bridge and client, tripwire, policy polls, configuration of the extension | `MCExtension` (run `extension`) | `Extension_proofs` |
| `ReplyCapture` | `captureAndLogTurn` and what it calls | `MCExtension` (run `extension`) | `Extension_proofs` |
| `UploadGuard` | `upload-guard.js`, `upload-core.js`, their installation | `MCExtension` (2 runs) | `Extension_proofs` |
| `EditorHooks` | Cursor's prompt hook and turn-log hook with their files, `/detect`, `/log-turn` | `MCGateway` (run `gateway_hooks`) | `Hooks_proofs`, `TurnLog_proofs` |
| `AdminControl` | surface configuration, rule registry, login window | `MCGateway` | `Gateway_proofs` |
| `GuardEndpoints` | the guard hooks and the endpoints that answer them | `MCGateway` | `Gateway_proofs` |
| `SseReframer` | `AnthropicToOpenAISSE` and its driver in `proxy.ts` | `MCGateway` | `Gateway_proofs` |

Definitions that begin with "Mutant:" in their comment are wrong variants of the
definition that follows them, one for each property: with the variant in place
of the right definition the property is violated. They are not used by any
specification.

### 2.1 StreamRedactor

All text deltas of a response form one channel; a character is its position
`1..TextLen`. `fed` counts the received characters, `cut` the released ones, so
`textTail` is `cut+1..fed`. `template` is the channel of `lastDeltaTemplate`,
`raw` the unframed tail in reads, `matched` the counts.

| Action | Code |
|---|---|
| `TextDelta`, `TerminalTextDelta` | `processEvent` of an event with text, `feed`, and (terminal) the flush in front of it |
| `BlockStop`, `Terminal` | `content_block_stop`; `message_stop`, `finish_reason`, `finishReason`, `[DONE]`; both through `flushPending` |
| `OtherEvent`, `MalformedEvent` | events without text; data that is no JSON |
| `UnframedRead`, `UnframedOverflow` | `push` without a separator, below and over the cap |
| `UpstreamEnd`, `UpstreamError` | `proxy.ts:536-545` |
| `SetRuleEnabled`, `SetAllowlisted` | setters of the registry |

A terminal event that carries text (`openai`, `gemini`) is stored as the delta
template before the tail is flushed (`stream-redactor.ts:200`, `206`). So the
clone that carries the tail carries the end marker as well, in front of the
event itself, and the client is told the end twice (`TerminalStops`).

The boundary of `feed` is `CutRun`: the window, then one pass over the rules in
which each rule may pull the boundary in front of its match (`CutAfterRule`).
`KeptSets` is the overlap resolution of `redactText`.

What the rules match is data. A *hit* names a rule and three positions: the
pattern recognises it in any slice that holds `first..core` and then extends
greedily up to `last` or the end of the slice (`core = last` for a pattern of
fixed extent). A slice that starts behind `first` does not recognise it. So the
model distinguishes what matters for cutting a text: where a match begins, when
it is recognised and how far it reaches.

Limits of this abstraction: a pattern whose recognition depends on what follows
the match (a look-ahead, `\b` at the end of a slice, a validator that rejects a
prefix but accepts the whole) is not a hit; the suffix of a match is never
itself recognised; an allowlist entry covers single hits. `openai` with `n > 1`
shares one channel among its choices, as the code does. Event bodies other than
the text channel are left out: the code forwards non-text events (tool
arguments) unscrubbed (`stream-redactor.ts:220-222`), while `newplan.md:112`
describes a scrub of these as well. At the end of the upstream the code scrubs
only the channel and drops an incomplete event left in `raw`; the model drops
it too.

### 2.2 ProxyPipeline

`pc` says where the handler of each request waits: for the classifier, for the
response headers, for a stream, for a buffered body. One action is the code from
one wait to the next; `Conclude` is the common part from the verdict to the
upstream call (flag, policy, forward). `ClientCloses` and `SetModelBlocked` can
come at any wait. `left`, `answers` and `recorded` are history variables: what
left the machine, what the classifier said in time, how often a request was
logged.

Left out: headers, the scrub of bodies, guidance texts, the reserved `block`
verdict (no category of `guidance.ts` maps to it). The prompt guard and its
second tier are on. An aborted or over-long upstream produces no further event
of its body (`destroy()` without an error after the cap; the abort may still
surface as an error, which `UpstreamBreaks` covers).

### 2.3 ActionGuard

A conversation is "working", or in its stop hook ("asking" the gateway,
"answered" by it), or idle. `scans` holds the scans under way with the hook that
waits for each: "hook" (started, nothing sent yet), "scanning" (the gateway
awaits tier 2), "detached" (the hook has given up, the gateway goes on). `store`
is `actionGuardStore`, `audit` the rows of the security log. A finding is the key
`category|line|message` by which the code compares findings: it does not contain
the file, so equal findings of two files are one.

`Faults` names what may go wrong: a hook that skips, a hook that times out, a
stop hook that cannot reach the gateway, a restart of the gateway.

Cursor has a scan hook but no stop hook in the repository: its findings are only
logged. `loop_limit` and `cap_behavior`, which the pending endpoint returns, are
read by no hook. `CHECKPOINT2_ACTION_GUARD.md:305` wants a failing classifier to
log `action-guard-error`; `scanCode` swallows the failure, so the scan counts as
one without tier 2 findings. The model follows the code.

### 2.4 Extension: SendPromise, Interceptor, ReplyCapture, UploadGuard

**`Interceptor`.** `composer` is the text in the page's composer, `page` the
page's own copy of it, which is what it sends: after a script wrote into the
composer the page takes the change over some time later (`Absorb`). `flow` says
for each submit where its handler waits: "asked" (for the gateway), "written" (for
the 120 ms timer), "over".

| Action | Code |
|---|---|
| `SubmitPasses`, `SubmitKilled`, `SubmitTaken` | `onSubmitEvent`: returns without killing, kills and tells, kills and asks |
| `Answer`, `Refuse`, `Fire` | after the `await`: `writeText`, a refusal, the timer with `fireSubmit` |
| `PageSends`, `Lands`, `LooksRaw` | the page's own send and the wrapped `fetch` and `XMLHttpRequest` of `tripwire.js` |
| `ConfigArrives`, `Poll`, `HealthCheck` | the configuration event, the two 15 s timers |
| `Type`, `OutsideChanges` | the user; the page's design, the administrator, the gateway |

`SendPromise` says what leaves a page without saying how: a redaction of some
text the user sent, unless the extension lets the page send by itself or the
composer is not, at that time, what was written into it. `PromiseKept` is the
refinement: `Interceptor` implements `SendPromise` with `asked`, `open` and
`unsettled` computed from its state. Two things the promise does not say, since
the code does not keep them: that a user's message is sent once (two submits taken
while the first waits are both sent again), and that nothing typed is lost (what
is typed while the gateway is asked is overwritten). What is typed in the 120 ms
before the re-send goes out as typed; then only the tripwire checks it, and only
for bodies that are strings, to the endpoints it lists. A surface switched "off"
passes everything, but the tripwire still aborts what it recognises. What the gateway answers for a text is a
member of `Redactions[t]`, and may be the text itself (a rule is disabled, an entry
of the allowlist covers it): then only the tripwire stops what it recognises.

**`ReplyCapture`.** `watch` is the capture of each turn, `view` the last reply on
the page with how far it has come. `Observed` (the mutation observer) starts and
restarts the settle timer, `Settle` and `HardTimeout` file the turn. A capture that
begins before the reply to the previous message is complete, or that goes on to
its hard timeout, may file a reply that is not its own; `OwnReplyFiled` says under
which condition it is.

**`UploadGuard`.** A pick is one attachment. `Attach` kills the event, `Decide`
reads, checks and rebuilds the next file, `SettleRefused`, `SettleHanded` and
`SettleUnfired` are the three ends of `settle`; `ScrubThrows` is a failure of
`scrubOoxml` outside every `try`. It rejects `decideAll`, nobody catches it, and
the attachment is gone without a notice: `AttachmentsEnd` names it as the one
exception. Rows of unchecked files are filed also when the attachment is then
refused because of another file, as in the code.

Left out: the wire backstop for upload bodies (`tripwire.js:167-278`), a frame
before `content-main.js` runs in it, how a composer is found and learned (it is
`visible` or not).

### 2.5 EditorHooks

`gate` is the prompt hook of a chat (idle, asking, noting), `run` a process of the
turn-log hook with the two files as it read them; `ledger` and `state` are the
files. A process reads a file in one step and writes it in a later one, so two
processes can lose each other's update.

A message carries its words and the files its mentions resolve to; the content of a
file is a text like others, and the same words may resolve to other content the next
time. The code looks at the files of one message only, the prompt under scan
(`cursor-redact-hook.mjs:340`). Pending messages are scanned as words (347-354), the
ledger holds hashes of words (29-31, 44), and `/log-turn` is sent the words of a turn
and the files the transcript shows as attached (`cursor-turn-log-hook.mjs:145-147`,
254-262).

| Action | Code |
|---|---|
| `Submit`, `Deny`, `Pass`, `Approve`, `Noted`, `Send` | `cursor-redact-hook.mjs`: the scans of the prompt, of its files and of the pending words, the verdict, and `rememberApproved` in its two halves |
| `QueueMessage`, `Discard`, `TurnEnds`, `Compact` | the editor, external: a message typed while the agent works skips the hook; the transcript is compacted |
| `StopHook`, `PostTurn`, `PostFails`, `Save`, `Killed` | `cursor-turn-log-hook.mjs`: migration of the old counter and the unlogged turns, `/log-turn`, and the state file |
| `Flip` | the rule is switched in the gateway |

What the code does at its limits, and the model says: a transcript that cannot be
read counts as nothing pending (`cursor-redact-hook.mjs:293`); a text approved
while its rule was off is never flagged later, and neither are its words when they
come with other files; the file of a denied message goes out behind the next clean
prompt; a file that a queued message mentions raises no alarm unless the transcript
shows it as attached; a message denied only because the
gateway was down goes out with the next prompt and is then reported as unchecked
although it had been; the alarm also rings for personal data in the reply alone
(`server.ts:448`); two turns with the same prompt and the same reply are one hash,
also when their attachments differ; a killed or overlapping process logs turns
again, and so does a transcript of more than 500 turns. Left out: text beyond the
256 K that are scanned, mentions beyond twenty, and a prompt that is empty.

### 2.6 AdminControl

`db` is the table of surface configurations, `cache` the module's copy of it,
`audited` the configuration in the newest audit row. `Put` is an answered change,
`PutUnaudited` one whose audit row fails (answered 400; the database keeps the
change, which is served after the next restart), `PutInterrupted` a crash between
the writes, `Restart` the loss of what is only in memory. `rules` is the registry:
`AddRule`, `RemoveRule`, `SwitchRule`. `Login` is the window: `attempts` are the
attempts still in the list of the client (an attempt is known by its number in the
history `admitted`), of which a login drops those outside the window before it counts.

Left out: users, tokens and analytics events, the version counter, allowlist and
model policy. Changes through the gateway's own `/api` write no audit row by
design; changes through the console write it before they change anything, so a
refused change has a row too. Switches of rules do not survive a restart.

`buildRegistry` does not compare names: the environment may name a rule twice, or like
a default (`Repeated`). Then a switch acts on the first rule of that name only.
`DefaultsStay` says that no other name is ever given twice.

A restart forgets the attempts (`admin-auth.ts:112` keeps them in memory), so a window
that spans a restart can see up to the maximum in each of the two processes.
`LoginWindow` bounds the attempts of one process (`forgotten` marks where its history
begins); every refusal is still one that the maximum within the window justifies.

### 2.7 GuardEndpoints

A call is one process of a guard hook. `Invoke` reads its input, `Serve`,
`ServeThrows` and `Refused` are the endpoint (an answer, an exception, an error
status), `Relay` turns an answer into the editor's format, `Unanswered` is a failed
connection or the timeout, `CutOff` an answer that breaks off: `postJson` then
never settles, the event loop runs empty and the hook ends with status 0 and no
output. To Cursor such a hook has crashed, and what that means is set per hook
("silent"). To Claude Code it is the very way in which `claude-code-command-guard-hook.mjs`
allows a command (51-54), so there the decision is "allow" (`Silence`).
`AllowedWasJudged` excepts exactly that command; the hook's header (11-16) does not
(section 6). A content is what the tables of patterns say of it; what lies behind the
size at which a hook cuts its input (64 K of a command) is not judged, and left out.

### 2.8 SseReframer

The chunks a client on the OpenAI path reads. `sent` counts the texts of the
provider, `released` those the redactor has let go: of `StreamRedactor` only its
delay is kept. The code takes the events in any order, and the model too: each
`message_start` tells a role, also when one was told before, and a text behind
`message_stop` is written behind `[DONE]`. `ReframedOnce` holds in every order.
The order that Anthropic documents (one `message_start`, in front of all text; no text
behind `message_stop`) is external to the repository and a history variable,
`orderly`; only for a stream that keeps it does `OneMessage` say that there is one role,
and nothing behind the end.

`MessageStart`, `Delta`, `BlockStop`, `MessageDelta`, `MessageStop` are events, `StreamEnds` is the end of the upstream with `flush`, `StreamBreaks` its
failure. An error the provider reports inside the stream, or an end without
`message_stop`, is told as "stop" with a `[DONE]`; the model agrees with the code
there and `ReframedOnce` does not forbid it. The buffer overflow of the redactor
(`raw`) and the translation of a request or of a whole answer are left out.

## 3. Runs

Each run is listed in `PROJECT.json` with its properties. State counts are
distinct states.

| Run | Shows | Instance |
|---|---|---|
| `stream_anthropic` | `TypeOK`, `NoLeak`, `InOrderDelivery`, `StopAfterText`, `TextStaysInChannel`, `CountsAgree`, `HeldForAReason` on an Anthropic stream | 5 characters, deltas of up to 2, window 2, two blocks, two rules that are switched at any time; 1.07 million |
| `stream_gemini` | `NoLeak`, `LastStopAfterText`, `CountsAgree` when the terminal event may carry text, with malformed and unframed input | as above; 0.75 million |
| `stream_gemini_order` | violation of `InOrderDelivery` | |
| `stream_overlap` | violation of `SameAsWhole` | one text with two overlapping matches |
| `proxy_pipeline` | `TypeOK`, `OneRecordPerRequest`, `LogMatchesReply`, `ResponsePaired`, `CacheHoldsAnswers`, `ForwardedModelAllowed`, `EveryRequestRecorded` | two concurrent requests out of seven kinds, cache and security log of one entry, one policy change; 0.26 million |
| `proxy_policy_local` | violation of `BlockedStaysOnMachine` | |
| `proxy_abandoned` | violation of `AbandonedIsAborted` | |
| `action_guard` | `TypeOK`, `HeldIsAudited`, `TurnFindingsTold`, `TurnEnds` | one conversation, two scans at a time, three findings of which the store holds two, all faults; 54 thousand |
| `action_guard_leftover` | violation of `ClearedAtStop` | no faults |
| `extension` | `InterceptorTypeOK`, `PromiseKept`, `BlockLands`, `OwnReplyFiled`, `EveryTurnFiledOnce`, `UploadTypeOK`, `HandedOverIsVetted`, `AttachmentsEnd` | two submits of three texts (recognised by the tripwire, personal data it does not recognise, clean; a redaction may leave the first as it is), two messages, two changes from outside; two captures among two messages; an attachment of up to two of four files; 0.17 million |
| `upload_policy` | violation of `WarnIsHonoured` | |
| `gateway_hooks` | `TypeOK`, `PendingHeldBack`, `FlaggedWhenLeaked`, `CleanRunCatchesUp`, `LoggedOnceUndisturbed`, `TrailTellsServed`, `DefaultsStay`, `LoginWindow`, `AllowedWasJudged`, `ReframedOnce`, `OneMessage` | one chat, two texts of which the clean one may mention a file with the other, two runs of the turn-log hook, an approval cap of one, two hashes; one surface with three of four modes; one rule of the environment, two defaults, one added; five logins, two per window; one hook call; two starts of a message and three deltas; 0.31 million |

Why the bounds are enough:

- `StreamRedactor`: with a window of 2 in a text of 5, a match begins and ends
  in front of, at and behind the window; the texts hold a greedy match longer
  than the window, exact ones and adjacent ones. The theorems cover all sizes.
- `ProxyPipeline`: two requests overtake each other in every order, and with
  capacity one each push evicts. Interplay of three requests would repeat the
  pairs: requests share only the rings, the cache and the policy.
- `ActionGuard`: two scans land before, between and after the steps of the stop
  hook, and three findings in a store of two make the cap bite. Conversations
  share nothing but slots, so one is enough; the bound "one finding per tier
  and scan" still lets a scan bring two.

- `MCExtension` and `MCGateway` put parts beside each other that share no state; one
  of them moves in a behaviour (`focus`), which leaves out only interleavings of
  steps that commute.
- `Interceptor`: two submits overlap in every order, and one change from outside
  can be undone by a second. `PromiseKept` is proved for any number.
- `ReplyCapture`: the second capture meets the reply of the first in every stage. With
  three messages (0.56 million states) the run passes as well.
- `UploadGuard`: with two files one fails before or after the other is decided; the
  four files are clean, dirty, an Office document and one that cannot be scanned.
- `EditorHooks`: with an approval cap of one the second approval evicts the first,
  and two runs overlap at each of their steps. With two chats (2.34 million
  states), and with three messages but no change of the rule (0.59 million), nothing
  changes; these are not run each time.
- `AdminControl`: surfaces do not interact. Two allowed logins and five attempts in
  a clock of 5 fill the window, empty it and fill it again.
- `GuardEndpoints`: calls do not interact. `SseReframer`: three deltas give withheld
  text in front of, between and behind released text, and two starts a repeated one.

`ProxyPipeline` and `StreamRedactor` stop when all requests or streams are over;
their deadlock check is switched off where that happens (`CHECK_DEADLOCK FALSE`),
as it is for the extension and the hooks, whose bounded users may have done all.
`ActionGuard` never stops and its deadlock check is on.

## 4. Fairness

- `ProxyPipeline`: the analyzer's timer fires (`prompt-analyzer.ts:174-190`), and
  an upstream call progresses, because `forward` destroys it after
  `upstreamTimeoutMs` of silence. Streams are assumed finite: the timeout is one
  of silence, so a provider that sends for ever is not excluded by the code. No
  fairness on the client, the console or the classifier's answer.
- `ActionGuard`: hooks and scans have timeouts (`lib.mjs` 8 s, `withTimeout`), so
  their steps are weakly fair. `Stop` is strongly fair: an agent that again and
  again may stop finally does; what it edits in between is free.
- `Interceptor`: the polling timer and the 120 ms timer fire, and a request to the
  gateway is answered or given up (`redact-client.js`, 4 to 5 s). `BlockLands` needs
  no more; the user, the page and the administrator owe nothing.
- `ReplyCapture`: only the hard timeout is fair, the settle timer need never fire.
- `UploadGuard`: each file is decided, since a read fails or succeeds and a call has
  a timeout; the continuation that settles is a microtask.
- `StreamRedactor`, `EditorHooks`, `AdminControl`, `GuardEndpoints` and `SseReframer` state
  safety only.

## 5. Proofs

The theorems hold for every value of the constants that meets the named
assumptions of the modules: window, text, deltas, blocks, models, requests,
conversations and capacities are arbitrary. The bounds of section 3 are not used.
The assumptions say that bounds are natural numbers (`BoundsAssumption`, the two
`CapAssumption`s; the capacities of rings and cache are not zero), that rules are
named and that one pass of a pattern returns disjoint matches (`RuleAssumption`,
`HitAssumption`: what `RegExp.exec` with the `g` flag does), that `Resolve` maps
models to models (`ModelAssumption`), and that the values that stand for "none"
are none (`RequestAssumption`, `PromptAssumption`). For the extension, the hooks and
the administration: the redactions of a text are texts and what the tripwire, or a rule, recognises
are texts (`TextAssumption`, `HookTextAssumption`), each file has a kind
(`FileAssumption`), the seed of a surface is one of its modes (`SurfaceAssumption`),
the rules of environment and defaults are two sequences (`RegistryAssumption`; names
may repeat), there is at least one chat (`HookTextAssumption`), each stop reason is mapped
(`ReframerAssumption`), and bounds are numbers (`BoundAssumption`,
`HookBoundAssumption`, `WindowAssumption`, `TurnAssumption`). Nothing is assumed of
how good a redaction is: it may leave a text as it is.

| Module | Theorem | Shows | Inductive invariant |
|---|---|---|---|
| `StreamRedactor_proofs` | `TypeCorrect` | `TypeOK` | itself |
| | `NoLeakHolds` | `NoLeak` | `CleanInv` |
| `StreamDelivery_proofs` | `InOrderDeliveryHolds` (anthropic) | `InOrderDelivery` | itself |
| | `StopAfterTextHolds` (anthropic) | `StopAfterText` | `StopInv` |
| | `LastStopAfterTextHolds` (all formats) | `LastStopAfterText` | `LastStopInv` |
| | `TextStaysInChannelHolds` (anthropic) | `TextStaysInChannel` | `ChannelInv` |
| | `HeldForAReasonHolds` | `HeldForAReason` | a step property |
| | `CountsAgreeHolds` | `CountsAgree` | `CountsInv`, with `CleanInv` |
| `ProxyPipeline_proofs` | `TypeCorrect` | `TypeOK` | `TypeInv` |
| | `OneRecordPerRequestHolds`, `LogMatchesReplyHolds` | the traffic log | `LogInv` |
| | `ResponsePairedHolds` | `ResponsePaired` | itself, with `TypeInv` |
| | `ForwardedModelAllowedHolds` | `ForwardedModelAllowed` | a step property |
| | `CacheHoldsAnswersHolds` | `CacheHoldsAnswers` | itself, with `TypeInv` |
| `ActionGuard_proofs` | `TypeCorrect` | `TypeOK` | itself |
| | `TurnFindingsToldHolds` | `TurnFindingsTold` | `ToldInv` |
| | `HeldIsAuditedHolds` | `HeldIsAudited` | itself |
| `Extension_proofs` | `InterceptorTypeCorrect`, `UploadTypeCorrect` | the type invariants | themselves |
| | `PromiseKeptHolds` | `PromiseKept`: `Interceptor` implements `SendPromise` | `TextInv` |
| | `HandedOverIsVettedHolds` | `HandedOverIsVetted` | `VettedInv` |
| | `OwnReplyFiledHolds` | `OwnReplyFiled` | `CaptureInv` |
| | `FiledWhenOverHolds`, `LostToOfficeHolds` | the safety parts of `EveryTurnFiledOnce` and `AttachmentsEnd` | `CaptureInv`, `VettedInv` |
| `Hooks_proofs` | `PendingHeldBackHolds` | `PendingHeldBack` | `PromptInv` |
| | `HooksTypeOKHolds` | `HooksTypeOK`, with the caps of both files | `PromptInv`, `LedgerInv`, `HashesInv` |
| | `FlaggedWhenLeakedHolds` | `FlaggedWhenLeaked` | `FlagInv` |
| `TurnLog_proofs` | `CleanRunCatchesUpHolds` | `CleanRunCatchesUp` | `AccountInv` |
| | `LoggedOnceUndisturbedHolds` | `LoggedOnceUndisturbed` | `ShownInv`, `OnceInv` |
| `Gateway_proofs` | `TrailTellsServedHolds` | `TrailTellsServed` | `TrailInv` |
| | `DefaultsStayHolds` | `DefaultsStay` | `RegistryInv` |
| | `LoginWindowHolds` | `LoginWindow` | `LoginInv` |
| | `AllowedWasJudgedHolds` | `AllowedWasJudged` | `GuardInv` |
| | `ReframedOnceHolds`, `OneMessageHolds` | `ReframedOnce`, `OneMessage` | `ReframerInv` |
| | `PartsBesideEachOther` | the composition behaves as each of its parts | - |
| | `GatewayTypeOKHolds` | `TypeOK` of the composition | those of the parts |

The arguments:

- **NoLeak.** A slice that starts inside a match no longer recognises it, so
  `NoLeak` is not inductive: with the boundary inside a match, the next slice
  shows its rest. `CleanInv` adds that the boundary is never inside a covered
  match. That a delta keeps it so is the core of the proof: the window alone may
  put the boundary into a match, the pass over the rules takes it out
  (`OwnRuleAvoids`), and no later rule puts it back, because the match is isolated
  (`OtherRuleAvoids`). The loop is followed with its least index at which this
  would fail (`LeastNat`, from the well-foundedness of finite sets: induction
  over data is not available). Isolation is what the violation run
  `stream_overlap` shows to be necessary. A slice whose ends avoid the match
  hides it (`SliceHides`, `IsolatedIsMasked`).
- **Delivery.** As to the delivered text every step has one of four shapes
  (`DeliveryShapes`): it releases the channel up to a boundary, does so in two
  slices with the terminal event, flushes, or leaves the text alone. The two
  slices come in the wrong order, which is why order is proved for `anthropic`
  only and violated in `stream_gemini_order`. `StopInv` adds that everything
  released was written. In the two slices an end precedes text, so
  for the other formats `LastStopInv` says only that each end written has one behind all
  text it ends, be it a later one. `ChannelInv` adds that the withheld tail lies in the
  provider's current block, which is the block of the stored template; without it
  a flush could clone an event of another block.
- **Window.** `HeldFrom` says why a boundary may lie where it does. The window alone
  gives a reason, and a rule that moves the boundary leaves one behind, since it
  moves it to the front of a match it straddles (`RuleHasReason`); the least index
  without a reason would contradict that (`RunHasReason`).
- **Counts.** `CountsInv` compares the count of a rule with the number of its matches
  that end in front of the boundary. A slice that avoids all matches counts those
  that end in it (`SliceCounts`); with the slices before it they form disjoint sets,
  whose cardinalities add. That each slice avoids all matches is `CleanInv`, for a
  text without overlaps; that none of them is dropped is `IsolatedIsKept`.
- **Pipeline.** `TypeInv` needs `AnalyzedHasPrompt`: only a request with a prompt
  waits for the classifier, so a flagged row has a prompt. As to the logs a step
  ends a request, takes it to another wait or is silent (`Shapes`). `LogInv` needs
  `LoggedIsDone`: otherwise a status line written later could belong to a logged
  request. Pairing looks at a row before and after the back-fill (`RowPaired`);
  a push shifts the rows by at most one (`PushedIs`).
- **Code guard.** `TurnFindingsTold` speaks of the step in which the stop hook
  reads the answer. `ToldInv` says where the findings are until then: in the
  store, then in the answer (`Collected`); that a scan whose hook still waits runs
  in a working turn, and one that outlived its hook marks the turn as faulty
  (`InFlight`); and that a turn asks once (`AsksOnce`).
- **Extension.** A step that sends must find in the composer what the promise
  allows. `TextInv` says so for the time between writing and re-sending: while a
  submit is "written" and nobody has touched the composer, the composer holds an
  answer of the gateway (or, after the send of another submit, nothing), and the
  answers given never become fewer. Each action then maps to a send, or to a step
  that leaves `left` alone.
- **Captures.** The row of a turn says nothing of the page as it was while the capture
  ran. `CaptureInv` does: a capture that has been quiet sees a reply that is new since
  its beginning, and replies appear in the order of the messages they answer (`ViewInv`).
- **Uploads.** `VettedInv` says of each outcome of a pick under way what it means for
  its file (`DecidedWell`), so that the hand-over, which looks at outcomes only, says
  something about files; and that a guard, once installed, keeps its policy.
- **Prompt hook.** `GateInv` says that whatever the rule recognises in the words of a
  chat, or in the files of the prompt under scan, is among what is still to be scanned,
  so nothing of it is left when the hook lets the prompt pass. `SentInv` says that no
  earlier prompt of the chat has passed: the files of the others were not scanned, and
  the property does not speak of them.
- **Ledger and alarms.** `LedgerInv` says of the ledger and of every copy about to be
  written that they are short and hold only what was let pass; so does `FlagInv` of the
  copy a run of the turn-log hook has read. A message that was never let pass is
  in no copy, however stale, and its turn is flagged. What has passed are words, so
  the property speaks of words, and of the files that the transcript shows.
- **Turn log.** `AccountInv` follows what counts as filed through the state file, the
  copies that runs took of it and their lists: each hash is that of a row, or of a
  turn taken over from the old counter. It holds also when runs overlap and lose each
  other's hashes, since losing a hash is safe. `OnceInv` is about the
  opposite error. Undisturbed, one run at a time works on the file as it is, and what
  was filed is in the file or in the list of that run (`Taken`). The cap of the file
  could still drop a hash; so `Matched` assigns to each hash a turn of its own, by the
  pigeonhole principle the file has no more hashes than there are turns, and the cap
  never cuts.
- **Administration.** `TrailInv` follows the three copies of a configuration with the
  mark of the lost row: "dormant" is in the database behind a filled cache, "live" is
  served. `RegistryInv` says where the custom rules end and which names are repeated, and one
  lemma per operation says what it does to a registry of that shape. `LoginInv` says
  that the list has forgotten nothing this process let through that is still in the
  window, and bounds also the windows that end in the future, which the next login
  will be in.
- **Guard hooks.** `GuardInv` says of each stage of a call which answers and decisions
  can stand there, and what was judged by then. A call that was cut off has the decision
  its kind of hook gives by silence (`CutOffKeeps`).
- **Reframer.** `ReframerInv` says what has been told at each point of a stream: nothing,
  or the role and the texts released so far; and once it is done, in addition the last
  reason and `[DONE]`. What may come behind them in an order the provider does not
  document (roles and texts) leaves `ReframedOnce` intact; `OneMessage` is part of the
  invariant. `ConcatOne` and its companions reduce the writing of several
  chunks to one `Append` after the other.
- **Composition.** `PartsBesideEachOther` shows that a step of the whole is a step of
  one part and a stutter of the others, so each theorem on a part is one on the whole.

The invariants of the hooks' proofs were first run with TLC, on two chats and up to
three runs of the turn-log hook.

Only model-checked: order and channel for the formats other than `anthropic` where they
hold, and liveness, which is out of the prover's reach with everything that needs
`ENABLED`: `EveryRequestRecorded`, `TurnEnds`, `BlockLands`, `EveryTurnFiledOnce`,
`AttachmentsEnd`. What a recursive function computes for every input
would need induction over data, which is out of reach, too. No module declares a
recursive operator: the loop over the rules is a function `c` with `c[i]` defined from
`c[i-1]` (`CutRun`), and overlap resolution is the set characterised by `Keeps`,
so that proofs can speak about them.

## 6. Where code and documents differ

1. `stream_gemini_order`: `stream-redactor.ts:206` writes the withheld tail in
   front of the terminal event although that event still carries text that
   precedes the tail; `newplan.md:114` promises valid order.
2. `stream_overlap`: `feed` scans the rules once; a rule that lowers the boundary
   can move it into a match an earlier rule had passed, whose front is then
   sent in clear. The comment at `stream-redactor.ts:123` says this is deferred.
3. `proxy_policy_local`: the prompt of a request for a blocked model reaches the
   classifier's upstream before the policy refuses it; `model-policy.ts:3` says
   nothing leaves the machine.
4. `proxy_abandoned`: a client that closes during the classification is not
   noticed, since the listener is registered after it.
5. `action_guard_leftover`: the stop hook of a turn it has already continued
   passes without draining the store; findings of the second round are told in
   the next turn. `CHECKPOINT2_ACTION_GUARD.md:323` says they never accumulate
   across turns.
6. `upload_policy`: `content-main.js:548` installs the upload guard before the
   configuration can have arrived, so its policy is "block" (`upload-guard.js:65`),
   and `content-main.js:115` makes every later installation a no-op.
   `extension/CHATGPT_COVERAGE.md:246-249` says that `uploadPolicy: "warn"` in storage
   lets an unreadable file through with a row; `tests/phase-upload.test.ts:270` says
   the policy is reachable from storage.

Met while modelling, without a run of their own. The first four were seen with TLC, by
asking for the stronger property that the document promises:

- `stream-redactor.ts:200` stores a terminal event that carries text as the delta template
  before the tail is flushed as a clone of it (206, 234-240): a `finishReason` precedes
  the event's own text, where `newplan.md:114` promises valid order. `StopAfterText`
  fails in the instance of `stream_gemini`, which checks `LastStopAfterText` instead.
- `claude-code-command-guard-hook.mjs:11-16` says that any error emits a `deny`. If the
  connection breaks inside the answer, `postJson` (`lib.mjs:112-139`) never settles,
  `main()` is not awaited at the top level, and the process ends with status 0 and no
  output: an allow (51-54), also of a command the gateway has denied (`CutOff`).
- `cursor-redact-hook.mjs:285-287` says the hook refuses to send while a blocked message
  is still in the conversation. Mentions are resolved for the new prompt only (340), so
  a prompt that was denied for its file goes out, with the file, behind a clean one.
- `cursor-turn-log-hook.mjs:264-267` says a queued send with personal data surfaces as
  `piiDetected`. Only its words are sent to `/log-turn` (254-262): the data in a file it
  mentions raises no alarm, unless the transcript shows the file as attached.
- `content-main.js:333-334` says a capture never pairs a prompt with another's reply;
  a capture that begins early, or ends at its hard timeout, can (`OwnReplyFiled`
  states when it does not).
- `upload-guard.js:78` says that every failure blocks; when `scrubOoxml` throws, the
  attachment is lost without a notice (`ScrubThrows`).
- `cursor-turn-log-hook.mjs:172-173` says it never logs twice; killed and overlapping
  processes and long transcripts do (`LoggedOnceUndisturbed` states when not).

## 7. Plan

Done: `StreamRedactor`, `ProxyPipeline`, `ActionGuard`, the extension
(`Interceptor` implementing `SendPromise`, `ReplyCapture`, `UploadGuard`), the
editor hooks (`EditorHooks`, `GuardEndpoints`), the administration (`AdminControl`)
and the reframer (`SseReframer`).

Left, in this order:

1. `ProxyStream`: `StreamRedactor` and `SseReframer` composed, with the overflow of
   the unframed buffer, which is lost behind the reframer.
2. An abstract specification of the delivery, as the reader of one block sees it, which
   `StreamRedactor` implements for `anthropic`; and the safety part of `TurnEnds`, as a
   theorem.
3. `attachResponse` of `security-log.ts`: replies joined to rows by text, as an
   action of `ProxyPipeline`.
4. The wire backstop of the tripwire for upload bodies, and the MCP sessions.

## 8. Not modelled

- HTML of the consoles, pure views, type declarations, samples, demonstrations and
  build steps have no state that a property could relate.
- Service scripts start and stop processes and edit files on the host: input and
  output around the operating system, no protocol of their own. Of `lib.mjs` the
  calls to the gateway are modelled.
- The composer and site adapters of the extension are heuristics on page structure;
  what they report (found, written, read) is modelled, how they find it is not.
- The formats of uploads, and the translation of requests and whole answers in the
  shim, are transformations of data without state.
- The tables of patterns (redaction rules, command rules, tier 1 of the scanner, the
  tripwire's) are data: the models take what they match as given.
- The MCP server's tools are stateless, and its map of sessions is read and written
  within one handler.
- Users, tokens and analytics of the administration are single statements on a
  synchronous database.
- Routing by path and the buffering of request bodies in `server.ts` are one
  straight line per request; what fails there is the refusal in `GuardEndpoints`.
