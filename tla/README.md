# TLA+ models of vividscripts-mcp

These modules model the parts of `vividscripts-mcp` that keep state: the OAuth
authorization server, the bearer gate in front of the MCP transport, the start
of the process that serves both, and the in-memory backend behind the tools. TLC
checks them on small instances, and TLAPS proves every safety property that holds
for every instance. Paths below are relative to the repository; `oauth/`,
`adapters/` and `tools/` are directories of `src/vividscripts_mcp/`.

To run a check: `tlc -config RefreshTokens_safety.cfg MCRefreshTokens` (`runs` in
`PROJECT.json` pairs every `.cfg` with its module). To check the proofs:
`tlapm RefreshTokens_proofs.tla`, and likewise the other `*_proofs` modules.

## The system

A Claude Code client registers itself, sends its user through a browser login,
exchanges the resulting code for tokens and then calls MCP tools with an access
token. Tools act on projects that the web editor also edits. The server has two
modes: *offline*, where a mock identity provider logs users in and the server
mints tokens itself, and *broker*, where both are Amazon Cognito's.

| component | code | state | operations | talks to |
|---|---|---|---|---|
| registration | `oauth/dcr.py`, `store.py` | registered clients | register | rate limiter, sessions |
| rate limiter | `oauth/ratelimit.py` | times of recent attempts | check | called by registration |
| authorization requests | `oauth/authorize.py`, `codes.py` | pending requests | authorize; consume | clients |
| logins | `oauth/mock_idp.py`, `callback.py`, `session.py`, `cognito.py` | sessions, codes | mock login; callback (awaits Cognito) | pending requests, codes |
| token endpoint | `oauth/token.py`, `tokens.py` | refresh tokens, tombstones, family index | redeem a code; refresh | codes, clients, signing key or Cognito |
| signing key | `oauth/keys.py` | one key pair per process | get | token endpoint, validator |
| bearer gate | `oauth/metadata.py`, `bearer.py`, `context.py` | context variable per task | let through, admit, reset | signing key or Cognito's key set, tools |
| MCP transport | `server.py`, FastMCP of the MCP SDK | transport sessions (`Mcp-Session-Id`), each a task with a copy of a request's context | open, carry a tool call, close | bearer gate, tools |
| tools | `tools/*.py` | none | one backend call each; `compile_video` two | identity in the transport session's task, backend |
| backend | `adapters/mock.py`, `stepstore.py` | projects, results, jobs, scenes | see *Backend* below | tools, web editor |
| resume runbook | `prompts/definitions.py` | held by the client | the loop the prompt spells out | tools |
| start of a process | `__main__.py`, `server.py`, `oauth/startup_guards.py` | host, flags and seeded session of the process | start, stop | creates all of the above, empty |
| stateless parts | `schemas/`, `prompts/`, `oauth/audit.py`, discovery documents | none | | |

Everything above lives in the memory of one process: a restart forgets it. What
survives is in the hands of clients - cookies, codes, tokens, project ids - and
comes back to a server that does not know it.

What is hard here: anybody may present any id, code or token in any order and
any number of times; the callback awaits Cognito after it has consumed the
request; rotation and revocation maintain three dictionaries that must agree; an
access token goes on working without the refresh token it came with; clocks
expire things at exact seconds and disagree between machines; tools run in a
transport session that keeps the identity it was opened with; the limiter reads
its clock before its lock, and the registration handler waits for a body between
the limiter and the store; duplicated projects share dictionaries;
`compile_video` checks and acts in two steps. `PROJECT.json` lists these as
`hazards`, each at its line.

## The modules

`X.tla` is a component, `MCX.tla` its instance for TLC, `X_proofs.tla` its
theorems. Definitions that end in a suffix (`Pop_Peek`) and are commented as
mutants are deliberately wrong variants used to show that a property can fail;
nothing else refers to them.

**Concurrency.** All HTTP handlers, and the tools, run on one event loop, so a
handler is one step up to its next `await` between two accesses to state. Most
awaits only read the body of the request before any such access. Two do not: the
callback waits for Cognito after it has consumed the request (`AuthFlow`), and
registration reads the body after the limiter and the session gate
(`OfflineServer`). Backend methods hold a lock and are one step each.
Calls that are rejected without changing state are stuttering steps.

### TokenFamilies, RefreshTokens

`TokenFamilies` says what refresh tokens promise: a login opens a family, a
family has at most one usable token, using it renews it, and a refused token
ends the family it belongs to for good. `RefreshTokens` is the code:
`MockRefreshTokenStore` with its dictionaries `_items` (`items`),
`_consumed_families` and `_family_members`, driven by the two grants.
`Grant` is the end of the code grant; `ReplayConsumed`, `RefuseUnknown`,
`RefuseExpired` and `Rotate` are the branches of `consume()`, the last with the
mint and `add()` that follow it without an await. A lost reply and a retry need no
action of their own: the client presents a token again. A record carries the user, the
client and the scope of the login; the scope a refresh form asks for is not read.
The refinement maps a family to its single live token.

### CodeGrants, RedirectUris, AuthFlow

`CodeGrants` says what the code grant promises: a client asks with a challenge, one
login answers, one exchange by that client and on proof of that challenge turns the
answer into tokens; a request that lapsed and an answer that was refused are over.
`RedirectUris` has the two predicates on URIs, as records of the parts
`urlsplit` finds. `AuthFlow` is the flow from registration to the grant, one
action per handler and outcome; `CallbackStart`, `CallbackDone` and
`CallbackFailed` are the broker's callback, cut at its await. `Broker` selects
the mode. Verifiers and challenges are related by an injective `S256`. Every
opaque id (`secrets.token_urlsafe`) is the next serial number, so ids are never
guessed or repeated. History variables record what was registered, authorized,
minted, refused and granted; no guard other than freshness of client ids
reads them. Here registration is one step, as no session of `AuthFlow` ever ends.
The refinement maps a request that is pending or in the hands of a waiting
callback to an open one, so the await of the callback is invisible; a stored code is
the answer to its request, and the grants are the exchanges. The URI and the clock
have no part in it and keep properties of their own. What the browser is sent to is
the query of the URI with the code in it (`SentQuery`): the mock IdP parses the query
and adds a parameter (`Merged`), the callback writes `?code=` behind whatever is there
(`Appended`), which makes the code part of the last value of a query. A query is a list
of parameters and a text a list of words, as no more is needed to tell these apart.

### RollingWindow, RateLimiter

`RollingWindow` admits an attempt exactly when fewer than `Limit` were admitted
in the `Window` before it, and forgets all of them when the process ends.
`RateLimiter` is `GlobalRateLimiter.check` as the
code has it: `ReadClock`, then under the lock trim and `Admit` or `Refuse`. Time
is in ticks of half a second in the runs, because `Retry-After` rounds a float.
`Delay` bounds what a caller loses between clock and lock: 0 on the event loop.

### OfflineServer

The offline server from its command line on; it extends `RateLimiter` with
`Delay` 0. `Start` takes a host, the values of the three environment variables
and a seed, and is enabled when `main()` and `ensure_offline_path_allowed` let
them pass; `Stop` forgets everything. Registration is `Arrive` (the handler asks
the limiter), `RateLimited`, `Unauthorized` or `PassGate` (the session gate) and,
when the body is there, `RegisterClient` or `BadMetadata`. Behind it is only what
leads to a session: `Authorize` leaves a pending request, `LogIn` or
`LoginTooLate` consumes one. Which request it was is `AuthFlow`'s business; here
they are counted.

### Lists, PublicPaths, BearerGate

`Lists` has the list idioms of the code, comprehensions and `list.sort` with a key,
as recursive functions and by what the result is, in a form that proofs can use.
`PublicPaths` is the allow-list on normalized paths; a path is the sequence of
its segments. `Resolved` is what a router that resolves dots would make of it.
`BearerGate` mints tokens (`MintedToken`) or receives Cognito's, validates them
claim by claim (`Accepts`), and models the middleware: a task works on one request
at a time, and what it binds to the context variable it resets when the request
ends, however it ends.

`FastMCP(SERVER_NAME)` (`server.py:121`, mounted at `:322`) is stateful: a request
without an `Mcp-Session-Id` opens a transport session, whose task copies the context
of that request (`OpenTransport`), and every tool called in the session runs there
(`CallTool`), whichever admitted request carries the call; `CloseTransport` is DELETE.
The SDK is not under `src/`; these actions follow how the server builds it. So two
tokens stand behind a tool call, the one that opened the session and the one that
carried the call, and the tool acts for the user of the first. What is promised is that
both were handed out by this server and shown in time (`ToolsRunOnGrantedTokens`).
What is not promised: that they are of one login or one user, or that an identity
fades while its transport session stays open (`BearerGate_transport`).

A JWT is a record; that nobody
forges one is an assumption (RSA), that its key may be an old one under the same
`kid` is modelled. Cognito also issues ID tokens, and tokens for other app
clients of the pool; both are presented to the gate.

### Sessions

Refresh tokens and access tokens together, offline: `Sessions` extends
`RefreshTokens` and instantiates `BearerGate`. `OpenSession` and `RefreshSession`
are the two grants with both of their tokens, `RefuseRefresh` the three refusals,
`GateStep` whatever the gate does meanwhile without asking the store,
`RestartServer` the end of the store and of the key. The history `session` records
for each family the login that opened it, the access tokens handed out for it and
when its client was first turned away. Tools act for a login that took place, the one
whose token opened their transport session (`ToolsActForALogin`). The tokens of a
session that has ended open transport sessions and carry calls for one more lifetime
at most (`EndedSessionsFade`); a transport session they opened before keeps their
identity for as long as any accepted token carries its calls.

### MockBackend

A project is the record of `_ProjectState`. `current_data` maps a step to
`Single` or to a *bucket*, the dictionary of its per-scene results, in a `heap`:
a duplicate copies the map and shares the buckets, as `dict(src.current_data)`
does. A bucket maps the index of a scene to its result, and saving one that is there
replaces it, in every copy that shares the bucket (`Accumulate`, `SaveSceneStep`).
`compile_video` is `CheckCompile`, then `SubmitCompile` or, if the project
was deleted meanwhile, `AbandonCompile`. Web editor and tools are the same
actions with a user each; `Duplicate` and `Delete` are the editor's. A submitted
job is in `jobs` for ever, as in `_jobs`; `SetCustomPrompt` writes the templates
of a user, `SelectMusic` the mood in the settings. `actor`, `compiled` and
`deleted` are history. Names are their lengths: creation always yields a legal one (18
characters stand for `Untitled_Project_n`), a copy adds the five of `_copy`.
`running_job_types` is always empty in this backend and is left out.

### ResumeRunbook

The prompt's loop as a client of `MockBackend`: pick the first media job whose
step is not completed, submit it (through the gate for `compile_video`), poll,
repeat. It starts after any set of prompt results has been saved.

## Runs that pass

| run | what it shows | instance and why it is enough |
|---|---|---|
| `RefreshTokens_safety` | types; index agreement; one usable token per family; replay, however old, ends the family, for good and no other; refinement | 5 tokens, 2 families: two concurrent sessions, one rotated three times, so a replayed token is older than the predecessor; clock to 4 with TTL 2, so tokens expire before and after rotation |
| `AuthFlow_offline` | a code is good for one exchange, whether it succeeds or fails; grants follow one request and go to a registered URI; delivery of the code; ownership of clients | 2 clients, users, verifiers; a loopback URI on two ports and a web URI with a query; 4 ids, so a second request or code can meet a flow that has got as far as its token; a request lasts for its tick and the next, a code for its tick, clock to 2: both expire |
| `AuthFlow_broker` | types; one code per request while callbacks wait; the flow implements `CodeGrants`; no grant after the sum of the lifetimes | 2 clients and users, 4 ids, lifetimes and exchange of 1, clock to 4: past the latest grant there may be (at 3). PKCE, the same code in both modes, has one verifier here and two offline |
| `RateLimiter_threads` | what is lost to the gap before the lock, and no more; honest `Retry-After`; recovery from floods | limit 2, 3 threads, window 1.5 s in half-second ticks, gap of a tick: events really get out of order, and remainders are not whole seconds |
| `OfflineServer` | on a reachable host nobody gets in without all three flags; nobody gets in but through a seed; how many clients a process stores; the limiter is an exact rolling window | 3 hosts: one both loopback tests know, one that only one of them does, one that is reachable; flags `1` and `true`; 2 users, one with a name the command line refuses; 2 callers and a limit of 2 in a window of 2, clock to 3: bodies arrive after their window; 2 starts: cookies of the first process meet the second |
| `Sessions_offline` | tools act for a login, whatever was renewed; an ended session fades within the lifetime of an access token; nobody else can end a session; granted tokens only | 2 families and users, 3 refresh tokens: one session is renewed or both are open; access tokens last 1, refresh tokens 2, clock to 3; a restart; one transport session, so that it is opened with one token and carries a call with another |
| `BearerGate_broker` | only this client's access tokens work, and they always do, be it to open a transport session or to carry a call; identity of the middleware's task; no spelling of a path avoids the gate | 2 app clients, 2 key descriptions, a clock that is ahead, 7 spellings, a restart, expiry, one transport session |
| `MockBackend_data` | no step or scene loses its result, and a call replaces no result but that of the scene it saves; users do not affect each other; results and steps agree; an index names one scene, an id one project | 2 users, 2 projects, so a copy that shares a bucket with its source, or a new project after a deletion; 1 step, single or for 2 scenes, with 2 results, so a save replaces one; scene indices to 1: removal at either end and reuse of an index |
| `MockBackend_media` | no compile without its layers; what is shown of the video is the project's own and agrees with the gate | 2 users, 2 projects, so a copy of a project that was compiled, before or after it; jobs for each required layer and a skip of one or none |

The runs have between 100,000 and 1.2 million distinct states, `RefreshTokens_safety`
2,000 up to symmetry. The limiter on the event loop is checked as part of
`OfflineServer` and the offline gate as part of `Sessions_offline`, with what
surrounds them there.

Clocks, ids, processes, requests, projects and scene indices are bounded by
constants that the guards name (`MaxTime`, `MaxSerial`, `MaxTokens`,
`MaxRestarts`, `MaxRequests`, `MaxStarts`, `MaxProjects`, `MaxScene`). No run
needs to turn the deadlock check off: there is always a call left to make.
Symmetry is used for identifiers that no definition distinguishes, and only with
safety properties: invariants, action properties and refinements without
fairness.

## Runs that find a disagreement

Each checks one sentence of the documentation, a comment or a test against the
code and finds it false. The quotations are in `PROJECT.json`, `findings`.

| run | what happens |
|---|---|
| `BearerGate_transport` | `oauth/context.py:4-5` has tools run "in the same asyncio task as the request that triggered them". They run in the task of the transport session: opened with one user's token, it acts for that user also in a call that another's request carries |
| `MockBackend_long_name` | a copy with an illegal name is stored by a call that raises; from then on every `list_projects` of that user raises |
| `ResumeRunbook_stalls` | the runbook repeats its first job for ever, as jobs do not complete steps |

More places where text and code differ were met while modelling. They are plain
to see in the definitions named here, and have no run:

* `oauth/callback.py:16-17`: the browser goes back "to the *client's* registered
  `redirect_uri` with that code". For a URI with a query the callback writes a second
  `?` behind it, which `oauth/mock_idp.py:118-124` explains is malformed, and the
  client gets no `code` (`Appended`); with `Broker` TRUE and such a URI
  `CodeDelivered` fails.
* `docs/auth.md:66`: "The code is consumed on the first successful exchange". A
  failed exchange consumes it as well (`RefuseCode`).
* `oauth/token.py:20-22`: a code is redeemed "with the exact `redirect_uri` it
  was bound to". The loopback matcher ignores the port (`UriBoundTo`).
* `oauth/ratelimit.py:24`: "Thread-safe process-wide rolling-window counter."
  The clock is read before the lock, so called from threads it admits attempts
  up to `Delay` closer (`WindowBound` is exact about it). The server only calls it
  from its event loop, where `Delay` is 0.
* `tests/unit/test_oauth_bearer.py:325`: "A token issued by /oauth/token
  validates". Not if the client asked for a scope that is not on the validator's
  list, which nobody checks before: hence the premise of `GrantedTokensWork`.
* `tests/unit/test_mock_backend.py:128-129`: a completed workflow has no current
  step. `_compute_workflow_status` counts saved names and `_next_step` looks them
  up, and names that `save_step_result` accepts are not all workflow steps.
* `prompts/definitions.py:529-530`: a status `compiled`. `_compute_status` looks
  for a completed step `video_compilation`, which no job adds (`WithJob`).
* `tools/handoff.py:77-78`: the download link "requires the project to have been
  compiled". `get_video_download_url` asks only whether the project exists.
* `docs/tools.md:66`: `get_project` returns a blueprint summary. It looks under
  `blueprint`; the blueprint is saved under `story_blueprint`.
* `docs/tools.md:486` and `:506`: new scenes go after `after_index`, scenes are
  re-indexed, the last one cannot be removed. They go last, keep their numbers,
  and it can (`AddScene`, `RemoveScene`).
* `adapters/mock.py:255`: `has_sfx` is "per-scene SFX presence". `RemoveScene`
  leaves the index in `scenes_with_sfx`, and `NewIndex` hands out the index of a
  removed last scene again: the new scene is shown with its effects, and reads
  the per-scene results that were saved for it. `SfxMeansLayer` is what does
  hold.
* A duplicate shares the dictionaries of per-scene results that exist when it is
  made: what is saved in one of the two later appears in both, and replaces the
  result that the other had for the scene (`SaveSceneStep`). `OthersUnaffected`
  holds because copies stay with their owner, and `ProgressIsKept` says how far it
  goes: the one scene of the one step that is saved.
* `adapters/mock.py:581` counts the completed steps, and more names can be saved
  than there are workflow steps: one more takes a completed workflow back to in
  progress (`WithResult`).
* `adapters/mock.py:449`: `select_music` replaces the settings that `get_project`
  shows; `current_data["settings"]`, which `get_workflow_state` shows, keeps those
  of the creation.
* `adapters/mock.py:572`: the status in the listing looks at completed steps and
  never at `video_status`, which the compile job writes: the two disagree about
  every compiled project (`VideoShownIsReal` is about the second).
* `__main__.py:11-13`: the seed lets one register "without first walking the
  mock-IdP login". There is no walking it first: a login needs a pending request,
  a request a client, and a client a session. Without a seed nobody ever gets in
  (`ColdStart`).
* `__main__.py:50` and `oauth/startup_guards.py:77` decide what a loopback host is,
  with the same list; only the second strips and ignores case. `LOCALHOST` is
  loopback to the start-up guard, and needs the flag for network hosts to the seed.
  `NetworkUseOptedIn` holds all the same, as the stricter one guards the seed.
* `oauth/startup_guards.py:19`: "This module is the chokepoint". `build_app` skips
  it when it is not told a host; the command line always tells.
* `oauth/ratelimit.py:53`: "A rejected attempt is NOT recorded". Those it rejects
  are not; those the session gate rejects afterwards are (`Unauthorized`), and use
  up the ceiling of everybody. The ceiling is one of the process: a restart
  starts a new window (`Forget`).

## Fairness

Only `ResumeRunbook` states fairness: `WF(Client)`, a client that keeps following
the prompt, which is what the sentence it checks is about. Nothing else on this
server must happen eventually: there are no background tasks, and every handler
answers a request somebody chose to make.

## What is proved

For every value of the constants that satisfies the named assumptions, which say
no more than that bounds are numbers, that null values are not members, that a
path is a sequence of strings, and that `mcp` is in lower case:

* **RefreshTokens_proofs** - all properties of the run, and three that need no run
  beside them: a refused token ends its family (`RefusalIsFinal`), user, client and
  scope never change, a call touches one family. The inductive
  invariant `StoreInv` adds to the index agreement that a token belongs to the
  lineage of at most one family, that items and tombstones point to the family
  the token was given to, and that whatever a live family was ever given is its
  live token or tombstoned. Without the last part a replay could hit a token
  the store has forgotten. Action properties and the refinement follow from
  lemmas on what each action does to `LiveTokens`. Tokens and families may be
  infinite sets.
* **AuthFlow_proofs** - all properties of both runs, and that a request
  yields tokens once (`RequestsYieldOneGrant`). `CodesDelivered` has a premise:
  `CodeDelivered` holds offline, whatever the queries, and in the broker if no
  registered URI has one. The invariant
  `FlowInv` says that every pending request, waiting callback and stored code
  comes from an accepted request or a minted code, that a request is in one
  place at a time and in none once it is answered, and that serial numbers bound
  every id in use. `MatchThrough` (the loopback match composes) gives
  `GrantToRegisteredUri`; `FlowsEnd` dates requests, callbacks and codes against
  the request they come from. In the refinement (`Refinement`) a login, offline or
  at the end of a callback, is one lemma, as is a code that is spent, by a grant or
  by a refusal: each rests on the request being in one place only.
* **RateLimiter_proofs** - all properties of the run, for every delay, and for
  delay 0 the exact limit and the refinement of `RollingWindow`. The invariant
  relates the deque to the log of admissions: the events kept are those of the
  last admissions, no later than they and older by at most `Delay`, and what was
  trimmed lies a window back. From it follow the bound (`WindowIsBounded`), room a
  window after the last admission (`FloodsRecover`) and, with what a refusal
  promised (`RefusalInv`), room for whoever comes back then (`RetriesAreHonest`),
  and the longest wait a caller is told (`WaitsAreBounded`).
* **OfflineServer_proofs** - all properties of the run. Every step is a step of
  `RateLimiter` or leaves it alone (`ImplementsLimiter`), so the theorems above
  hold here. `ServerInv` says that sessions start with the seed, clients belong
  to sessions and requests need clients; `BudgetInv` that every client, stored or
  on its way, is an admission of this process, and that the i-th of these needs i
  divided by `Limit` windows.
* **Lists_proofs** - what the operators of `Lists` return. Induction over the
  length of a list is stated for sets of numbers (`Induction`, from the least
  element of a non-empty set): a set of lengths, unlike a predicate, is something a
  lemma can be given. `Growing` satisfies its recursion equation; what is selected
  is in the list, in its order and all of it (`SelectedProperties`); a list whose
  keys ascend is its own sorting (`SortedAlready`).
* **BearerGate_proofs** - all properties of the run, and types. A path that reaches
  the transport once its dots are resolved is not public: without `..` the segments
  that resolve are those that `NormalizePath` keeps (`PlainPathsResolve`), and with
  one the path is denied. The prefixes that are public are not that of the
  transport (`PublicIsNotTransport`), and only public paths pass unchecked
  (`OnlyPublicUnchecked`). The invariant says that an
  access token for this server was granted by it, when and by which key,
  what a running request keeps of the token it showed, and that a transport session
  has the claims of the token that opened it, then in time (`TransportInv`).
  `SkewAssumption` (Cognito
  is ahead by at most the leeway) is used for `GrantedTokensWork` only.
* **Sessions_proofs** - all properties of the run. The composition implements
  `RefreshTokens` and `BearerGate` (`ImplementsStore`, `ImplementsGate`). Theorems
  do not travel through the instance, so `ToolsRunOnGrantedTokens` is proved here
  again from an invariant of its own (`GateGrants`: every token was handed out when
  it says, and what a request or a transport session runs on is signed with the key in
  use). A further
  invariant ties the record of a live refresh token and the claims of every access
  token of a family to the login that opened it, and says that a family whose
  client was not turned away still has its token.
* **MockBackend_proofs** - all properties of both runs. The heart of the invariant is
  who may point where: a bucket is in the heap, is not empty, and is shared by projects
  of one owner only and for one step only (`OneStep`), so that a write through it is
  seen by the owner alone and replaces no result but that of its scene in its step
  (`ReplacedEntry`). Steps come in five shapes (a project is added, goes, changes by
  one call, saves a scene's result, or nothing moves), and each property is
  proved once per shape. Three more invariants go with it: a compile call in
  flight keeps what it has checked (`GateInv`), ready projects have their
  own job (`VideoInv`), and the scenes of every project ascend (`SceneInv`): the new
  index exceeds all others, so that sorting moves nothing, and a removal keeps the
  order of the rest.

Only model-checked: the three findings, which are counterexamples, and among them
`RunbookFinishes`, a liveness property and out of the prover's reach.
Two properties are proved under a premise: `ImplementsRollingWindow` needs `Delay` to
be 0, as on the event loop, and threads that lose time before the lock break it;
`CodeDelivered` needs the offline mode or URIs without a query, and the callback of
the broker breaks it for the others.

## What is not modelled

* Cryptography, HTTP, JSON, routing and rendering. Malformed input is refused
  before any state changes and is a stuttering step, except behind the limiter,
  where it counts (`BadMetadata`).
* `scope` and `state` in `AuthFlow`: they are carried along. The scope of a login
  is followed in `Sessions` and judged in `BearerGate`.
* Cognito itself, beyond what it may answer; the proxied refresh keeps no state
  here. `ExchangeMax` stands for the timeout of the HTTP client.
* The catalogue of prompts and their rendering, the discovery documents, the step
  schemas and the audit log: functions of their input, with nothing that two
  calls could disagree about. `PromptNames` stands for what the schemas accept.
* Magic links and download links: random URLs that nothing here stores or redeems.
* The statuses that readers derive from completed steps, beyond the notes above:
  functions of a state whose growth is `ProgressIsKept`.
* The creation of the signing key at its first use: it happens under a lock, and
  nobody can tell it from a creation at the start of the process.
* The empty step result, which `stepstore.py` cannot tell from an unused bucket:
  no schema behind `save_step_result` accepts it.
* Memory: pending requests, codes, tombstones and jobs that nobody touches are
  never removed.

## Plan

1. `StepStore` alone against a reference definition over small dictionaries,
   with the empty and digit-keyed results, once something can save them.
2. A backend whose jobs run in the background, as `adapters/base.py` allows:
   the gate with running jobs, the runbook against it. It waits for such a
   backend to be in the repository.
3. The runbook as a client of `MockBackend_proofs`: that whatever it does keeps the
   invariants proved there, for any other users beside it.
4. A promise of the backend as `CodeGrants` is one of the flow: what a user sees of
   the projects, without the heap.
