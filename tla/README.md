# A verification project for OnMyCompany

OnMyCompany is a self-hosted gateway through which the members of an
organisation, and their AI clients, run provider actions with connections the
organisation owns. This directory models its core in TLA+: TLC checks small
instances of every module, and TLAPS proves every invariant and action property that those
runs find to hold, for every value of the constants.

The program is one TypeScript process on Node (Hono, SQLite, JSON files), with a
second build for Cloudflare Workers (many isolates, D1). JavaScript runs one
continuation at a time, so an action of these modules is what the code does from
one `await` to the next; everything between two awaits of one request may
interleave with everything of the others. That is where this code can go wrong
and where its unit tests hardly reach.

## Inventory

| Component | Source | State | Operations | What is hard | What makes it correct |
|---|---|---|---|---|---|
| Concurrency guard | `server/concurrency-guard.ts`, `withConcurrencyCap` in `server/connect-server.ts` | a global counter, a Map of counters by member | acquire, release | counters separate from what they count; throwing handlers; blank keys | counters equal slots held; caps hold; no spurious 429; capacity returns |
| Idempotent requests | `createRuntimeActionRun` in `server/connect-server.ts`, `server/actions/action-idempotency.ts`, `claim` and `complete` of both stores | `idempotency_records` | claim, dispatch, complete, replay | D1 claims in three statements; crashes; dispatches that outlive their claim | no second dispatch within a lease; replays and refusals have their cause |
| Connections | `connection-service.ts`, `oauth/oauth-credential-refresh-service.ts`, connection stores | `connections` table, Map of refreshes in flight | connect, disconnect, resolve, refresh | row read, awaited on, and used; shared promises; reconnect during refresh | refresh never undoes a person's change; every waiter is answered, with a credential its connection held |
| Member accounts | `company/auth/store.ts`, member routes of `company/routes.ts` | `auth.json`: members, sessions, codes; a cache | login, logout, invite, promote, demote, deactivate, reactivate, remove | unserialised read-edit-write; lazy loads; multi-step routes | always an active admin; deactivation sticks; no session without an account |
| Disable store and write queue | `company/connections/disable-store.ts`, `company/json-write-queue.ts` | a JSON file, a cache, a promise chain | setDisabled, isDisabled, listDisabled | reads outside the queue; failed reads and writes; restarts | no update is wiped; the queue never wedges |
| Action runner | `server/actions/action-runner.ts`, `server/actions/connection-fallback.ts`, `company/quota/tool-run-quota.ts`, run log stores, guard in `server/connect-app.ts` | cooldown Map, `runs` table | policy, guard, candidates, attempts, log, trim | runs steer each other; check-then-act quota; two-statement log | fallback only when allowed; the page is the newest runs; the quota holds |
| Runtime tokens and bindings | `server/storage/runtime-token-service.ts`, `company/auth/token-bindings.ts` | `runtime_tokens`, bindings file | create, bind, resolve, revoke, unbind | create and bind are two steps; routes whose steps may fail halfway; a file reloaded and rewritten without a queue, empty when it cannot be read | a revocation reaches every token its member had; a request runs as the member its token is bound to |
| OAuth flow | `oauth/oauth-flow-service.ts` | `oauth_states` | start, complete | take before exchange; two callbacks; a client changed meanwhile | one state connects at most once, in time, and the grant is recorded with the client that asked for it |
| Team grants | `company/connections/team-grants.ts` | JSON file, cache | setTeamIds, isTeamAllowed | cold loads; checked for one connection, run on another | a team runs only on connections granted to it |
| Organisation configuration | `company/org-config/store.ts`, `onOrgPolicyWrite` in `server/connect-app.ts` | section files, manifest | putSection, importBundle | write then mirror; versions read, then written; reads that fail; a desktop that reads in between | the runtime policy mirrors the last write; one version, one policy |
| Teams, audit events, skills, experts, user data | `company/**` | JSON files | create, update, append, list | as the stores above | as the stores above |
| Transit files | `server/files/*` | files with a time to live | create, read, clean up | sweeps against uploads, reads, deletions | an unexpired file can be read, whole and under its name; a sweep leaves nothing old |
| Workers isolate cache | `server/cloudflare/isolate-promise-cache.ts` | one slot | get | eviction by a late rejection | a newer entry survives; a retry does not meet the failure again |
| Proxy, MCP, HTTP, auth by header | `server/proxy`, `mcp.ts`, `server/connect-server.ts`, `server/api` | none of their own | parse, authorise, dispatch | | |
| Pricing, core helpers, mail | `company/pricing`, `core`, `mail` | none | pure functions, a wire protocol | | |
| Providers | `providers` | none | about a million generated lines | | |

How they interact: a request passes the concurrency guard, then authentication
(runtime token, resolved to a member by its binding), then, with an
`Idempotency-Key`, the claim; then the action runner, which asks the policy, the
team grants and the quota, and calls the connection service for a credential (which
asks the disable store, reads the row and may refresh it) and the provider with it;
it writes the run log; the claim is completed and the slot given back. Members'
logout and deactivation reach the runtime tokens; organisation policy writes reach
the runtime policy; connecting through OAuth ends in the connection service.

## Modules

| Module | Models | Actions and the code they stand for |
|---|---|---|
| `ConcurrencyGuard` | guard and middleware | `Admit`, `Refuse`: `acquire`; `Release`: the closure it returns, called in the middleware's `finally` and idempotent; `PassReadOnly`: GET, HEAD, OPTIONS; `Answer`: the response is out |
| `IdempotencyContract` | what a key promises, with no clock and no table | `Claim`, `Publish`, `Deliver`, `Replay`, `Forget` |
| `Idempotency` | handlers and the table, both stores | `ClaimTransaction` (SQLite), `SampleNow`, `Purge`, `Insert`, `Select` (D1), `Finish`, `Throw`, `Complete`, `Respond`, and `Die` between any two of them |
| `IdempotencyProofs` | theorems about it, and that it implements `IdempotencyContract` | one lemma per action |
| `Connections` | resolution and refresh against connect and disconnect | `Begin`, `CheckDisabled`, `Read`, `UseStored`, `NoRefreshToken`, `Join`, `StartRefresh`, `ProviderIssues`, `ProviderRefuses`, `Store`, `WakeLeader`, `WakeJoiner`; `Connect`, `Disconnect`, `Expire` |
| `ConnectionsProofs` | theorems about it | |
| `MemberAuth` | the auth store and the routes that run its mutations | a request's first read: `Arrive` with a warm cache, or `StartLoad`, `ReadFile` and then `ArriveByLoad` (it goes on) or `Look` (it only reads, or is refused); then for each store call of the route `Refuse`, `OnlyRead`, or `Edit` and, a file write later, `Commit` or `WriteFails`; `Restart`, with the file as the writes left it and the cache cold |
| `MemberAuthProofs` | theorems about it | |
| `DisableStore` | the disable store on `JsonWriteQueue` | `Enqueue`, `StartLoad`, `Load`, `LoadFails`, `EditCached`, `EditLoaded`, `Rename`, `Resolve`, `WriteFails`, `AnswerCached`, `AnswerLoaded`, `Restart` |
| `ActionRunner` | one run from the policy to its log row, and what runs share | `Start`, `Deny`, `Admit`, `ResolveCandidates`, `EndAttempt`, `InsertRow`, `InsertFails`, `Trim`, `Restart` |
| `ActionRunnerProofs` | theorems about it | |
| `RuntimeTokens` | runtime tokens, their table and the file of bindings | `Arrive`; `Create`, `StartBind`; `SwitchOff`, `CloseSessions`, `Revoke`, `Finish` (logout, deactivate, remove), and where these stop halfway `Fails`, `RevokeFails`; `Find`, `Attribute` (a request with a token); `ReadAndEdit`, `NothingToUnbind`, `Truncate`, `Write`, `WriteFails` for `bind` and `unbindAllForMember`; `Login`, `Restart` |
| `RuntimeTokensProofs` | theorems about it | |
| `OAuthFlow` | authorizations and the callbacks they come back with | `Start`, `Take`, `FindClient`, `Exchange`, `Store`; `Configure`, `Consent`, `Restart` |
| `OAuthFlowProofs` | theorems about it | |
| `OrgConfig` | policy writes, versions, the mirror, a desktop that follows | `EmptyPolicy`, `WritePolicy` (`putSection`), `ReadManifest`, `EmptyManifest`, `WriteManifest` (`bumpManifest`), `Mirror` (`onOrgPolicyWrite`), `Fails`, `Restart`; `LayPolicy`, `LayManifest` (`ensureOrgConfigLayout` over a file that is there); `CheckManifest`, `SnapshotVersion`, `SnapshotPolicy` |
| `IsolateCache` | the isolate's one-slot promise cache and its callers | `Join`, `Boot` (`get`), `Settle`, `Evict`, `Answer` |
| `TransitFiles` | transit files on Node, one file operation at a time | `StartUpload` to `WriteMeta` (`create`), `Stat`, `UnlinkOld`, `UnlinkMetaOfOld` (`cleanupExpired`), `StatRead` to `OpenRead` (`read`, `response`), `UnlinkFirst`, `UnlinkSecond` (`delete`), `Restart` |
| `MCIdempotency`, `MCConnections`, `MCMemberAuth`, `MCActionRunner` | instances for TLC: symmetry, views, bounds and the values of constants; `MCActionRunner!MCSpec` keeps to two scenes, the fallback of two runs over three connections and the log of three runs on one | |
| `MCGuardAndQueue`, `MCCompanyStores` | components that share no state, side by side: a behaviour chooses one and leaves the others alone | |
| `GuardAndQueueProofs` | theorems about `ConcurrencyGuard` and `DisableStore` | |
| `CompanyStoresProofs` | theorems about `OrgConfig`, `IsolateCache` and `TransitFiles`, and that all five components of the run keep theirs side by side | |

The modules meet at small interfaces and are kept apart. `Connections` lets the
disable check answer either way (`DisableStore` says when it is right);
`ActionRunner` lets an attempt end with any outcome (`Connections` says how a
credential is found); `OAuthFlow` ends where `Connections!Connect` begins; `RuntimeTokens` takes the sessions that
`MemberAuth` keeps as a set. `ActionRunner` assumes the in-flight cap, which is the theorem `CapsHold` of
`GuardAndQueueProofs`; an `Idempotency` dispatch is one `ActionRunner` run.
`PROJECT.json` maps every definition to the lines it models.

Abstractions worth knowing:

- Hashes and random values are what they distinguish. A credential, in `Connections`,
  is a serial number that is also the revision of the row that holds it: each write
  of the code stores a credential never stored before under a fresh revision.
- Time is a bounded counter, or an event (`Expire`), never a duration in
  milliseconds. `MemberAuth` has no session expiry.
- A file rewritten in place is empty from its truncation to its write, and a shorter text written over a longer one
  leaves an end that does not parse (`RuntimeTokens`, `OrgConfig`). `MemberAuth` only reads its file while its cache is
  cold; what a load may meet there is the text of the last write to end, or one that does not parse, if a write is under way, was cut
  off, or was written over another. Two such writes return in the order of their texts.
- A read of a JSON file may fail at any time, and every store here takes that for an empty file or the default. So loads and reads
  have that outcome in `DisableStore`, `MemberAuth`, `RuntimeTokens` and `OrgConfig`, and in `ActionRunner` a policy that cannot
  be read sets no quota. The store of team grants is not a part of `ActionRunner`.
- `ActionRunner` has two limits: `RunLimit`, the rows that the table keeps (`OMC_RUN_LIMIT`), and `PageLimit`, the rows that a
  quota check asks for (5000). It is given the smaller number.
- `TransitFiles` leaves out errors of `stat` and `unlink` that the code swallows: a sweep then leaves a file for the next one, and a read
  answers that there is none.
- The company stores exist only in the Node build, on SQLite, whose calls return at once; so a table call there is
  part of the step around it. What `api/auth.ts` lets through while no runtime token is stored is left out of `RuntimeTokens`.
- `Withheld`, in `ActionRunner`, are the connections whose grants leave the callers out: all callers are of one team.
- An organisation request in `MemberAuth` makes one change (the route can apply roles
  and status in one request, as two changes in a row), and what the routes do outside
  the auth store, such as revoking runtime tokens, is left out.
- Month and team quotas have the form of the member's daily quota, which stands for
  them. The cap in `ActionRunner` is on runs; an MCP batch that starts several
  runs under one slot is outside its assumption.
- Definitions marked "Seeded fault" are wrong on purpose and not used by the
  specifications. Each is what a plausible mistake would make of the definition
  below it; put in its place, TLC finds a property violated (the list is in
  `PROJECT.json`), which shows that the properties can tell.

## Runs

| Run | Instance | Shows |
|---|---|---|
| `guard_and_queue` | guard: 4 requests, 2 members and the blank key, caps 3 and 2; queue: 2 writers, 1 reader, 2 keys, restarts, failed reads and writes | counters, caps, refusals, and that capacity returns; updates lost only by a load that is late or fails; the queue drains |
| `idempotency` | 3 requests, 2 keys, 2 identities, both stores, lease 2, time to 3 | lease, causes, rows, and that the table implements the contract |
| `idempotency_identity` | 2 requests, 2 tokens | **violation**: a retry with the same documented identity under another token is a conflict |
| `connections` | 2 calls, 1 name, 3 kinds of credential, 4 credentials | grants kept, refreshes shared, answers held, calls end |
| `member_auth` | 2 overlapping requests, 2 members, 2 sessions, restarts, cold loads, files torn or unreadable | an active admin unless a load found no readable text; what lost updates and late loads can and cannot break |
| `member_lost_update` | the same | **violation**: a deactivation answered with success is undone |
| `disable_late_load` | 2 writers, 1 reader, 2 keys | **violation**: a late load wipes an update |
| `action_runner` | fallback: 2 runs, 3 connections, 2 attempts, cooldown 1; log: 3 runs, 1 member and callers without, 2 rows kept and 2 counted, quota 1, cap 2 | who may fall back, and to what; the page is the newest runs; the quota while all rows are counted |
| `quota_evicted` | 3 runs, 2 members, 3 rows kept and 1 counted, cap 1 | **violation**: the quota forgets runs that are off the page it counts |
| `team_grants` | 2 runs, 3 connections, 1 of them withheld | **violation**: a fallback runs on a connection not granted to the caller's team |
| `policy_mirror` | 2 policy writes | **violation**: the policy file and the runtime policy stay apart |
| `company_stores` | OAuth: 2 flows, 2 clients, 2 callbacks, age 1. Tokens: 3 requests, 2 members, 2 tokens. Organisation: 2 writes. Isolate: 2 callers, 2 keys, 4 boots. Files: 2 uploads, 1 read, 1 deletion, age 1, time to 2 | see below |

`company_stores` asks of each component what its hazards call for. OAuth: a state lets one callback through, and what
is stored came in time and names the client that asked. Tokens: when a revocation has run, no token that was the member's
resolves (`RevocationReachesAll`, `DeactivatedKeepOnlySpared`), and a request runs as the member its token was last bound to
(`RunsAsOwner`). These three name their exceptions. `spared` are the tokens that a revocation of their member has missed: their binding
was written while the revocation was between its listing and its unbinding, or when the member had no session any more (unbound but
not revoked, or bound and never revoked); or the revocation could not read the bindings and revoked nothing; or it was a
deactivation that ended between switching the account off and revoking. `disturbed` says that two operations on the file have
overlapped, that one was cut off in a write, or that a token was bound by a request that could not read the bindings, which loses all
others. Organisation: the mirror follows the file unless two writes overlap, one ends half way or the layout writes a default over a
file (`policy_mirror` shows the second); a desktop whose copy has the current version has the current policy, unless a version was lost to
another write or taken by one that could not read the last, a write ended half way, the layout replaced a file, or the copy was made
while `policy.json` could not be read, which lasts until the version changes. Isolate:
a newer entry survives a late rejection, and who was told of a failure does not get it again. Files: within its time an
uploaded file can be read whole, whatever is swept, and a sweep leaves nothing that was too old when it began.

Why the bounds are enough. Every hazard here is a race of two requests over
one piece of shared state, or of one request with a person, a clock or a crash; a
third request only matters where the second one's leftovers must be met by
somebody: an idempotency row (3 requests), the caps (4 requests, so that
both caps are reached by requests of both members), the run log (3 runs, one more than
rows). Two keys, members or names show that one does not disturb the other. The clock
runs one unit past the longest lease, so that every lease is met alive and expired. Four credentials allow a connect, a
refresh, a reconnect and another refresh in one behaviour.
Three token requests allow a token, its revocation and a use or a second binding in between. Two policy writes
overlap in every way; only for a lost version to stand for two policies it takes three, a case that the proof covers (and that
TLC finds without error: 2,881,163 states of `OrgConfig` alone). Boots allow each key to fail and be retried while the other is in the slot; two uploads let the sweep of one
meet the files of the other, at the age where they expire. In `connections` calls happen once each; a caller that comes back would meet
the same map and rows as another caller, and the fourth credential is a refresh's (`LastIsRefreshed`), as a connect in its place could only be
read. In `member_auth` nobody arrives after a change was wiped (`NoMoreArrive`); what is under way then goes on, and `MemberAuthProofs`
has no such bound.

Three runs have a view. That of `member_auth` leaves out of a state who asked, once the request is let in (only a logout uses it
again); the history `off` once a change was wiped, after which nothing that is checked reads it; and what
a request was, when its last text is being written and no history waits for it. `quota_evicted`, and `action_runner` once
all runs are on one connection, leave out what concerns the choice of connections: plan, attempts, cooldowns and the histories about
them. Both also leave out a run that ended without a row, and when a run was checked that counts against no quota. No later step and no property checked there depends on what is left out, so states that agree in the
view agree in what they can do.

The six violations are disagreements between the code and its own documentation; `PROJECT.json` quotes both sides
under `findings`. Four of them have a run that shows what still holds: `DeactivationSticksUnlessWiped`, `WipedOnlyByBadLoad`,
`QuotaHoldsWhileRowsFit` and `PolicyMirroredUnlessCrossed` name the causes of each and hold otherwise.

`CHECK_DEADLOCK FALSE` stands where a model ends on purpose: requests are served once, clocks and serial numbers are bounded.

## Fairness

Liveness is only checked where the code justifies fairness.

- `ConcurrencyGuard`: weak fairness of `Release`. Handlers settle: provider calls are bounded by the
  HTTP client's default header and body timeouts, MCP answers with one JSON response, and `finally` gives the slot back.
- `Connections`: weak fairness of each call's next step. The event loop runs
  every continuation, and the token endpoint's request carries an abort signal with a time limit
  (`oauth/oauth-token.ts:95`).
  Nothing is assumed of people: connects, disconnects and expiry may never happen.
- `DisableStore`: weak fairness of each writer's next step: file operations end, well or badly. Restarts may happen for ever.
  Where `MCGuardAndQueue` lets only the guard move, no writer is under way and this asks for nothing, and the other way round.

The other modules claim no liveness: a crashed handler never ends.

## Proofs

Every invariant and action property of the passing runs is a theorem about the specification it is checked of, for all
values of the constants. Where a module is instantiated, the theorem is about the instance's own specification (such as
`Org!Spec`). A behaviour of the `MCSpec` of `MCConnections`, `MCMemberAuth` or `MCActionRunner`, which only take steps away, is one of the module's
`Spec`, and one of a composed run is one of each part (`PartsMove`), so that all of it also holds of the
specification TLC runs (`SafeSideBySide`, `TypesCorrect`). Each invariant below was checked by TLC before it was proved.

### The guard and the disable store

`GuardAndQueueProofs` proves, for any finite set of requests, any members and any caps:

- `TypeCorrect`, `CountersCorrect`, `CapsHold`: `Spec => []TypeOK`, `[]CountersMatchSlots`, `[]CapsRespected`;
- `RefusalsJustified`: `Spec => RefusedOnlyWhenFull`.

The inductive invariant is the conjunction of the three invariants: the caps are not inductive alone, as
the code tests its counters and not the slots, so a step preserves them only where the counters
are right; the counters are right only while each Map entry exists exactly for the
keys with a slot. The cardinalities are handled by lemmas on adding and removing one request. From the same
invariant a refusal, which the code bases on a counter, is based on the slots.

Of `DisableStore` it proves, for any callers and keys, `StoreTypeCorrect` (`Disable!Spec => []DisableTypeOK`) and
`OnlyBadLoadsWipe` (`[]WipedOnlyByBadLoad`). The queue lets one job work at a time (`Chain`), whatever
was loaded while the cache is still cold is what the file holds, unless a read has failed (`ColdIsFresh`), and so the job at work
always writes the next of what was promised (`Followed`).

### Idempotent requests

`IdempotencyProofs` proves, for any requests, keys, identities, tokens, lifetimes and both stores:

- `TypeCorrect`, `RowsCorrect`: `Spec => []TypeOK`, `[]RowsBelongToOwners`;
- `LeaseCorrect`: `Spec => LeaseHonoured`;
- `AnswersCorrect`: `Spec => []AnswersHaveCause`.

The inductive invariant `IInv` adds two parts to the first two. `Stages` ties a handler's position to its
claim: who has not claimed owns nothing, who runs has not published. `LeaseKept` says that a request whose
lease has not ended still has its row; it is what D1's separate statements could break. It holds
because a row carries the end of its owner's lease (`RowsBelongToOwners`) and a late statement purges
with an older "now", never a newer one. A key is then only taken where there is no row, or an expired one, hence
after its owner's lease. The cause of an answer is the owner named by the row it was read from (`RowIsCause`), and
what makes it a cause never goes away (`CauseLasts`).

It also proves `ContractImplemented`: `Spec => ImplementsContract`. Under the mapping
`keyOf`, `owner`, `got` a purge is the contract's `Forget` of the expired keys; a SQLite claim is `Claim` or `Replay`
that forgets them in the same step; D1's insert is a `Claim` that forgets none; completing is `Publish`, responding
`Deliver`; everything else changes nothing the contract sees. The same invariant is
needed: a stored response is that of the owner the row names.

### OAuth

`OAuthFlowProofs` proves, for any authorizations, clients and callbacks and any age: `TypeCorrect`, `StatesLetOneThrough`
(`Spec => []OneCallbackPerState`) and `GrantsCorrect` (`Spec => []GrantsAreInTimeAndRecorded`). Neither property is
inductive: a callback is the first one through because a state still in the table has let nobody through
(`StatesUntaken`); its grant is in time because it was when the state was taken (`ThroughInTime`), and names the right client because
the client that was read before the exchange is the one recorded after it, and the provider answers no other (`ExchangedByAsker`).

### Connections

`ConnectionsProofs` proves, for any callers, names and kinds of credential and any number of credentials:

- `TypeCorrect`, `GrantsKept`: `Spec => []TypeOK`, `[]LatestGrantKept`;
- `RefreshesShared`, `MapCorrect`: `Spec => []OneRefreshPerRevision`, `[]RefreshMapExact`.

That a name's credential descends from its latest connect needs two more facts: no row, read or refresh holds a
credential not yet issued (`Issued`), so that a connect cannot change what an older credential descends from; and a refresh
about to be stored continues the credential it used (`Descends`), so that the compare-and-set of `updateCredential`, by id and revision,
puts a descendant where its ancestor was. The map is exact because a call is in it from the step that
starts its refresh to the step that wakes it (`MapOfAsked`).

It also proves `AnswersHeld`: `Spec => AnswerWasHeld`. The hard case is a call that joins a refresh which has
already been stored but not yet left the map: it must have read its row before the store, and was therefore there when the new
credential was stored (`SharedHeld`). It can only have done so because the old revision never comes back (`Superseded`), as
what a refresh stores has not been in any row before (`Unstored`), and because a row's id is never that of another name
(`OneNamePerId`).

### Member accounts

`MemberAuthProofs` proves, for any requests, members and sessions, under overlaps, late and failed loads, failed
writes, restarts and torn files:

- `TypeCorrect`, `AdminRemains`, `SessionsCorrect`: `Spec => []TypeOK`, `[]HasActiveAdmin`, `[]SessionsAreActivated`;
- `DeactivationCorrect`: `Spec => []DeactivationSticksUnlessWiped`.

The first three hold of every clone being written, of the file and of whatever a load has read, and not just of the cache
(`AllGood`): each operation takes a sound snapshot to a sound one with an active admin (`EffectSound`, `EffectKeepsAdmin`), so it does
not matter which clone is written last, nor which load comes back last. Only an empty store has no admin, hence the
exception of `HasActiveAdmin`: a load has found no text that it could read and parse. Deactivation is different. It only
sticks while each clone that is not stale is the effect of its operation on the present cache (`FromCache`), the file holds what
the cache does (`WarmIsSaved`), and who is switched off with a session left is about to lose it (`SwitchedOff`), since
`revokeAllSessionsForMember` is never refused. A load that is under way while the cache is cold has read the file as
it still is (`Loads`); one that comes back later counts as having wiped what it replaces.

### The action runner

`ActionRunnerProofs` proves, for any finite set of runs, any members, connections and limits:

- `RunnerTypeCorrect`, `FallbackIsAllowed`: `Spec => []TypeOK`, `[]FallsBackOnlyWhenAllowed`;
- `RunsAreSteered`: `Spec => []LatelyFailedComeLast`;
- `PageIsTheNewest`, `QuotaIsKept`: `Spec => []PageIsNewest`, `[]QuotaHoldsWhileRowsFit`.

The attempts of a run are a prefix of its candidates (`Follows`), which are distinct (`Planned`), and another attempt
is under way only where the limits allow it (`MayTry`). That candidates which had lately failed come last is a property of the
sort: the cooldown map agrees with the history of failures (`CooldownsMatch`), so that the score by which the code
sorts puts exactly those behind the others (`Scores`, `OrderedSorts`).

The page is an invariant in another form: no row of the newest `RunLimit` of all runs ever
logged is missing from the table (`PageKept`). `SamePage` shows that such a table has the same page as the history, so
that trimming, late or by another run, trims nothing of the page; `PageGrows` shows that only the new row can enter
it. Both count who is in front of a row, and rest on two facts about finite total orders: every rank below the
size is taken (`RankTaken`, by the pigeonhole principle), and so a row that is not on the page has a page's worth of rows on it in front
(`PageIsFull`).

The quota is checked before the row it counts is written. What is charged at an admission is in flight, at
most `Cap` (`CapHolds`, itself inductive), or logged, at most `Quota - 1` since the check passed; while
no more runs were logged than the check counts rows, kept and asked for, what it counted is all that was logged (`RowsFit`). That
holds for any two limits. Runs that an unreadable policy let through are not charged.

### Runtime tokens

`RuntimeTokensProofs` proves, for any requests, members and tokens:

- `TokensTypeCorrect`, `RevocationReaches`, `DeactivatedAreCut`: `Bindings!Spec => []Bindings!TypeOK`,
  `[]RevocationReachesAll`, `[]DeactivatedKeepOnlySpared`;
- `OwnersAreFound`: `Bindings!Spec => RunsAsOwner`.

While operations on the file have not overlapped, one request at most is between its read and its
write, what it will write is its edit of what is bound, and the file holds what is bound unless it is that request
which has truncated it (`FileKept`). A revocation lists tokens by the file, so until it has revoked, each of the tokens it
must reach is spared or still bound to its member (`DueKept`); from then on what is bound to its member and resolves is spared
(`ReachedKept`, `RevokedKept`). For a member that is off this is so but for a deactivation on its way from switching off to
revoking (`OffKept`); one that fails there makes it so by sparing. A token that is not spared resolves to its last binder (`MinterKept`).

### Organisation configuration, isolate cache, transit files

`CompanyStoresProofs` proves, for any writes, callers, keys, uploads, reads and deletions:

- `OrgTypeCorrect`, `MirrorFollows`, `VersionsTell`: `Org!Spec => []Org!TypeOK`, `[]PolicyMirroredUnlessCrossed`,
  `[]SameVersionSamePolicy`;
- `CacheTypeCorrect`, `FailuresForgotten`, `NewerKept`: `Isolate!Spec => []Isolate!TypeOK`, `[]RetriesAfresh`, `NewerEntrySurvives`;
- `FilesTypeCorrect`, `ReadWhole`, `SweptClear`: `Transit!Spec => []Transit!TypeOK`, `[]ReadsAreWhole`, `[]SweepClears`;
- `TypesCorrect`: `MCSpec => []TypesOK`, and `SafeSideBySide` for the other guarantees of the five components.

The mirror follows because, until two writes overlap, one ends half way or the layout replaces a file, `policy.json` is at each step of the one write what that step says (`OneAtATime`).
That a version tells the policy is harder, since a desktop reads in between: while every version was read, and none behind another's back, one write
at a time takes a version, higher than any the desktop has seen, and who has the manifest's version has its policy unless the next
is on its way or the copy was made without reading it (`VersionsTakeTurns`). That versions stay below the number of writes, which the type
invariant says, needs a count of the writes that have taken one (`VersionsCounted`).

The cache: what is in the slot has not been evicted, and who was told of a failure was told by an entry that has (`FailuresEvicted`).

The files: from the answer to an upload its file and its name are there until the file is old or somebody deletes it
(`UploadKept`); what a sweep calls old is old, and the only old file it may not have met yet is one whose temporary form it has met
(`SweepKept`); a read that has found one of the two files only lost the other to age or to a deletion
(`ReadKept`), because a deletion unlinks the content before the name (`DeleteKept`).

### Assumptions, and what is not proved

The assumptions are those named in the modules (`GuardAssumption`, `IdempotencyAssumption`, `OAuthFlowAssumption`,
`ConnectionsAssumption`, `MemberAuthAssumption`, `ActionRunnerAssumption`, `NoneAssumption`, `NoneIsNoRecord` and so on, and the
`ConstantsOK` of each instance: `DisableStoreAssumption`, `CompanyStoresAssumption`); TLC evaluates them in every run. They say
that limits are numbers and where the code makes them so positive, that what stands for "nothing" is nothing else, and that
there are finitely many requests, runs, writes or tokens where things are counted: a process only ever serves finitely many.

Only model-checked, as the prover does not reach fairness or `ENABLED`: the liveness properties `CapacityReturns`, `CallsEnd`
and `QueueDrains`. A counterexample cannot be proved: the six violations are TLC's alone.

## Plan

1. *Done.* The core: guard, idempotency, connections, member accounts, disable store, action runner; the theorems of the guard and of idempotency.
2. *Done.* The model extended: `RuntimeTokens`, with the bindings file as the code reads and writes it; `OAuthFlow`; team
   grants in `ActionRunner`'s guard; restarts and the torn file of the auth store; the policy mirror; transit files; the
   isolate cache. The theorems of `Connections`, `MemberAuth`, `DisableStore` and `OAuthFlow`.
3. Still worth modelling: teams, a second user of the unserialised read, edit and write of `MemberAuth`; KV and R2 transit files, which leave expiry to the platform.
4. *Done.* The theorems of the action runner, the runtime tokens, the organisation configuration, the isolate cache and the
   transit files: every invariant and action property of the passing runs is now proved.
5. Abstract specifications still worth stating and proving: a connection as an atomic register of grants, implemented by
   `Connections`; a set of disabled keys, implemented by `DisableStore` while no load is late or fails; a log that keeps its newest rows,
   implemented by `ActionRunner`'s table.

Not modelled and not planned: providers, mail, pricing, search, schema checks and parsing (pure functions and input
and output, with no state that several actors share).
