# patrabahok: a TLA+ verification project

patrabahok turns a server into a mail host: a set of installer phases, a MariaDB
schema, the Go program `patrabahok` (CLI) with its daemon `patrabahokd` (web dashboard,
two HTTP APIs, Postfix policy service), templates for Postfix and Dovecot, and a web
mail client. This directory holds TLA+ modules of its core state, the TLC
configurations that check them, and theorems about them that TLAPS checks. Paths below
are relative to the repository (`src/`).

## 1. The system

| Part | State it keeps | Operations that change it | Shares state with |
|---|---|---|---|
| Mail directory (`cli/internal/mailbox`: mailbox.go, groups.go, routing.go) | seven tables of `sql/schema/001`, `006`, `007`; spool directories | 20 calls of `Store` and `domainkey` | CLI, web UI, `api`, `publicapi`, all calling `Store` with no lock |
| Domain API keys (`domainkey`) | `domain_api_keys` | Generate, Revoke | public API |
| DKIM and DNS files (`dkim_provision.go`, phase 80, `mtasts.WritePolicy`) | key, record, dump and policy file of each domain; rspamd's memory | DomainAdd (second half), RotateDKIMKey, phase 80 | rspamd, DNS check, Cloudflare |
| Mail routing (Postfix maps in `templates/postfix`) | none (queries over the directory) | - | reads the directory |
| Posting policy (`policy`) | none (queries) | - | reads the directory, called by Postfix |
| Administrators (`adminauth`, four files of `webui`) | `admin_users`, `admin_sessions`, cookies | login, logout, password change, add, remove, CLI `webadmin` | web UI and CLI |
| Secret key (`secretkey`) | lines of `/etc/patrabahok/secrets.env` | Ensure | Cloudflare store, mail client |
| Cloudflare account (`cloudflare/store.go`, `oauth.go`) | one row, OAuth state cookies | connect, OAuth client, authorize, callback, refresh, disconnect | web UI requests |
| Public API (`publicapi`) | none: a request's key, domain and what it has read | 15 handlers, for one domain, with a key of `domainkey` | calls `Store` |
| Server-wide API (`api`, `authtoken`) | `api_tokens` | 12 handlers, each with a scope; tokens are made by the web UI and the CLI | calls `Store` |
| Dashboard (`webui`) | none of its own besides the sessions above | 28 handlers of the directory, keys and tokens, among them the CSV import | calls `Store`, adds an audit entry |
| Command line (`cmd/patrabahok`) | none | the commands; `run` adds the audit entry | calls `Store` |
| Cloudflare DNS (`cloudflare/apply.go`, `client.go`) | the zone at Cloudflare | `ApplyMailRecords` behind two pages | the DKIM record file, the operator's own edits |
| MTA-STS hosting (`mtasts`, `webui/server.go`, `frontdoor`) | policy files, certificates, the loaders' memory, nginx | `Enable`, certbot and its timer, `GetCertificate` | DNS, nginx, certbot's lock |
| Installer, mail-client sync, operations pages | see `PROJECT.json` | - | not modelled |

Nothing in the Go code takes a lock across two SQL statements (the only transaction of
the directory is the replacement of a catch-all), and HTTP handlers run concurrently
with each other and with CLI processes. So the hard behaviour is *check, then act*: an
id, a flag, a kind of address or a file is read in one statement and used in a later
one. A call may also end between two statements: a statement fails, or the HTTP client
goes away, which cancels the context of the remaining ones.

What makes each part correct:

- *directory*: every row hangs under the domain its own address names, whatever
  overlaps; a create never resets a mailbox; one catch-all and one API key per domain,
  and a key opens only its domain; one namespace for mailboxes, groups and aliases;
  group membership that follows its rules;
- *routing and policy*: no mail of an address in use ends in a catch-all; nested groups
  deliver; only those the policy names may post, also when a query fails;
- *administrators*: sessions belong to the account and the password they were opened
  with; no administrator of the dashboard locks everybody out, except through the spelling
  of the own name (`admin_own_account`);
- *secret key and Cloudflare*: what is stored can be opened again; one way of connecting
  at a time, with tokens of the stored client;
- *DKIM*: the record shown to the administrator publishes the key on disk, and rspamd signs
  with that key once it has been restarted;
- *ways in*: a domain's key reaches only that domain, a token only what its scopes are
  for, and what the dashboard changes by a call that succeeds is in the audit log;
- *DNS*: nothing that is not the server's is touched, records are not doubled by a retry,
  and what is reported as done is so in the zone;
- *MTA-STS*: a renewal is served without a restart; a handshake for the mail host in the
  middle of one does not fail, and one for an mta-sts name fails only while the chain is
  unlinked; a host with a certificate has a policy; `Enable` and its page take no longer than
  their limits add up to.

## 2. Modules

| Module | Models | Reads as |
|---|---|---|
| `MailDB` | the seven tables, and one operator per SQL statement with its keys, foreign keys and cascades | extended by `Directory` |
| `KeyLedger` | the promise of `domainkey`, as an abstract ledger of keys | instantiated by `Directory` |
| `Directory` | the operations of `Store` and `domainkey`: one action per statement, `req[c]` holds what call `c` has read | extended by `Routing`, `DirectoryProofs` |
| `Routing` | the alias and mailbox maps, Postfix's expansion (external), the policy's `Decide` | `RoutingProofs` |
| `AdminAuth` | accounts, sessions, browser cookies, running requests, the CLI | `AdminAuthProofs` |
| `SecretKey` | `Ensure`: look up, append, read back | extended by `Cloudflare` |
| `Cloudflare` | the settings row with sealed columns, its handlers, `Token` with its refresh | `CloudflareProofs` |
| `Dkim` | the files of a domain and the three programs that write them, rspamd (external) | `DkimProofs` |
| `Requests` | what the four ways in share: a request is authorised, makes one call of `Directory` statement by statement, adds its audit entry; tokens | extended by the next four |
| `PublicApi`, `LocalApi`, `WebUI`, `CommandLine` | one action per handler or command | extended by `Front` |
| `Front` | the four side by side on one database | `FrontProofs`, which extends `DirectoryProofs` |
| `Zone` | the promise of `ApplyMailRecords`, as an abstract zone | instantiated by `Dns` |
| `Dns` | `ApplyMailRecords` call by call of the API, the pages, rotations, the operator | `DnsProofs` |
| `Hosting` | `Enable`, certbot (external), both certificate loaders, nginx | extended by `Publishing` |
| `Publishing` | `Dns` and `Hosting`, joined by what resolvers answer | `PublishingProofs` |
| `MC*` | instances: addresses, operation sets, symmetry | the `.cfg` files |

How state corresponds to code:

- A table is a set of records with the columns that some statement reads.
  `AUTO_INCREMENT` is a counter (`lastDomain`, `lastGroup`, `lastAdmin`) that is never
  reused; `ON DELETE CASCADE` is part of the deleting statement.
- A call is a record with its inputs, a label for the next statement, and what it has
  read. A call that fails before it has changed or read anything is not a step. A call
  that consists of one statement is one step.
- An address is a model value with a domain (`DomainOf`) and, in `Routing`, the address
  without its plus tag (`Untag`). Passwords, tokens and keys are model values; a random
  one is one that is not in use.
- A sealed column of Cloudflare is the pair of the key and what was sealed. A DKIM
  record text is the key pair it publishes and the form of its name and quoting.
- `Abandon` ends a running call; it is enabled only where a configuration sets `Faults`. In
  the ways in it has three forms, which their handlers treat differently: a statement or a
  file operation of the call fails (`CallFails`), the provisioning of a new domain fails
  (`ProvisionFails`), or the client goes away (`HangUp`).
- Two usernames are the same to the database when they fold to the same name
  (`AdminAuth!Same`, the case-insensitive collation); a Go comparison is of the names as they
  are written.
- `DomainAdd` has two halves: its row is an action of `Directory`, and the whole call,
  with the provisioning of the files, is in `Dkim`. Neither half reads the other's
  state; the ways in have the second half as one step that succeeds or fails.
- A handler of one of the ways in is an action with the name of the way in front
  (`public_handleGroupUpdate`). It makes the first statement of its call, and
  `Requests!Proceed` the others; a handler that reads before it calls (a mailbox before
  its removal, a group's settings before their update, an address before an alias) takes
  a step for the read. `Refuse` stands for every refusal before or between the steps.
- A DNS record is a place (what it is for), an id and a text, which is a number: 0 for a
  foreign TXT record at the same name, 1 for one of the right kind with another value, 2
  for what the server wants, 2 + *n* for its *n*-th DKIM key.
- A certificate is the number of its issue. certbot replaces the key, unlinks the chain
  and links the new one, and can be killed after each of these; a loader stats the chain,
  reads it, and reads the key.
- `by` of a record, `alone` of a request, `calm`, `floor`, `kept` of a handshake, `needs`
  and `missed` of `Dkim`, `apart` of `AdminAuth`, `name` and `under` of a session are history variables:
  they are only read by properties.
- In `Routing`, the runs use one caller: routing and policy are functions of the tables,
  so what matters is which tables are reachable, not who filled them. The theorems about
  them hold for any number of callers.

## 3. Runs

Every constant that bounds a run is in its `.cfg`. Deadlock is checked in every run.

Passing runs:

| Run | Instance | Shows |
|---|---|---|
| `directory_overlap` | 2 callers, 2 domains with one address each, 2 passwords, 3 API keys, 2 groups, batches of up to 2, failures | `IndInv`, `OneCatchAll`, `KeyAuthority`, `CreateOnlyAdds`, `LedgerKept` |
| `routing` | 1 caller; who is in a group and may post to it: 2 domains that come and go, 2 groups, 4 posting policies; where mail goes: 1 domain with 3 addresses, 2 groups, aliases, forwards, catch-alls, suspended mailboxes | `TypeOK`, `NamespaceDisjoint`, `LiveMailboxHasSpool`, `ExternalOnlyIfAllowed`, `NoStaleMembership`, `PolicyEnforced`; `NestedGroupsDeliver`, `CatchAllOnlyForUnused` |
| `admin` | 2 browsers and a shell whose steps interleave, failures; 2 names, one of them in 2 spellings, 2 passwords and 3 tokens while they run one after the other, 2 tokens and one password afterwards | `AdminInv`, `PasswordEndsSessions`, `AdminRemains`, `StaysSignedIn` |
| `cloudflare` | 2 browsers one after the other, 2 OAuth clients, an empty key file or one with a key, failures | `OneConnection`, `TokensOfClient`, `StoredReadable` |
| `dkim_alone` | 2 domains, 4 key pairs, all operations one after the other, failures at every step, restarts that fail unnoticed | `TypeOK`, `Provisioned`, `SignsWithKeyOnDisk`, `NeverOverwrites` |
| `requests` | 2 clients of any of the four ways in, 2 domains with one address each, one key and one token, failures | `FrontTypeOK`, `FrontInv`, `OwnDomainOnly`, `ScopesHonoured`, `DashboardChangesRecorded` |
| `publishing` | 2 requests that apply records at 3 places (one for each upsert), calls that fail, a rotation, an edit; one MTA-STS host, the mail host, 3 issues of each certificate | `PubTypeOK`, `Conservative`, `OneOfOurs`, `ReportTruthful`, `ApplyEnds`; `HostedWithPolicy`, `RenewalServed`, `KeepsServing`, `EnableInTime`, `EnableEnds` |

The bounds are the smallest in which the hazards happen: two callers for every race
(each race of the code is between two calls), two ids for a domain or group that is
removed and comes back under a call that has read its old id, two groups for nesting,
one address at a second domain for the external rules, hosted or not, one tagged address
for the stripping of the tag in the policy, three tokens for a session replaced while
another lives, one place for each of the three upsert functions, a third issue of a
certificate so that a loader meets a second renewal with something in memory.
`MaxDomainId`, `MaxGroupId`, `MaxAdminId`, `MaxIssue`, `MaxKey` and `MaxEdits` only stop
the creation of further rows, certificates, keys and edits; in `Dkim`, generating a pair
when `KeyPair` is used up counts as the failure of the generator. `StopTime` is what
`systemctl stop nginx` may take. Callers, keys and tokens are interchangeable, so the
runs declare them symmetric; no liveness is checked under symmetry.

Some runs have a state constraint, because the product of all tables is too large:

- `OneConcern` (`directory_overlap`): a behaviour uses the mailboxes, the groups, the
  routes or the keys, each together with the domains. The operations of the four kinds meet in
  no table but `virtual_domains`, except for the checks of the namespace, which
  `routing` is about. That the invariant holds for all of them together is what `DirectoryProofs`
  proves.
- `FewCombined` (`routing`) lets a behaviour be of one of two kinds. `FewPolicies`: nobody
  is suspended, forwards or catches all, and there is at most one alias; owners, the
  policies other than `members`, and domains that come and go while there is a member, are
  explored with one group and no alias. `FewRoutes`: nothing is removed; aliases,
  catch-alls and forwards are combined with at most three rows in all tables, nested groups
  of mailboxes with five. The constraint is also a guard of the calls that begin, so that
  TLC does not generate what it would throw away.
- `FewWhenOverlapping` (`admin`): once a request has overlapped another or was broken off,
  the properties about passwords no longer apply, and one password and two tokens are left.
- `FewRows` and `Overlap` (`requests`): the tables stay small and of one concern, two
  domains exist together only while nothing else is stored (a row's domain may still be
  removed, and the next one added, under any request), and of
  two requests that are open together one is a `mailbox remove` or `group delete` at the
  command line, at any of its statements, or any command that is about to write its audit
  entry. A command of one statement overlaps everything in this way, and so does the
  removal of a domain, so that every request meets rows, domains, keys and groups that
  are gone or have come back at each of its statements.
- `Bounded` of `MCPublishing`: hosting is explored between two applications of the
  records; of two overlapping requests neither has failed before; a behaviour is about
  one name's certificate.

Fairness. The directory and the ways in are checked for safety only: nothing in the code
promises that a request is served. Two components have liveness properties. `DnsFair` is
weak fairness of a request's next step, which the code guarantees with timeouts: 15
seconds for a call of the API (`client.go`), 20 for the whole request. That a request ends
is not that its browser hears of it: the page's server stops writing after 15 seconds
(`webui/server.go:225`), so `Report` shows the results or loses them. `HostFair` is weak
fairness of `Enable`'s next step (each lookup has 6 seconds and there are four, certbot has
90 seconds or less, the page 23 after that) and of certbot. Nothing is assumed of the operator: rotations, edits,
renewals, handshakes and restarts of nginx may happen or not. The constraint of
`publishing` cuts behaviours off; the liveness properties are therefore checked of those
that stay within it, which still fail, overlap and retry.

Refinement. `Zone` is the promise of `ApplyMailRecords` in terms of the zone alone: while
records are applied, a step adds one record of a kind that is applied or rewrites the text
of one that is there, at a place where one is kept. `Dns!Conservative` says that `Dns`
implements it under the mapping `zone <- zone, applying <- Busy`; it is a PROPERTY of
`publishing` and a theorem. `KeyLedger` is the promise of `domainkey` without ids, rows and
joins: a key that is handed out is new and is from then on the only one that opens its
domain, until the next one, or a revocation. `Directory!LedgerKept` says that `Directory`
implements it when `opens` is what `Verify` accepts and `handedOut` what `Generate` has
made: the upsert is one step of the ledger, the removal of a domain is a revocation, and an
upsert with the id of a domain that is gone is none. It is a PROPERTY of
`directory_overlap` and a theorem, also of the whole server (`FrontKeepsLedger`).

Runs that must fail, each a disagreement between the code and what the repository says
of it (`findings` in `PROJECT.json` quotes the lines):

| Run | What TLC finds |
|---|---|
| `routing_suspended` | mail to a suspended user goes to the catch-all |
| `admin_login_race` | a session opened with the old password survives its change |
| `admin_own_account` | an administrator removes the own account, which the handler refuses, under another spelling of its name |
| `requests_lost_update` | an update that omits the posting policy puts back what it was before another update |
| `webmail_down` | `Enable` stops nginx and nothing in the program starts it again |

The models also show behaviours for which no run is kept:

- two overlapping creates put a mailbox and a group at one address (`NamespaceDisjoint`
  with two callers); an external member enters a group after it stopped allowing them
  (`ExternalOnlyIfAllowed` with two callers);
- a mailbox whose creation overlaps a removal of the same address loses its spool directory
  to it (`LiveMailboxHasSpool` with two callers; no call has to fail);
- without any overlap, removing a domain leaves its former addresses in the groups of
  other domains, as external members even of groups that allow none; removing the last
  alias at an address, or registering the domain of an external member, leaves
  memberships of an address that does not exist, which a mailbox created there later
  inherits. `ExternalOnlyIfAllowed` and `NoStaleMembership` say that nothing else does;
- mail to a group without members goes to the catch-all; a group address stored with a
  plus sign has no posting policy, and a member stored with a tag may not post, because
  `Decide` strips the tag of what it looks up and nothing strips what is stored
  (`PolicyEnforced` and `MayPost` describe the code here: they speak of the stripped
  address);
- the dashboard, whose page says that "every change they make is recorded in the audit log"
  (`admins.html:6`), writes no entry when a call fails after it has changed a row: `DomainAdd`
  whose DKIM key cannot be made, `MailboxCreate` or `MailboxRemove` whose spool cannot be
  changed, a later statement, a group deleted under a batch of members. Nor does it when the
  client goes away in the middle of a call. `DashboardChangesRecorded` names these exceptions;
- the server-wide API writes no audit entries, nor do the public API's handlers of
  mailboxes and aliases (`EndsUnrecorded` is true of their last steps), although the audit
  package says that both APIs write to the log; `group add` at the command line writes
  none when one of several addresses is refused, whatever was added;
- two overlapping first uses of the secret key each append a line, and the one appended
  later is used, while the comment at `secretkey.go:53-55` expects the first to win;
- a token refresh that overlaps a pasted API token leaves both (`OneConnection`);
- two overlapping calls that find no DKIM key overwrite one another's
  (`NeverOverwrites` with `Overlap`);
- a call that ends after rspamadm has written a key and before its record is stored leaves a
  domain that every later call takes for provisioned: `DomainAdd` fails on a missing record,
  or succeeds with an empty one or that of the older key, and a re-run of phase 80 stops at
  line 87, where `grep` finds no quotes to count in an empty file and `pipefail` ends the
  phase. Only a rotation repairs it (`needs` = "rotation" in `Dkim`);
- the restart of rspamd that ends a rotation, and the one that ends phase 80, may fail without
  anybody noticing (`dkim_provision.go:98`, line 207 of the phase): rspamd goes on signing with the
  old key, although the page says that "this server now signs with the new key"
  (`missed` in `Dkim`);
- two overlapping requests that apply records both find none and create two; from then
  on every request skips the place, also when the key changes. A rotation during a request
  makes it publish the old key and report success. `OneOfOurs` and `ReportTruthful` are
  therefore stated for requests that nothing overlapped;
- while certbot has the chain of an mta-sts name unlinked, a handshake for it fails,
  unlike one for the mail host: `multiCertReloader` gives up when it cannot stat the file.
  When certbot is killed there, this lasts until its next run;
- a request that applies records may run for 20 seconds and checks the DNS after that, but its
  server stops writing after 15: with slow calls the browser gets no answer;
- `Enable` may take 120 seconds and what nginx needs to stop; the page's limit of 140 does not
  reach `systemctl`, and `dkimData` may add 23. The write deadline of 150 seconds, on the page and on
  the server-wide API, is met for certain only when nginx stops within 7 seconds (the page)
  or 30 (the API). `EnableInTime` states the bound as it depends on `StopTime`.

## 4. Proofs

Every property of a passing run is a theorem, except the two liveness properties, of
which the safety half is (`theorems` in `PROJECT.json` lists which theorem states which). The
theorems hold for every set of callers, addresses, domains, keys and every bound; besides
the named assumptions of the modules (types of the constants, `None` outside them) they
assume what is said here.

`DirectoryProofs`. The invariant to prove is `HomedRows`: every row is under the
registered domain that its address names. It is not inductive, because a running call
holds a `domID` that it read earlier and inserts under it. The strengthening `IndInv`
adds the unique keys (`KeysUnique`, with ids at most the counter), `OneCatchAll`, and
`CallsOK`: the id a call holds names the domain of its address *or no row at all*. The
last alternative is kept by `InsertDomain` because ids are never reused, and is what the
foreign keys turn into an error at the insert. Each SQL statement has a lemma of its
own, and `CallStep` covers the steps that only move a call. From `[]IndInv` follow
`TypeCorrect`, `CatchAllUnique`, `KeysOpenTheirDomain`, and, as a property of steps,
`CreateNeverOverwrites`. `LedgerRefined` is the refinement of section 3. Most statements
leave the two tables that `Verify` joins alone (`SameLedger`); the four that do not have a
lemma each. The one for the upsert needs `IndInv`: the row it replaces is the only one of
that domain id, and the id is that of the caller's domain or of none.

`RoutingProofs` has three parts. The first is what the queries compute, for any callers:
`PolicyAlwaysEnforced` resolves the two `CHOOSE`s of `Decide` (rows that `IndInv` makes
unique) and compares every early return with `MayPost`; `CatchAllTakesOnlyUnused` needs no
invariant at all: it is a fact of the four parts of the query in any database.
`ExpansionLeast` says that Postfix's recursive expansion is the least set that holds the
recipient and the destinations of all it holds. It needs induction over the rounds of the
recursion. The library's induction theorem takes an operator, which no prover here can
instantiate; `SetInduction` says the same of a *set* of numbers (from the least element of a
set, which `LeastElement` derives from the theorems about finite sets), and that a growing
sequence of subsets of a finite set stands still after as many rounds as the set has members
follows from the cardinalities. Hence the hypothesis `IsFiniteSet(Addr)`.

The second part asks which overlaps do harm. `NamespaceUnlessClaimedTwice` says that for any
callers an address keeps one meaning unless `OneClaim` is broken: two calls stand before
their INSERTs of a group and of a mailbox or alias at the same address. Every other schedule
is harmless, because an INSERT of the other meaning would have had to wait there meanwhile:
the address that `AddressKind` found free is still free at every call's INSERT (`KeysFree`,
the strengthening), also while domains, groups and mailboxes are removed. `GroupsDeliver`
(`NestedGroupsDeliver`, for groups that are not nested in a circle) combines this with the first part: an address that is a suspended
mailbox and a group at once would be dropped by the map of mailboxes and end the nesting
there, so it needs one namespace, and then the addresses that the expansion meets, or drops
because they are suspended mailboxes, are closed under membership.
`SpoolsUnlessCreatedInRemove` says that a mailbox lacks its spool directory only when its
address is created while a `MailboxRemove` of it is between its DELETE and the
removal of the directory (`NoCreateInRemove`). It assumes `~Faults`, because a
`MailboxCreate` that is cut off may not come to make the directory. The hypotheses
are formulas about the behaviour, so the theorems are about `Directory` itself and not about
a restricted copy of it; both schedules that they exclude do occur with two callers
(section 3).

The third part is about calls that do not overlap, the temporal formula `NoOverlap`; a single
caller satisfies it (`OneCallerNeverOverlaps`). The invariant behind it is `SerialInv`: one
call runs at most, and it may rely on what it has found out (`Knows`): the address that
`AddressKind` found free still is, the group of a batch still has the `allow_external` that
was read, the set of hosted domains is current, the address about to be inserted was judged
by these. `OutsidersOnlyByDomainRemoval` then follows step by step, for calls that may be cut
off anywhere; `NoMembershipGoesStale` also assumes `~Faults`, because a `MailboxRemove` that
is cut off leaves a membership. `OneNamespace` and `MailboxesHaveSpools` are corollaries of
the second part: calls that do not overlap satisfy `OneClaim` and `NoCreateInRemove`
(`SerialClaims`, and `SerialInv`).

`FrontProofs`. `FrontImplements` says that the four ways in implement `Directory`: every
step of every handler is a statement of a call, or leaves the database alone. One lemma
for each way in has a step for each group of handlers. Only the clearing of a forward needs
the invariant (the address it was read for is an address), so the refinement is proved
together with `FrontConsistent`: what `DirectoryProofs` shows holds of the whole server, and
so does what `RoutingProofs` shows for any callers. The other results need to know what an
open request may still do. `FrontInv` (in `Front`, and an invariant of the run `requests`)
says it for each way in: a request of the public API has only addresses, aliases and groups
of the domain its key was generated for, and the id of a group it has read is that of a
group of this domain or of none; one of the server-wide API is in a call that its token's
scopes are for; one of the web UI that has changed a row and is still in its call is
kept from its entry only by a failure, or by a group that is deleted under its batch. From `FrontKeepsBounds` follow `FrontTypeCorrect`,
`KeysKeepToTheirDomain`, `TokensKeepToTheirScopes` and `DashboardRecords`, each by what a
step of a request of that kind can do (`PublicEffect`, `LocalEffect`).

`AdminAuthProofs`. `AdminConsistent` proves `AdminInv`, for any overlap: a session is of the
account whose name it was opened under. It needs `ContextOK` for the same reason as in
`Directory`: a request authenticated before an administrator was removed still carries the
id, and a new account of that name must not get its session. `WhoChangesStaysSignedIn`
follows from it. `AloneInv` adds what holds while `apart`: sessions match passwords, and each
request `Knows` the accounts (a password change is about the account that asked for it; once
its row is updated the account has the new password; a session about to be opened has the
password of the account; who removes another administrator is one). From it follow
`PasswordChangeEndsSessions` and `DashboardKeepsAnAdmin`, with the one exception of the step
that `admin_own_account` finds (`RemovesSelf`). The run `admin_login_race` shows
that `apart` cannot be left out of the first.

`CloudflareProofs`. Under `KeyedSpec`, whose file holds a key from the start, `KeyKept`
shows, for any overlap, that nobody is ever on the way to appending one and that what
requests have sealed but not stored was sealed with the key in the file; `StaysReadable` is
its consequence for the row. From an empty file, and for which way of connecting is stored,
requests must not overlap (`ASSUME ~Overlap`; section 3 has the counterexamples). `AloneInv`
then says of the one request that runs which key it and the file agree on, and that a
callback or a refresh is about the client that is stored (`Serves`). `OneConnectionAtATime`,
`TokensServeTheirClient` and `FirstKeyReadable` follow, wherever requests break off.

`DkimProofs`. `FilesTypeCorrect` needs no restriction. With `~Overlap` (two calls that find
no key overwrite one another's) `DkimInv` says that one call runs, that a key is generated
only where none is (`KeygenOK`, which gives `KeysNeverOverwritten` wherever calls end early),
and how far the running call has got with the files (`Progress`). Two history variables say
what an end before its time leaves behind: a domain `needs` a complete call after that, or a
rotation when its key was left without a record, and a rotation whose restart failed or never
came is `missed` until one works. A domain that no call is about has a record of its own key
unless it needs a rotation, and is provisioned when it needs nothing; and rspamd's key is the
one on disk unless a rotation is going to restart it or has missed to. From it follow
`DomainsProvisioned` and `NoSigningWithOldKey`.

`DnsProofs`. `ZoneRefined` is the refinement of section 3, for any plan (a nonempty
sequence of places), any number of requests and whatever fails. Its invariant `DnsInv`
relates what a request remembers to the zone: the ids at one place are distinct, a request
that is writing is at a place of the plan, and the record it is about to rewrite, if it is
still there, is of a kind that is kept alone. Without the last part a step of
`updateRecord` could rewrite a foreign TXT record. `OneOfOursAlways` needs in addition
that a request that nothing overlaps is the only one that runs (`AloneOK`) and that the
place it is about to fill is still empty (`FreshOK`), because a write whose answer was lost
is looked up again, and not repeated, by the next request. `ReportsTrue` adds to these
(`TruthInv`) that there is one result for each place that is done, that the key to publish
is that of the latest record file, and that each result so far is true of the zone. Which key
rspamd signs with is not part of it: that is `NoSigningWithOldKey`.
`ApplyRunsOut` is the safety half of `ApplyEnds`: `StepsLeft` counts the steps that a request
can still take, at most two for each place and one to show the results; every step of the
request lowers it, also one that fails or whose answer is lost, and no other step raises it.

`PublishingProofs`. `PublishingImplementsDns` carries the theorems of `DnsProofs` over to
the composition. `HostInv` is the invariant of hosting: a run of certbot is for a host with
a policy and belongs to the one `Enable` that waits for it (`CallOK`, `CertbotOK`); however
certbot was killed, the chain is not newer than the key (`FileOK`); what a handshake has read
so far is as new as the time that `Stat` saw, and as new as what was complete when it began
unless a replacement has overlapped it (`HandshakeOK`); and the time `Enable` has spent is
bounded at each of its stages (`SpentOK`), for any `StopTime`. From it follow
`RenewalTakesEffect`, `ServesLastKnownGood`, `HostedComplete` and `EnableBounded`.
`EnableRunsOut` is the safety half of `EnableEnds`: at most twelve steps, with those of the
certbot that the call waits for, each of which lowers `EnableLeft`; and the certbot that a
call waits for is running, so that nobody waits for an answer that cannot come.

`IndInv`, `AdminInv` and `FrontInv` are also invariants of runs (`directory_overlap`,
`admin`, `requests`); the other inductive invariants are there for what follows from them,
which the runs check.

Only model-checked: `ApplyEnds` and `EnableEnds`. Given that the steps run out, what is left
of them is that a next step is possible and that fairness takes it: `ENABLED` and the
induction over a temporal formula are beyond the provers.

## 5. What is not modelled

Listed with reasons in `components` of `PROJECT.json`. Within the modelled parts:
quota, display name and timestamps; the wording of records and messages; ownership and
mode of files; the policy service's line protocol; the lines that `os.WriteFile` or a
shell redirection may leave half written; the reads that only show something (listings,
`FindZone`, `VerifyToken`, the DNS check of the DKIM page). TLS, password hashing, the
queue and fail2ban wrappers and page rendering keep no state of their own that a property
could be about. Of the hazards, two have no property: the multiplication in `ParseQuota`,
because the quota column is abstracted away, and a migration that fails half-way, because
the installer's shell is not modelled.

## 6. Plan

Done: all modules of section 2, the runs of section 3 and the proofs of section 4. Next:

1. Proofs: which pairs of calls may overlap without harm to `ExternalOnlyIfAllowed` and
   `NoStaleMembership` (for the namespace and the spools section 4 has the answer), and the
   results of `RoutingProofs` for the requests of `Front`.
2. `Installer`: resumable phases over `state.json`, migrations, and the secret key that
   `90-webmail.sh`, the daemon and the mail client's cache share.
3. `Policy` as a process whose queries interleave with the directory; `MailSync`, the IMAP
   folder synchronisation of the mail client.

A new question about the tables joins the run that already reaches the states it needs, so
that the whole set stays quick enough to be run on every change.
