# A TLA+ model of BeaconMCP

BeaconMCP is an MCP server that gives an assistant hands on a homelab: Proxmox
nodes, SSH hosts and BMCs. Everything that makes it safe to expose is in its own
code: who may sign in, how long a sign-in lasts, what a revocation means, which
tool calls a human has to approve, and how the server replaces its own code while
it runs, and what a tool call really did to a node. Those parts are modelled here. Source paths are relative to
`src/src/beaconmcp/`.

## The system

| Part | State it keeps | Operations | What is hard about it |
|---|---|---|---|
| Token store (`auth.py`, `TokenStore`) | three dictionaries, three SQLite tables | issue, mint, rotate, revoke, prune, load | a method is one step in memory and several commits on disk; the process dies in between |
| Client registry (`auth.py`, `ClientStore`) | `clients.json`, one copy in each process | reload, create, create_dynamic, revoke, exists | the server and the `auth` command share the file without a lock |
| Second factor (`check_totp`; `ratelimit.py`, `TotpLockout`) | last accepted step, strikes, trusted sources | locked, check, record failure or success | windows that slide, several clients on one seed, guesses spread over sources |
| OAuth sign-in (`__main__.py`, `CodeStore`) | tickets, codes | approve, finalize, exchange | forms and requests sent twice, late, or by somebody else |
| Dynamic registration (`dyn_reg.py`) | slugs | mint, load, consume, delete | two registrations race for a slug; create and consume are two steps |
| Control panel (`dashboard/app.py`, `session.py`, `passkeys.py`) | session rows, challenges, credentials | sign in, refresh, sign out, mint, revoke, register, verify | a handler checks the session, then awaits its body; a row outlives its bearer; a cap checked before the act |
| Chat (`dashboard/chat.py`, `confirmations.py`, `usage.py`, `app.py`) | turns, pending futures, ledger and window | stream, confirm, abort, bill | coroutines that wait for a human; ids made up per turn |
| Self-update (`updates.py`) | checkout, dependencies, service, status file, cached check | fetch, verify, merge, install, check, restart, roll back | the update kills its own process; a watchdog goes on without it |
| Tool calls (`server.py`, `confirm.py`, `proxmox/client.py`, `proxmox/vms.py`, `bmc/`) | none of their own | confirm, send, retry | a request whose answer was lost may have been carried out |
| Commands in guests (`proxmox/system.py`) | sessions shared by threads | start, poll, prune | no lock: a status is visible before its output |
| SSH client (`ssh/client.py`) | pins, connection cache, sessions | resolve, connect, pin, run | an await between looking up and storing |
| Transfers (`transfers.py`, `proxmox/system.py`) | links, staging directory, files on the node | issue, claim, push, fetch, download, delete | each step can fail or be cancelled and something must be cleaned up |
| iLO tunnel (`bmc/hp_ilo.py`) | tunnel, listener, port | open, reuse, drop, cancel | three attributes shared by coroutines, and set across two awaits |
| Rate limiter, configuration, wizard, reads of the BMC drivers and of Proxmox, metrics, pages | little or none | | pure functions, formatting, I/O |

They meet as follows. A request with a bearer goes through the middleware, which
asks `TokenStore.validate` and `ClientStore.exists`. A reload that finds a client
gone calls `prune_unknown_clients`. The sign-in pages call the registry, the second
factor and the code store, in that order, and the token endpoint calls the token
store. The chat talks to the server's own MCP endpoint with the session's bearer.
A connector that registers through a link becomes a client that delegates its
second factor to the owner of the link. A tool call goes through the wrapper of
`server.py` to the Proxmox client, to a BMC driver or to SSH; a command in a
container is an SSH command on its node, and so is each step of a transfer.

What makes each part correct, in a line: a sign-in ends, never forks, and once
closed stays closed; a client that was revoked is refused; a code works once; one
second factor gives one sign-in, to the client that was approved; nothing dangerous
runs without a click on its own card, and every turn ends; an update is signed,
checked, and undoes itself; a link registers one connector, a session that was
signed out stays so; a guest gets one change per call, a server keeps the key it was
first seen with, and what a transfer calls verified is what arrived.

`PROJECT.json` lists every part, and under `hazards` each place where an
interleaving, a crash, a retry or a boundary bites, with the properties that watch it.

## Modules

| Module | Models | State and actions against the code |
|---|---|---|
| `SignIn` | nothing by itself: the abstract promise | a chain of keys that opens, extends and closes |
| `TokenStore` | `TokenStore` | `tokens`, `oauth`, `refresh` are the dictionaries, `*Rows` the tables, `writes` the statements that the method holding the lock has yet to commit; one action per public method and outcome, `db_write` per statement, `Return`, `Restart` (`_init_db` with the migration of old rows) |
| `MCTokenStoreFaults` | an inherited database | a start on rows without a family end, and a statement that fails |
| `ClientStore` | `ClientStore` in two processes | inodes, the two names, a program counter for each process; one action per system call of `_maybe_reload`, `_load`, `_save`; `kill` at any point |
| `TotpGuard` | `check_totp`, `TotpLockout` | an attempt is one step, since the code awaits nothing within it; time counts TOTP steps |
| `OAuthServer` | authorize, finalize, token; extends `TotpGuard` | `tickets`, `codes`; approvals and grants are history |
| `SelfUpdate` | `apply_update`, `check_for_update`, the watchdog script, systemd | one step per git, pip or systemctl command; threads, watchdogs, the sleeping restart, upstream, the cached check |
| `Usage` | `UsageStore` | the ledger and the five-hour row |
| `ChatTurn` | `api_chat_stream`, `api_chat_confirm`, the tool loop, `ConfirmationStore`; extends `Usage` | a step runs from one await to the next |
| `DynReg` | `DynamicSlugStore`, `create_dynamic`, `revoke` without the file | `slugs` is the table, `clients` the registry; the second half of `dcr_register` is a step, or dies in the middle |
| `Passkeys` | `PasskeyStore`, `ChallengeStore`, `PasskeyService` | `passkeys` is the table, `challenges` the dictionary; one action per ceremony step |
| `Dashboard` | the handlers of the panel and the passkey routes of the authorize page; extends `DynReg`, `Passkeys` | `panel_request` is a handler up to the await of its body, the action named after the handler is the rest; the redirects of the pages are operators |
| `ToolCalls` | `_metric_tool`, `confirm_destructive`, `api_call`, the tools that change something, the power tools | a tool is the list of requests it sends; a step is one attempt of one request, with what the node made of it |
| `GuestExec` | `proxmox_run` in a VM; extends `ToolCalls` | each assignment to a session that another thread can see is a step |
| `SshClient` | `SSHClient`, trust on first use, `ssh_run` | a use is a coroutine: resolve, cache, handshake, sign-in, command |
| `Transfers` | upload links, `proxmox_upload_file`, `proxmox_fetch_url`, `proxmox_download_file`, `proxmox_delete_transfer` | a coroutine from await to await; files are numbers that tell whose bytes they are and whether they are whole |
| `IloTunnel` | `_resolve_endpoint`, `_call` | the three attributes, and the real connections behind them |
| `NodeTools` | the four above it and `ToolCalls` together | `run_in_container` hands a command from `GuestExec` to `SshClient` |
| `MC*` | | constants and symmetries for TLC |
| `*Proofs` | | the theorems of the module they are named after, with the invariants behind them |

Definitions whose names end in `Bug` are not part of any specification. Each is a
plausible defect of the definition below it; `PROJECT.json` pairs it with the
property that must catch it.

## Runs

| Run | Shows | Bounds |
|---|---|---|
| `token_store` | no fork, spent stays spent, closed stays closed, revoked stays revoked, a restart keeps exactly the live tokens; the store implements `SignIn` | one client, three mints, five instants, a session of 3 with an idle time of 2: a rotation, a reuse, an idle expiry, the end of the session and a crash at each statement all happen |
| `token_store_faults` | the bound on a sign-in, for inherited rows and with a lost write | two clients, one lost statement |
| `client_store` | the file is what the acknowledged calls amount to, a copy that looks current is current, a revoked client is refused, a derived client has its owner | two root clients, one connector, three process starts, five file writes: enough for a save to meet a save |
| `client_store_races` | violated: a save of the server takes the command's file for its own, and the revoked client stays admitted | the same |
| `totp_guard` | a code is spent once, the guessing budget, no lock-out by others | two addresses, one owner and a client that delegates to it, two and three strikes |
| `oauth_server` | one grant per approval, to the approved client and request, in time; a burned code stays burned | two requests, two approvals, one restart |
| `self_update` | only signed code, a whole checkout, one hand on it, the service comes back, an applied revision is not offered again | five revisions of every kind (unsigned, not starting, not healthy), two threads, two restarts, one crash |
| `self_update_gate` | violated: a sleeping unwatched restart starts an unchecked revision | the same, unsigned allowed |
| `chat_turn` | own approval only, decided by its own user only, nothing dangles, the window agrees with the ledger, every turn ends | two turns of two sessions of one client, two tool rounds, one retry, one turn of the window |
| `chat_turn_tabs` | violated: with unnamed calls one tab's click runs the other tab's call | two turns of one session |
| `dashboard` | a link hands out credentials once; signing out is final, also for handlers under way; a revoked client gains nothing; a passkey opens its own door once; the cap on passkeys; redirects end | two owners, two handlers in progress, two links, two connectors, two sessions, two credentials with a cap of one, and five fresh things (sessions, bearers, links, clients, challenges) in all: every pair of handlers meets, and so does each with a sign-out, a revocation and a restart |
| `node_tools` | one change per guest and call, true to the answer; completed means exited and with output; pins hold; no connection is lost; verified means equal; nothing is left behind; an endpoint leads to the iLO | two workers, two guests, two attempts, two keys, a reinstallation and a removed pin, two transfers, three iLO calls: one that opens a tunnel, one that is cancelled or fails after that tunnel dropped, and one that meets what they left |

Three properties of `client_store` hold only while no two processes write at once,
which the history variable `overlapped` records: the code has no lock, and
`client_store_races` shows what happens otherwise. `OwnerPresent` has no such
exception.

Other properties have exceptions of the same kind, each a history variable that says
what has to overlap for the code to break its own rule:

| Variable | Overlap | Property |
|---|---|---|
| `overlapped` of `Passkeys` | two registrations of one client: both saw room under the cap | `CapUnlessOverlap` |
| `stray` of `DynReg` | none: a client that a crash between its creation and its answer left in the registry | `LinkHandsOutOnce` |
| `raced` of `Transfers` | two downloads to one name: they share `<dest>.part` | `VerifiedIsTrue` |
| `left` of a transfer | the node could not be reached to remove the copy, or a download was cancelled, which has no `finally` | `NothingLeftBehind` |
| `displaced` of `SshClient` | two uses that missed the cache together: the earlier connection is forgotten, open | `ConnectionsAccounted` |
| `overlapped` of `IloTunnel` | a call that begins while another opens the tunnel is given the port of the last one; two that open one mix tunnel and port | `EndpointLeads` |
| `Abandoned` of `IloTunnel` | none: a call that was cancelled before its tunnel had a port leaves the port of the last one, until that tunnel drops | `EndpointLeads` |
| `overlapped` of a cached check | an update that moves the checkout after the check looked at it | `OfferIsNews` |
| `unnoted` of `SelfUpdate` | a restart between starting a watchdog and noting it | `OneHandOnCheckout`, `OfferIsNews` |

The components of `node_tools` share only the hand-over of a container's command, so
their full product would multiply states that have nothing to do with each other.
`load` fixes at the start how many calls, commands, SSH uses, transfers and iLO calls
meet in a behaviour. `MCLoads` has a tool call together with a command, two commands,
a command together with an SSH use, two SSH uses, two transfers and three iLO calls.

`CHECK_DEADLOCK FALSE` is used throughout: each model stops when its clock, its
mints or its revisions run out.

### Fairness

Safety needs none. Two specifications have some:

- `SelfUpdate`: systemd runs the watchdog's script, the restarts it was asked for,
  and respawns a service that does not come up (`Restart=` in
  `deploy/beaconmcp.service`); a thread that started a watchdog gets to note it.
  Nothing makes upstream publish or anybody update.
- `ChatTurn`: a turn takes its next step. A confirmation has a timeout of 300 s and
  a tool call a read timeout of as much; on Gemini the code sets none, so that it
  answers or fails in the end is an assumption on the service. No user has to
  answer.

## Proofs

Every safety property of the passing runs is also a theorem: `Spec => []Property`
(for `RevokedGainsNothing`, an action property, and for the refinements,
`Spec => Property`), for every value of the constants that the named assumptions of
the modules allow. None of the properties is inductive. Each proof module has an
invariant that is, checked with TLC on the run's instance before it was proved, a
lemma for each step of the specification, and the theorems at its end. The
assumptions say that bounds and lifetimes are numbers, that a few of them are not
zero, that sets of names do not meet, and, for the token store, how the lifetimes
compare, as the code sets them.

| Module | Theorems | Why the invariant is needed |
|---|---|---|
| `TokenStoreProofs` | `TypeCorrect`, `SignInNeverOutlivesSession` (from `IInv`) | a statement that is still to be committed will become a row, so the rows in `writes` must be bounded too; a restart caps each bearer at the least family end of its refresh rows, which changes nothing because those rows are bounded already; opening a family disturbs no older token because none names a family that was not minted |
| | `MemoryAndDiskInStep`, `FamilyNeverForks`, `SpentForEver`, `ClosedForEver`, `RevokedForEver`, `RestartLosesNothing` (from `Kept`) | what a caller was told survives a crash because the tables, once the queued statements are applied to them, are what memory promises; this needs every statement to have reached the disk, so the theorems say `lost = 0 => ...`, and the run has `MaxLostWrites = 0` |
| | `StoreImplementsChain` (from `ChainKept`) | the refinement of `SignIn`: the queue holds a family's next key only behind the statement that retires the old one, so each commit is a step of the chain or a stutter. It assumes `MaxLostWrites = 0`: after a lost statement the store does not implement the chain |
| `TotpGuardProofs` | `GuardInductive`, `CodesAreSpentOnce`, `GuessingIsBounded`, `OthersCannotLock` | the budget counts guesses and the code counts strikes: the invariant ties the two together; a trusted source is forgotten only when `KNOWN_GOOD_CAP` others passed no earlier |
| `OAuthServerProofs` | `OAuthImplementsGuard`, `ApprovalGrantsOnce`, `TokensGoWhereApproved`, `SpoiltCodesYieldNothing` | each handler is one attempt of `TotpGuard` or leaves it alone, so the theorems above hold of the server (`GuardHoldsInOAuth`); an approval is in one place at a time: ticket, code, tokens, or spoilt |
| `ClientStoreProofs` | `ClientInductive`, `ClientTypeCorrect`, `AcknowledgedIsInTheFile`, `SkippingTheReloadIsRight`, `RevokedClientsAreCutOff`, `OwnersStay` | `Sound` holds whatever the processes do, and is enough for `OwnersStay`. `Coherent` holds until two write at once: the temporary file then belongs to one process, which acts on what is in the file; the signature of the temporary file is known to nobody, so a rename makes every other copy out of date; the file is the ledger with at most one unacknowledged call |
| `SelfUpdateProofs` | `SelfUpdateInductive`, `OnlySignedInstalled`, `CheckoutStaysWhole`, `ThreadAndDogExclude`, `CachedOfferIsNews` | who holds the lock, what a thread is about to merge or a rollback to restore, who is about to mend the checkout, and that the status file tells of the one watchdog |
| | `GateHoldsUnlessCut` (from `PlainGood` besides) | the refuted `HardGate` with the two exceptions it needs, `interrupted` and `unnoted`: while a watchdog is past its sleep no other restart is scheduled, because who schedules one holds the lock, so a restart that cuts no update short finds a whole checkout |
| | `WatchdogsWindDown` | `Ahead` counts the steps that a watchdog's script may still take, seven once it is started: its own steps lower it and nobody else's raise it; it ends only when the service answers or with a verdict that says it was not mended |
| `ChatTurnProofs` | `TurnInductive`, `RunsOnlyApproved`, `OwnUserDecides`, `StoreHasNoLeftovers` | an answer reaches the right future because whatever leaves the wait takes its entry along. They have the hypothesis `IdsDistinct`: no two calls share an id, which holds when Gemini names its calls and when there is one turn (two lemmas); `chat_turn_tabs` shows what happens otherwise |
| | `MeterInductive`, `ChatTypeCorrect`, `WindowIsLedger` (from `MeterGood`, without that hypothesis) | a row starts over only when every event of its client is older than the new window, and there is no row only when there is no event; otherwise the new row would leave part of the ledger out |
| | `OverdraftIsBounded` (from `SetAside`) | the budget is checked when a turn begins and charged when it ends. Spending plus what the turns under way may still cost stays below cap plus K turns, if the client never has more than K under way; with K = 1 TLC reaches the bound |
| | `TurnsWindDown` | `Work` counts the steps that a turn may still take: `4 * MAX_TOOL_ROUNDS + MAX_RETRIES + 4` at first, less after each of its steps |
| `DashboardProofs` | `DashInductive`, `DashTypeCorrect`, `LinksHandOutOnce`, `SignOutIsFinal`, `PasskeysOpenOwnDoor`, `CapHoldsUnlessOverlap`, `RevokedNeverGains`, `PagesSettle` | `DashGood` says what a suspended handler still knows after its await; a bearer that is neither ending nor replaced is the current one of its row, or the row has expired; registrations under way are counted |
| | `TokenCapHolds`, `PasskeyExcessIsBounded` | two caps that handlers race for: the one on named tokens is read in the step that issues the token and holds; the one on passkeys is read a step earlier, so each registration under way has a place set aside, and the excess is at most K - 1 with K under way. `CapUnlessOverlap` is the case K = 1 |
| | `RegistriesAgree` | `DynReg` and `ClientStore` model the same class, one as a function and one as the rows of the file. With the rows that the function stands for, every step of the panel is a call of `ClientStore!Effect` (`create_dynamic` or `revoke`) or changes no row |
| `NodeToolsProofs` | `NodeInductive`, `RequestsReachTheIlo`, `PinsHold`, `NoConnectionIsLost`, `ChangesApplyOnce`, `CompletedCommandsHaveOutput`, `VerifiedTransfersAreTrue`, `TransfersLeaveNothing` | one invariant per component (`IloGood`, `SshGood`, `ExecGood`, `TransferGood`): the change of a call is its last request, so what is tried again has not reached the guest; the keys a use read are still pinned; the port is that of the tunnel, unless it was abandoned, and nothing can be reused while a call connects; what a download hashed is what it renames |

The attempts found three things that the runs had not. `OfferIsNews` was false beyond
the bounds of its run: after a restart that hid a watchdog (`unnoted`), the rollback
it does later can make a cached offer old; the property now has that exception. Two
guards of a `CASE` in `ToolCalls.After` overlapped, so what a call did next was
TLC's choice and not the code's; they exclude each other now. And `TotpGuard` kept
history of guesses that no cooldown looked at any more, which the budget cannot be
proved from; `tick` drops it.

`WindowIsLedger` needs induction over data: the sum of a ledger is a recursive
function. The library's induction theorems take a predicate as their parameter, which
the provers cannot instantiate. `NumbersInTurn` states it for a set of numbers
instead, from the library's fact that `<` on the naturals is well-founded; on it rest
the lemmas about `Total` (it is a number, grows by the amount that is appended, is
monotone, and zero for zeros).

What stays with TLC:

- `ServiceComesBack` and `TurnEnds`: the prover does not reason about fairness. The
  part of each that needs none is proved (`WatchdogsWindDown`, `TurnsWindDown`);
- that the bounds of `OverdraftIsBounded` and `PasskeyExcessIsBounded` are reached,
  and that `GateHoldsUnlessCut` needs both of its exceptions, for which TLC has the
  counterexamples;
- the three runs that expect a violation.

## Where the code and its words disagree

1. `client_store_races`: a revocation is said to take effect at the client's next
   request. A save ends by recording the signature of whatever file is there
   (`auth.py:454`). If the command's file came in between, the server takes its own
   copy, which still has the client, for that file, and does not read it again.
2. `self_update_gate`: the startup check is called a hard gate. A restart that was
   scheduled without a watchdog can start the next update's code before the check.
3. `chat_turn_tabs`: the chat is said to need an explicit green light for each
   dangerous call. With calls that the model left unnamed and two tabs, a click on
   one card can release another.

Two more came up in the models, and have no run of their own:

- A call to an iLO that is cancelled while the jump host forwards its port leaves the
  new tunnel, open, with the last tunnel's port, because `except Exception`
  (`bmc/hp_ilo.py:78`) does not see a cancellation. Later calls are given that port,
  where nobody listens, until the new tunnel drops. This is the exception `Abandoned`
  of `EndpointLeads`: without it, TLC finds the three calls in `IloTunnel`.
- The comment of `ClientStore` says besides that a save of the server (DCR) cannot
  overwrite a change of the command. A registration that looked at the file before a
  revocation and renames its own into place afterwards (`auth.py:452`) puts the
  revoked client back. `RevokedIsRefused` fails by that as well, a few steps later
  than by the race above, which is the one TLC shows.

Seen while modelling, and in no property: a tunnel to an iLO whose port
could not be forwarded is forgotten without being closed (`bmc/hp_ilo.py:77`); a
command in a VM that nobody polls stays `running` and is never pruned
(`proxmox/system.py:50`); `vm_bulk_action` posts `status/restart` where
`proxmox_vm_restart` takes care to use `reboot` (`proxmox/aggregators.py:376`,
`proxmox/vms.py:117`); a turn of the chat is billed only when it completes
(`dashboard/app.py:1571`).

## Not modelled

Prices, texts, pages, parsing, metrics and logs; the reads of the BMC drivers and of
the Proxmox tools, which make a call and format the answer; the configuration and the
wizard; the rate limiter, whose two methods run under one lock and share nothing;
conversations, which are plain rows; cryptography (hashes, PKCE, WebAuthn and git
signatures either match or do not). In `Transfers` an SSH operation succeeds or
fails, with its partial effect: the way it gets its connection is `SshClient`'s; a
tool reads and writes one staged name, and is not given the name of another transfer's
file or of a part, which `_staging_path` would accept. In `SelfUpdate` the status file
can be written, where `_write_status` swallows an `OSError`. In
`ToolCalls` the guests of a bulk action take turns, since they share nothing. In
`Dashboard` a code is right or wrong: the budget for wrong ones is `TotpGuard`'s.
Dates are integers, tokens are numbers that never repeat. In `TokenStore` the
deletion of rows past their expiry is not a separate statement, since no start
loads such a row. Two turns of a chat run once each; several dashboard servers on
one database are outside the deployment that the docs describe.

## Plan

Every part that is worth it is modelled and every safety property is proved. What is
left: one specification of the whole sign-in, in which `OAuthServer` issues into
`TokenStore`; and the parts listed above as not modelled, if they ever keep state.

## Running

    tlc -workers 2 -config TokenStore.cfg TokenStore
    tlc -workers 2 -config Dashboard.cfg MCDashboard
    tlc -workers 2 -config NodeTools.cfg MCNodeTools
    tlapm TokenStoreProofs.tla

and so on: each run of `PROJECT.json` names its module and its configuration, and each
`*Proofs` module is checked by itself, in one to four minutes.
