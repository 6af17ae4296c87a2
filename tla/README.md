# Shyake in TLA+

Shyake is end-to-end encrypted mail with post-quantum keys: a C client, a server
in Go that federates with other instances, an older server as a Cloudflare
Worker, and a local web interface. This directory models the parts of it that
keep state and meet concurrency or failure, checks them with TLC on small
instances, and proves the main properties with TLAPS for every value of the
constants. Paths below are relative to the repository.

## 1. Inventory

**Go server** (`server/go`)

| Component | State | Operations | Interacts with |
|---|---|---|---|
| replay memory, `internal/ttlset` | two generations of hashes, time of the last rotation | `Add` | two sets, `seen` and `spent`, shared by all handlers |
| request handling, `internal/api` | none of its own between requests; locals of each handler | register, mail (send, list, get, burn), block, unblock, list blocks, rotate, destroy, pubkey | database, replay memories, remote keys, relay; called by clients and by other instances |
| database, `internal/store/sqlite` | tables users, mail, blocks | one transaction per write, one connection for writes | the handlers |
| remote keys, `internal/federation/keys.go` | cache of public keys, requests in flight | `Lookup` | `GET /api/pubkey` of other instances |
| relay, `internal/federation/relay.go` | none | `Relay`, `Level` | `POST /api/mail` and `GET /api/version` of other instances |
| protocol, `internal/protocol` | none | addresses, signed messages, proof of work | everything above |
| limiter, `internal/api` | token buckets by address | `allow` | every request |
| client version cache, `internal/api` | the last answer of GitHub, the fetch under way | `get` | `GET /api/client/version`; GitHub; `shyake update` |
| import, `store/sqlite/import.go` | none | one conversion of a Worker database | the database |

**Worker** (`server/cf`): the same API on D1, with a statement at a time where
the Go server has a transaction, and with neither replay memory nor duplicate
detection.

**Client** (`client/src`): four key files, known hosts (trust on first use),
drafts and saved mail, all files on disk; commands register, send, reply, fetch,
burn, block, rotate, destroy, and `update`, which replaces the program itself. Each
command is a process: what is hard is a crash
or a lost answer between two files or between the server and a file.

**Web interface** (`webui`): forwards to the client library, keeps no state that
matters here.

### What makes it correct

* Replay memory: bounded, remembers long enough, forgets at last, although calls
  arrive out of order and rotation is lazy.
* The window of a request's time and the replay memory together: what is used
  twice was used at the very start of its window, though the two measure time in
  different units and at different moments.
* Limiter: no client gets more than its rate and a measured bit on top, whatever it
  writes in a header and in whatever order calls and sweeps reach its bucket; buckets
  of clients that went are dropped.
* Version cache and update: the news are at most so old; an update says it succeeded
  only when the build it was told of is installed, leaves a whole program whenever it
  is cut off, and never goes back to an older release.
* Request handling: between restarts a signature, as it is written, takes effect at
  most once; a retried submission stores one mail and is told the id of that mail; the
  blocklist is
  in force; the keys of a name change only through requests those keys signed, and no
  two names that differ by case get any; whatever is stored can be read with the keys its accounts have now. Every
  handler reads state that may be stale when it writes.
* Remote keys: how old an answer may be; the cache never goes back; nobody
  waits for ever.
* Relay: an accepted mail is at the recipient; a refused one is nowhere; a lost
  reply can only duplicate.
* Client, drafts: no text that was written is lost.
* Client, what it keeps of others: mail to a user is sealed to one key until the
  user of the client trusts another; saved mail stays; a mail that is somewhere
  is not called unavailable.
* Client, keys: the keys on disk are the ones the account has, whatever command
  was cut off; a key the account has is never overwritten; one passphrase opens
  both secret keys.

`PROJECT.json` lists under `hazards` where each of these could go wrong, with the
line and the property that would notice.

## 2. Modules

| Module | Models | Proofs |
|---|---|---|
| `Ttlset` | `ttlset.go` | `ReplayProofs` |
| `Replay` | `Ttlset` under the window of `auth.go` and `pow.go` | `ReplayProofs` |
| `Limiter` | the rate limit of `internal/api` | `ServerProofs` |
| `Server` | `internal/api` with the database | `ServerProofs` |
| `FedKeys` | `federation/keys.go` | `FederationProofs` |
| `Federation` | `send` and `send -d` of the client, `POST /api/mail` of both instances and the relay between them | `FederationProofs` |
| `Worker` | the Cloudflare Worker, `server/cf/src/index.ts` | `WorkerProofs` |
| `ClientKeys` | the client's key files under `init`, `register`, `rotate` and `destroy`, and the accounts they belong to | `ClientKeysProofs` |
| `Drafts` | the drafts directory of a client under `compose`, `reply` and `send` | `DraftsProofs` |
| `Records` | the client's `known_hosts` under `send` and `fingerprint`, its saved mail under `save`, `burn`, `fetch`, `check` and `read` | `RecordsProofs` |
| `Versions` | the relay of release news, `version.go`, and GitHub's releases | `UpdateProofs` |
| `Update` | `shyake update`, composed with `Versions` | `UpdateProofs` |
| `Delivery` | what mail between instances promises: the abstract specification of `Federation` | refinement in `FederationProofs` |

`ServerProofs` and `FederationProofs` hold the proofs of the rate limit and of the key
cache too, the small parts of the instance and of the way between two; their
names begin with `Limiter` and `Keys`.

`MCReplay`, `MCLimiter`, `MCServer`, `MCFedKeys`, `MCWorker`, `MCClientKeys`,
`MCDrafts`, `MCRecords` and `MCUpdate` extend them with what TLC needs: model values, payloads, symmetry. A definition that
comes before another with nearly its name, and whose comment calls it a slip or says
what it does wrong (`RememberUnchecked`, `InsertAlways`, `SealLate`, ...) is no part of the
specification: it is the faulty variant of the definition after it, and shows
that a property can tell the two apart.

### Ttlset

`cur`, `prev`, `rotatedAt` are the fields of `Set`; `Add(k, t)` is one call with
the time `t` its caller read. The mutex makes a call atomic; the clock is read
before (`auth.go` fresh), so `t` may be up to `Lag` behind and calls may swap.
`acceptedAt` and `others` are history: when a key was last accepted and how many
were accepted after it, which is what "early" and "late" are measured with.

### Replay

`Authenticate(r, k)` is a handler between the two readings of the clock: the
request was in its window (`InWindow`) at some moment, at most `Stall` ago, and now
`fresh` reads the clock again. `Use` is its call of `Add`, which comes at most `Lag`
later. `Unit` is how many ticks there are in the unit a request's time is written
in, so the module stands for both memories: a signature carries seconds and its window is
601 of them, of which `seen` keeps 600; a token carries a day, and `spent`
keeps all three days of its window. `SignedAt` is the time each key carries;
any request may be submitted again at any time.

### Limiter

A bucket holds ticks, gains one in each and loses `Cost` of them for a request;
what `golang.org/x/time/rate` does with fractions of a token is below a tick.
`ReadClock` finds the net of the caller (`ClientIP`: the address, or the /64 of an IPv6
one, that `X-Forwarded-For` gives behind trusted proxies) and reads the clock;
`Allow` is the call under the lock, with the sweep that may come first. A client
calls by itself, or by any chain of proxies, each of which appends the address it
was called from to whatever the client wrote (`Forged`).

History: `credit` is an exact bucket, and `gifts` what a client may have got on top of
it. There are two sources, and `RateHolds` counts both. A call that is let in with a time
before that of the last one let in gives one `Lag`: `AllowN` sets the bucket's time back,
and the same interval fills it again. A sweep that drops a bucket gives its `Shortfall`,
what the bucket may lack of a full one after `Idle` unused: with the defaults (30 tokens,
5 a second, ten minutes) that is nothing. But `config.go` asks only for a positive rate
and burst: at 1 token in 600 s and a burst of 30 a client that waits out a sweep begins
anew with a full bucket, and all `RateHolds` says is that it gets no more than that.

### Server

One action per access to shared state. `Arrive` is everything before the first
access: it may deliver any request again and again. Then

* a signed request goes `Authenticate` (keys of now) -> `Remember` (seen.Add) ->
  `Spend` (spent.Add) -> one transaction (`RotateKeys`, `DestroyUser`,
  `ChangeBlocks`, `BurnMail`, `Read`);
* a registration starts at `Remember` and ends in `CreateUser`;
* a submission goes `SenderKeys` -> `RecipientKeys` (-> `RecheckRecipient`) ->
  `VerifySignature` -> `CheckBlocked` -> `FindDuplicate` (-> `CheckLevel`) ->
  `Spend` (-> `Relay`) -> `InsertMail`.

`StoreFails` is any failing access to the database or cancelled request,
`Restart` the end of the process: handlers and memories are lost, the database
stays. The steps of `Handler` many requests interleave in any order.

Data: a key pair is a value that is its own fingerprint; a signature is the
payload it signs and the way it is written; a token is a value good for one resource;
names that fold to the same lower case collide at registration only. `decodeB64` reads a
signature in either base64 alphabet, with or without padding and spaces, so it verifies
in every `Spelling`, while `fresh` and `sigHash` hash the text as it was sent: one payload
in two spellings is two signatures to them. `OncePerBoot` and `OneCopy` are therefore about
a signature in one spelling, which is what a repeated or retried request carries. Another instance answers what
it likes (`KeysOf`), so federation here is an open environment. The age of
requests is not modelled, so any request may come at any time: the server's
properties do not lean on timestamps.

History: `applied` and `paid` count effects since the last restart; `answers`
are what senders were told; `removed` the ids deleted; `keyMoved[h]` says that an
account handler `h` relies on changed since it began, `wasFree[h]` that at some
moment since then its recipient did not block its sender.

### FedKeys

`Lookup` for one remote user by several callers: `Begin`, `Look` (the cache
under its mutex), `Do` (singleflight: join or start), and for the request
`RemoteAnswers`, `StoreAnswer` or `FetchFails`, `Land`. `RemoteChanges` is the
remote user's rotation; keys are numbered by it. `Tick` cannot pass the timeout of a
request (`fetch`: 10 s).

### Federation and Delivery

One mail to a user of another instance, end to end. `command[t]` is the client
process that holds the text `t`: `Send` (from the input) or `SendDraft` -> `Prompt`
-> `Submit` -> `Reply` or `NoReply` -> `Finish` (the draft is deleted, if unlink
works) or `Rescue` (the draft is written, if that works). `here[s]` and `there[s]`
are the handlers of the submission `s` at the two instances: `Check` ->
`RelayAnswered` or `RelayFails` -> `InsertCopy` here, `RemoteCheck` ->
`RemoteInsert` there. The two proceed at their own pace, so a relay that timed
out may still be delivered. A request or an answer is lost (`NoReply`,
`RelayFails`, `RemoteAbandon`), a database fails (the second disjuncts of
`InsertCopy` and `RemoteInsert`), a process ends (`Kill`, `Abandon`,
`RemoteAbandon`). What the checks of a submission are is in `Server`; here they
pass or fail. A submission of the same text again is a new signature, as the
client encrypts and dates it anew, so the duplicate detection of `Server` does
not apply to it.

`Delivery` is the promise: filed only when delivered, told "sent" only when
filed, refused only when delivered neither before nor after. An unclear answer
promises nothing.

History: `written`, `outcome`, `failed` and `interrupted` record what the user
wrote, what each submission ended in, and which commands failed or were cut
short.

The user types at one terminal: two commands at a time on the same draft are in
`Drafts`, as are replies; mail within one instance is in `Server`.

### ClientKeys

One directory of a client and one instance. Each run of the client is one
command, `command[c]`, and each step of it one access to a file or to the
network:

* `StartInit` -> `Look` (is `kem_pk.bin` there?) -> `Save` `Save` -> `Look` -> `Save`
  `Save`: `shyake_generate_keys` makes a pair when its public key is missing;
* `StartRegister` -> `Answer` -> `WriteConfig`;
* `StartRotate` -> `Answer` -> `Save` four times, in the order of `account.c`
  (`AfterSave`): the new keys are nowhere but in memory until then;
* `StartDestroy` -> `Answer` -> `Wipe` (`rm -rf <dir>/*`, in the order the shell
  gives).

`request[c]` is the request at the instance: `Check` verifies its signature with
the key of that moment, `Apply` is the transaction, `Refuse` every other answer;
`Server` has those handlers in full. `NoReply` ends the command whatever becomes of
the request, so a request may take effect long after its command. `Save` may
fail and leave a file as it was, empty or cut short (no caller looks at its
result), `WriteConfig` may lose the name, `Wipe` may stop on its way, and `Kill`
may come at any step. `MaxAtOnce` is how many commands overlap.

A key is named by the run that generated it, and stored under a passphrase or
under none (`lock`). What is asked of a user depends on `kem_sk.bin` alone
(`Typed`), which is why `OnePassphrase` matters. `papers` are the keys that drafts
(`KeepDraft`) and saved mail (`SaveMail`) are sealed to.

`trouble` is history: which kind of command was cut off, could not write, or
overlapped another. Each property names the trouble it excuses, and no other:
`SignerKept` excuses only rotations and overlap, so it says that whatever becomes
of an init, a registration or a destruction, the account stays usable.

Not in it: a config or key file edited by hand, several instances for one
directory, and a user who may type a passphrase that is not the right one (the
command then ends before it does anything).

### Drafts

`files[i]` is `drafts/<i>.json`: absent, torn, or a text with the mail it answers
(`ref`) and its recipient (`to`). A text is named by the command it was written in,
and nothing else tells one text from another. `command[c]` is one run of the client:

* `Compose` and `Reply` go `Edit` -> the save; `reply -d` goes to the save at once, with
  the text of the draft and the mail of the command;
* the save (`cli_save_draft`) is `Seal` -> `Scan` -> `Create`, or `Seal` -> `Open` when the draft
  has an id, then `Write`, of which nobody looks at the result;
* after the save a reply goes `Ask` -> `Reread` -> `Submit`;
* `SendText` and `SendDraft` start at `Submit`; after it comes `Delete`, or, for a text
  that was not accepted, the save (`rescue_draft`).

`Remove` is the user's `rm`, which the manual recommends to delete a draft; the
unlinked file of a command that still writes is written all the same (`orphan`).
`Kill` may come at any step, and a full disk or a killed writer leaves a torn file.
What the instance does with a submission is a choice here and a model in `Federation`.

History: `saved` says where a text was last reported as saved, `origin` which text
it was edited from, `removed` what the user removed, `broken` the ids whose
file was not written to its end, `crossed` the ids that two commands, or a command
and the user's `rm`, had at once. Two exceptions recur: a write that was cut off is
reported as saved all the same (`broken`), and nothing locks a draft (`crossed`). For one
that is crossed, the text saved last can be deleted by a command that sent an earlier
one, and a reply can go to the party of another mail: `offer_reply_send` reads the
draft again but keeps the recipient of the reply it came from.

Not in it: files in the directory that are not drafts, a draft edited by hand, and
the passphrase, which ends a command before it does anything.

### Records

Each run of the client is a command, as in `Drafts`, and `Begin` starts at most
`MaxAtOnce` of them at a time:

* `send`: `Send` (the key the instance answers, the newest or one from a cache) ->
  `Check` against `known_hosts` -> `AppendLine` when there is none for the user;
* `fingerprint <user> --update`: `Update` -> `Open` -> `Copy` -> `Rename`;
* `save`: `Save` -> `Get` -> `OpenSaved` (empties the file) -> `WriteSaved`; `burn`: `Burn` -> `Burnt`;
* `fetch` and `check` of a mail (`Show`), `read` and `check saved` (`Read`), when the mail is an
  answer: `Search` the inbox, then what was sent (`FindListed`), then the saved mail
  (`FindInSaved`), and show where the answered mail is.

`hosts` and `tmp` say which file is `known_hosts` and which `known_hosts.tmp`; a file is
named by the command that made it, so that a command may go on writing to a file
that another has renamed, as two updates at once do. `content` is its lines, a user
and the number of a key. A line that was cut short has no end and is
continued by the next (`WithLine`); a key of which a part is missing is `Garbled`, and
`Check` may take it for no key to compare or for another key. A `known_hosts` that is there and
cannot be opened is as good as none: `Check` then takes the user for a new one, and `Open` goes
on without the lines of others (`Unread`). A user is an address as it was typed, which is
what `strcmp` compares: one address in two spellings has two lines and two pins. Lines are of one
length, so that what a second writer leaves of a longer file is whole lines
(`Over`). `KeyIn` is the key of a user's first line, `LinesBut` what an update copies.
`mail` is what the instance has, `saved` the files of saved mail.

History: `pinned` is the key that was trusted last, `sealed` the keys that mail was sealed to
since; `loose` the users for whom a full disk, a second command or a failed open may have
cost the line; `reported` and `broken` the mail that was called saved, and that of which a write was
cut off; `missed` the commands during which the mail they look for was nowhere at
some moment. `PinsHold` excuses `loose` and so says that it takes one of these three to
change the key mail is sealed to; all are possible, since nothing locks the file,
no result of a write is looked at, and a file that cannot be opened is not told from one
that is not there. Since a pin that was doubled or dropped is excused from then on, what is
left to go wrong is a rewrite that loses or keeps a wrong line by itself. `UnavailableIsGone` excuses a list that could not be had,
which counts as an empty one: `(unavailable)` is then shown of a mail that the
instance has, though README.md:230 takes it to mean that the mail is gone.

Not in it: saved files removed by hand, the display of fingerprints, the listing
of saved mail. Whether the mail sealed by `Check` is sent is in `Federation`.

### Worker

Each request is a run of a handler, `handler[h]`, and each await of a statement or
of another instance a step:

* register: `Insert`, one statement that also asks for names that differ by case;
* a signed request: `Authenticate` (reads the key, verifies the signature), then
  `Read`, or `Find` -> `Delete` (burn), `WriteBlock` (block, unblock), `Update` ->
  `Clear` (rotate) -> `ClearBlocks` (destroy);
* mail: `SenderKey` -> `RecipientKey` -> `CheckBlock` -> `Relay` -> `Store`, with no
  `Relay` to a local recipient.

`Break` ends a run at any step: a statement failed, or the Worker was cancelled.
The Worker reads an address in two ways. For keys, `getPubkeyForUser` takes what
stands before the first '@' for the name and what stands between it and the second for the instance;
for blocks and for the row of the mail, `normalizeAddress` and `addressDomain` take everything after the
first '@', in lower case. Nothing asks that there is one '@' only. An address in
`Odd` is one that the two read differently: `Account` is whom the keys are looked up of
(`ReadAs`), and `NamesOf` what blocks are looked up by. `SenderKey` and `RecipientKey` use the
first, `CheckBlock` and `Store` the second. `NoUnwantedMail` speaks of the sender as the
mail names it, and a user may block that name too (`Target`); of the account whose key an
odd address was read with it promises nothing, and a block of that account does not hold
such mail back. For an address in stored form the two readings are one.

A key pair is named by the request that brought it. A request arrives with a key
its user has had, current or not, or is to have. `moved`, `free` and `uncleared`
are history: an account the request concerns changed while it ran; the recipient
did not block the sender at some moment of the run; a rotation or destruction of
the name broke off before it deleted mail.

The Worker keeps less than the Go server: `MailReadable` excuses mail whose insertion
a rotation overtook, and the mail of an account whose rotation or destruction is,
or stopped, between two statements. Such a request answers 500 and cannot be
repeated, for the key that signed it is no longer the account's. What holds all
the same: one spelling of a name, no mail from a sender whose name was blocked all the
while, succession of keys, and no mail lost without a party to it.

### Versions and Update

A handler of `GET /api/client/version` goes `Look` (the cache under its lock) -> `Do`
(singleflight: join or begin) -> `Store` -> the answer; the fetch goes `Read` (GitHub
answers) -> `Land`, or `Break`, also when its time is up. Releases are numbers in the order of
`cli_version_cmp`, and `Publish` gives the next one its first client build. `build[n]` is
the build of release n for the platform at hand, `Upload` its upload, removal and new
upload (`release.yml` uploads with `--clobber`). `wentBack` is history: older news
were stored over newer ones.

A run of the client asks through the handler of its name: `Start` -> `Choose`
(`cli_self_update`'s guards, in `Choice`) or `NoAnswer`, then `Download`
-> `Downloaded` or `NotDownloaded` -> `Verify` -> the script, `Untar` -> `Copy` -> `Copied` ->
`Finish`. The download and the directory it is unpacked to have one name for all
runs, so a second run truncates what the first is about to read. `Kill` may come
anywhere; a full disk leaves a torn file. `locks` says whether the system refuses to
write to a running program.

History: `trouble` of a run is what it met (`fault`: something failed; `another update`),
`spoiled` that a copy was cut off or two updates met, `told` how the last step ended a run.

Not in it: the search for the program's path and a path that is too long, which
change nothing; a program installed by hand that is newer than the cache
(`update.c:311` asks only whether the tags are equal, so it is then replaced by the older
one); releases published in another order than that of their numbers; two
previews that compare equal.

## 3. Runs

Each run checks invariants and action or temporal properties that a bug could
break; the types of the modules with proofs are proved (section 4), for every value
of the constants.

| Run | Shows |
|---|---|
| `replay` | bounds on size and on memory, and what may be used twice. Three keys are the fewest with two others to fill a generation of `Max = 2`; times are two ticks in a unit, so that a reading within a second differs from one on it; the window is 5 units, 10 ticks, and the memory 8, so that it is too short, as it is in the code; `Lag` and `Stall` make calls swap and come late; `MaxTime = 18` is past the window of every key and more than two generations |
| `limiter` | two clients and a proxy, one or two hops, and headers that name another client, a proxy or nothing; `Lag = 1` makes calls swap and set a bucket's time back. A burst of 2, `Idle = 2` and six ticks are enough for a bucket to be emptied, swept one tick short of full (`Shortfall` is 1) and made again |
| `server` | all safety properties of `Server` with two handlers, users `a`, `b`, two free names `c`, `C` that differ by case, one remote user, twelve payloads of all kinds, of which one is in two spellings |
| `server_destroyed` | a rotation overtaken by a destruction revives the account |
| `fedkeys` | staleness, monotonic cache, and that lookups return; two callers are enough for joining and following, three keys for two rotations |
| `federation` | the promise of `Delivery`, drafts that stay until their text has arrived, a reason for each second copy, and that commands return. Texts do not interact, so one is enough; three submissions of it give a copy, a needless copy and one between |
| `client_keys` | the key files and the account after any four commands, two at a time, over two names: four are needed for a broken init, another one, a registration and a rotation. One passphrase and none are enough to tell two locks apart |
| `worker` | three requests of any kind to the Worker at once, one user `a` from the start and two names `b`, `B` of one spelling to register, one remote user, and an odd address `o` whose keys are looked up as `a`'s: three are a registration, a mail between two users, and what follows it |
| `drafts` | what happens to drafts under any three commands, two at a time, with kills, torn writes, unheard answers and a user who removes files. Three commands are a draft, its edit and its sending, or two that race and one that made what they race for; one mail and two users are a reply and a recipient it must not go to |
| `records` | trusted keys and saved mail under any three commands, two at a time, with kills, full disks, a known_hosts that cannot be opened, lost requests, users who rotate and a correspondent who burns. Three commands are a first mail, an update and a second mail, or a search beside a save and the burn after it; two users are a line that is replaced and one that stays, two keys a rotation, two mails an answer in one box and what it answers in the other |
| `update` | two updates of one program, with the cache and fetch of an instance between them and GitHub, kills and faults at every step. Releases stable, preview, stable make a preview that is old news; the last one's build is removed and uploaded again; an hour and a fetch of one tick each, and a clock that stops at 2, let the cache expire and be filled again |
| `federation_kept` | a `send` that ends before the request keeps no draft |

Bounds: in `Update` no run starts, and the relay rests, after an update was spoiled
(`ProgramRuns` and `ToldIsTrue` say nothing more of that program until somebody
installs it anew), `Builds` is how often the build of a release is uploaded and removed, and what
a run leaves in /tmp is forgotten when no other run is at work, as the next one
writes over it before it reads it; a handler stores in the tick in which its fetch
ended. `Target` in `Worker` is what may be blocked: `a`, the remote user, the odd address
and both instances, since nothing tells a block of `b` from one of `a`; `WorkerView` forgets
of a request that is over all but whose it was, which no step and no property reads;
`MaxEvents` is the number of distinct requests that arrive plus restarts
(3: a request, one that interferes and a third or a restart; each may be
delivered any number of times); `MaxTime` and `MaxKeys` stop the clock and the
rotations; `MaxSends` is how often a text may be submitted; `MaxId = 3` in `Drafts` is
never the limit, as each of three commands creates one draft at most. What two handlers cannot show, the proofs do: they are for any
number of handlers, users, payloads and events.

`Server`, `Replay` and `Limiter` have no deadlock: requests keep arriving. In `FedKeys` too,
a lookup can always begin. `Federation` may stop: when the user has nothing to
send, nothing remains to be done. So may `ClientKeys`, `Drafts` and `Records`,
when all their commands are done, `Worker`, when all its requests are, and `Update`,
when the update was spoiled and the other run is done.

Fairness is assumed only in `FedKeys` and `Federation`. In `FedKeys`, only of the
instance's own steps: `Look` and `Do` (a goroutine that can run does) and the steps of a request (its
context times out, so it ends in an answer or in `FetchFails`). Nothing is assumed
of callers, of the remote user or of the clock. In `Federation`, of the client
process past its prompt and of the sender's instance, whose every step is bounded
(`relayTimeout`, the database's busy timeout), and of the end of a
connection whose handler is gone (`HungUp`); nothing of the user or of the
recipient's instance. Server's properties are safety
properties: a client may hang up at any step, so no answer is promised.

### Where the code and its words differ

The doc comment of `ttlset.go` (line 5) says that a key is remembered for at most
`2*ttl`. Rotation happens only in a call, so a generation opened at 0 may be
rotated as late as just before `2*ttl`, and a key added at 0 lives in the previous
generation for another `ttl`: the bound that holds, and is proved, is `NoLateMemory`'s
`3*ttl`.

`PROJECT.json` gives two others, each with a run and its lines: `RotateKeys` updates a
destroyed row when its request was authenticated before the destruction; `send`
loses a text it has read when the subject is refused or the passphrase cannot be read.

Without a run of their own:

* auth.go:26-29 says that `fresh` tells whether the signature was used before, and
  0001_initial.sql:26-27 that a resubmitted mail is recognized instead of stored twice.
  Both go by a hash of the text, and `decodeB64` (sig.go:40-57) accepts several texts for one
  signature. What the module promises is therefore per spelling: with a fresh token, a payload may take
  effect once in each. The `server` run has a payload in two spellings, and in it `mail` may hold both.
* index.ts:434 says "Normalize both parties to the stored form before any lookup". The
  keys are looked up before, by the address as it was sent (index.ts:376-382, 282-311).
* docs/SPEC.md:624: before every send the client compares the key with the pinned one. When
  `known_hosts` is there and cannot be opened there is nothing to compare with, and the key is
  trusted as at a first contact (known_hosts.c:11-13, mail.c:157); `fingerprint --update`
  then keeps no line but its own (known_hosts.c:53, 61).
* docs/SPEC.md:250 calls a submission that is sent again safe, since it is answered
  like the first. One that overlaps the first finds no duplicate yet, and is
  refused for its token with 403 though the mail is accepted (`Spend` of `Server`).
* README.md:346, 353 and 429: `read` decrypts saved mail and drafts, `rotate` clears
  the mail at the instance. A rotation that goes well also overwrites the one key that
  saved mail and drafts are sealed to (`account.c:283`): nothing opens them any more.
  `PapersReadable` says that nothing else costs them.
* README.md:43 and docs/SPEC.md:915: `update` replaces the running program in place.
  `cp` (`update.c:391`) opens it for writing, which Linux refuses (ETXTBSY), so there no
  update succeeds; `UpdatesInPlace` says that nothing else stops one that meets no trouble.
* `main.c:2637` takes a missing stable release for one that is not installed, and advises
  `update stable`, which then finds nothing.

The code also does what no document denies, and `ClientKeys` shows: a rotation whose
answer is lost costs the account, for the client drops the keys the instance now
has; the same of a rotation whose four writes are cut off, and of two commands at
once. These are the exceptions `SignerKept` names.

## 4. Proofs

TLAPS checks, for every value of the constants that satisfies the `ASSUME` of the
module:

* `ReplayProofs`: `IInv` says of both generations who may be in them (a key of
  `cur` was accepted since `rotatedAt`, less the lag; a key of `prev` within
  `2*TTL` before its end), and that a key neither generation holds is either old
  or followed by `Max` others. `TypeOK`, `BoundedMemory`, `NoEarlyForgetting` and
  `NoLateMemory` follow. Cardinalities come from `FiniteSetTheorems`. `CallInv` adds
  when a pending call was in its window; with it every step of `Replay` is a step of
  `Ttlset` or none (`ImplementsTtlset`), and `ReplayOnlyLate` follows from
  `NoEarlyForgetting`. `NoReplayOfPunctual` is what it means for a client whose clock
  is right: as long as the window is longer than what it exceeds the memory by,
  its requests are used once.
* `Limiter`, in `ServerProofs`: first that `ClientIP` gives the client on every route, by
  arithmetic on the last entries of the header. `LimiterIInv` then relates the bucket
  to the exact one (`CreditInv`): with the gifts granted to it, the exact bucket holds
  what the bucket may hold to a call of now or of a lag ago; where a sweep drops a bucket,
  `Shortfall` is what makes this true of the full one that follows. Nothing is assumed of the settings. `SweepInv` says what the last
  sweep left, and `SweepsForget` follows if the lag is no longer than the idle time.
* `UpdateProofs`: `VersionsInv` (types, and news name releases of their channel and
  builds that were there) and `RunsInv`. The heart of the latter is `FilesInv`: while a
  run is alone, the files it is about to read are the build it chose, step by step,
  and `MeetInv`: two runs at work have met. `ProgramRuns`, `ToldIsTrue` and `UpdatesInPlace`
  follow. `TimeInv` bounds the age of the news (`NewsBounded`). `ForwardInv` is for
  `NoDowngrade`: unless the news went back, the cache knows of every release that is
  installed, unpacked, or on its way to a run. That a channel has a newest release
  (`MaxOfBounded`) comes from the well-founded order of the naturals.
* `ServerProofs`, in layers, each inductive on top of the ones before it:
  - `TypeInv`: types, and that a handler is only at steps of its operation;
  - `ReplayInv`: a signature, in the spelling it came in, that took effect, or whose handler is past
    `Remember`, is in `seen`, and at most one handler is past it; the same of
    tokens and `spent`. `OncePerBoot` follows;
  - `MailInv`: ids are below `nextId`, a signature in one spelling has one row, an answered id
    has its row or was deleted (`OneCopy`, `AnsweredMailKept`);
  - `BlockInv`: a handler past `CheckBlocked` has `wasFree`, and one whose
    recipient is free now has it too (`NoUnwantedMail`);
  - `KeyInv`: unless `keyMoved`, what a handler read or verified still is in the
    table (`MailReadable`), and the signer of an authenticated request holds the
    account (`KeySuccession`). That a name gets keys only when no name alike has a
    row is `CreateUser`'s guard, which `KeySuccession` relates to both rows.
  For each layer a lemma per group of actions says what the step does to the
  variables of that layer, so that the inductive step needs few definitions.

* `FedKeys`, in `FederationProofs`: `KeysIInv` adds to the types that entries and requests lie in the
  past (`PastInv`), that an answer is as old as its request at most and an entry
  one `Timeout` more (`AgeInv`), that a fresh lookup is never at `Look` (`FreshInv`),
  and that there is one request at a time whose answer is no older than the entry
  it will replace (`OrderInv`). `StalenessBounded` is proved along with them, since
  an answer is judged when it is given; `CacheMovesForward` follows from `OrderInv`.
* `FederationProofs`: `IInv` is types and four parts. `HandlerInv` relates the two
  handlers of a submission to the two databases and to what was told;
  `NumberInv` says that numbers above `sends` are unused, so a new submission starts
  clean; `AnswerInv` that a command waits only for an answer it has not had, and
  deletes only after "sent"; `RetryInv` that whoever may still submit a text has an
  excuse for its last submission. `DuplicatesExplained` and `DraftsKept` follow
  from it. `Refinement` maps `outcome` to `answered`: `RemoteInsert` is `Deliver`,
  `InsertCopy` is `File`, `Reply` and `NoReply` are `Tell`, every other step
  stutters, and it is `HandlerInv` that makes their guards true.

* `ClientKeysProofs`: `IInv` is types and four layers, each under a weaker promise of
  what has gone wrong so far. `RunInv`: where a command and its request can be, and
  that a key is on disk only once its command saved it; `CleanInv`, while
  commands do not overlap: a key that a rotation will overwrite, or a destruction
  remove, is the account's no more (`ObsoleteInv`), from which `LiveKeyStays`
  follows; `SignInv`, while no rotation was cut off: what took effect is what the
  account has until its command is done; `WholeInv`, while nothing went wrong: the
  files are all there and match, or none is, or how far the one writer has come.
  `AccountStep` says how the account a client goes by can change at all:
  a rotation's last write and a registration's config file are the only ways.
  `PapersReadable` is not inductive: a draft may be sealed with the public key that
  init has just written, before there is a secret one. `PaperInv` therefore speaks of
  `kem_pk.bin`, at every step and not only of an idle client, and `WholeInv` gives that the
  two files then match; mail that is saved is sealed to the same key by `ReaderKept`.

* `DraftsProofs`: `IInv` adds to the five properties what each command holds
  (`CommandOK`): the fields its step needs (`StepOK`), that a reply is addressed to
  its party unless it was read again from a crossed draft (`AddressOK`), that the
  file of a command holds the text it read, or is torn by its own writing, unless
  the id is crossed (`KnowOK`), and where the texts it holds have been saved
  (`TextOK`); and that two commands never share an id that is not crossed (`CrossInv`).
  Most steps change one command and no file, and `Quiet` does them all; `Tears`,
  `WriteKeeps` and `Unlinks` do the steps that change a file, with `Bystander` for
  the commands that do not move. `ChangedKnowingly` follows from `KnowOK`.

* `WorkerProofs`: no request of the Worker is a transaction, so `IInv` says what each
  one still knows when it comes to its next statement. `NamesAreRead` is what the two
  readings of an address have in common: a name is its own account, and no odd address is a name. `RowInv`: who is about to
  rotate has a row. `KeyInv`: what a request read of an account still holds unless
  the account moved since (`moved`), which gives `MailReadable` when the mail is stored.
  `BlockInv`: a request past its check was free to send at some moment
  (`NoUnwantedMail`), and one that is not blocked now is free now. `MailInv`: a mail is of a request that is over, and
  only a party of it is about to delete it. `OneSpelling` takes no more than `RowInv`,
  for `Insert` is one statement. `KeySuccession` and `LossExplained` are about steps and follow
  from `IInv` before each.

* `RecordsProofs`: `IInv` is the three properties and what they rest on. `PinsHold` needs
  to know what the rename will bring: `FileInv` (known_hosts and its copy are two
  files, and neither was made by a command that is still to make one), `UpdateInv`
  (while any line is safe there is one update at a time, and the copy is its own), and
  `LineInv` (of a user whose line is safe no line was cut; what an update reads has the
  key of known_hosts, if it could be read; the copy has it too, but for the user whose new key it brings). `Unseen` is used where an append
  meets an update: a user who is added while the file is rewritten is `loose`. An
  update that starts during another makes everybody `loose`, so from there on only `FileInv` is left to show.
  `MailInv` and `SearchInv` are for the rest: once a mail was in no box
  and yet somewhere, it is gone from the instance for good, and so it is saved.
  `UpdatedLines` says what the copy is, for a file of any length. `LinesBut` recurs over
  the lines, and the induction is over the least number of lines for which the claim
  would fail (`LeastOf`, from the well-founded order of the naturals): first for the
  recursive function to exist at all (`CopiesExist`), then for what it returns.

Every invariant, every action property and the refinement that the passing runs check
are proved. What the two runs that look for a violation show is a single behaviour.

Out of the prover's reach, and left to TLC: liveness (`LookupsReturn`,
`CommandsReturn`), and with
it everything that needs ENABLED; the induction theorems of the library, in whose place
stand least counterexamples; RECURSIVE operators, of which there are none.

## 5. Not modelled, and the plan

Not modelled at all: cryptography (a signature is its payload, in a spelling), byte formats and
field validation, wording of answers, the display and prompts of the client, the
web interface, the vendored JSON parser, configuration and flags, the import of a Worker
database.

Left out of the modules that exist: the listing of saved mail, the search for the
program's path and the questions of setup, the Worker's answers to `version` and
`pubkey`, all of which change nothing; the address and redirect checks of the
instance's HTTP client; opening and migrating the database file.

Planned: `Import`, the conversion of a Worker database, as operators compared with a
reference definition over small tables.

Worth proving next: that `Federation` and `Drafts` together keep every text; an abstract
register of accounts (free, live under a key, gone) that both `Server` and `Worker` implement.
