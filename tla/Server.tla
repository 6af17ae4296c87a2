------------------------------- MODULE Server -------------------------------
(***************************************************************************)
(* One instance of the Go server: its database and the requests in flight  *)
(* (server/go/internal/api, server/go/internal/store).                     *)
(*                                                                         *)
(* Every request runs in a goroutine of its own.  What the handlers share  *)
(* is the database, whose writes are transactions on one connection, and   *)
(* the two replay memories, each behind its mutex.  A handler is therefore *)
(* a sequence of steps, one for every access to one of these, and the      *)
(* steps of different handlers interleave: what an early step read may no  *)
(* longer hold when a late step writes.                                    *)
(*                                                                         *)
(* Data is abstracted as follows.  A key pair (KEM and signature key, which*)
(* change only together) is one value of Key, which is its own fingerprint.*)
(* A signature is the payload it signs and the way it is written: base64 in*)
(* either alphabet, padded or not, with spaces or without (decodeB64), or  *)
(* made anew for the same payload.  It verifies in every spelling, but what*)
(* is remembered and stored of it is the text that was sent.  A request is *)
(* a signature and a proof-of-work token, which no signature covers.       *)
(* An address is in stored form: a local user of User, an address of Remote*)
(* at another instance, or a whole instance of Domain.  The network may    *)
(* deliver any request any number of times, in any order.  The age of a    *)
(* timestamp is left out: any request may be refused as too old, and the   *)
(* memories forget only when the process ends (Ttlset models when else).   *)
(***************************************************************************)
EXTENDS Naturals, FiniteSets

CONSTANTS User, Remote, Domain,   \* addresses, in stored form
          DomainOf,               \* the instance an address belongs to
          Fold,                   \* a user name, folded to lower case
          Key, RemoteKey,         \* key pairs, and those another instance answers
          Pow, PowFor,            \* tokens, and the resource of each
          Spelling,               \* the ways to write a signature
          Payloads,               \* what is signed, as it is written
          InitialRow,             \* the accounts at the start
          Handler,                \* places for requests in flight
          RegistrationEnabled, FederationEnabled,
          Absent,                 \* no such row, no such user
          Destroyed,              \* empty keys
          Unreachable,            \* a remote instance does not answer
          NoRequest,
          MaxEvents               \* bound: distinct requests that arrive, and restarts

Op == {"register", "send", "read", "burn", "block", "unblock", "rotate", "destroy"}

Address == User \cup Remote

\* Which fields an operation uses: send goes to target under key; register
\* and rotate install key; block and unblock name target; burn names mail.
Payload == [op : Op, user : Address, signer : Key, target : Address \cup Domain,
            key : Key, mail : Nat, reply : BOOLEAN, spelling : Spelling]

ASSUME ServerAssumption ==
    /\ User \cap Remote = {}
    /\ DomainOf \in [Address -> Domain]
    /\ \A u \in User : u \in DOMAIN Fold
    /\ RemoteKey \subseteq Key
    /\ Absent \notin Key /\ Destroyed \notin Key /\ Absent # Destroyed
    /\ Unreachable \notin Key \cup {Absent, Destroyed}
    /\ PowFor \in [Pow -> Address]
    /\ Payloads \subseteq Payload
    /\ \A p \in Payloads : IF p.op = "send" THEN p.target \in Address
                                            ELSE p.user \in User
    /\ InitialRow \in [User -> Key \cup {Absent, Destroyed}]
    /\ \A u, v \in User : (/\ Fold[u] = Fold[v]
                           /\ InitialRow[u] # Absent
                           /\ InitialRow[v] # Absent) => u = v
    /\ RegistrationEnabled \in BOOLEAN /\ FederationEnabled \in BOOLEAN
    /\ NoRequest \notin [sig : Payloads, pow : Pow]
    /\ MaxEvents \in Nat

Request == [sig : Payloads, pow : Pow]

VARIABLES row,        \* users table: the keys of each name
          mail,       \* mail table
          blocks,     \* blocks table: pairs <<blocker, blocked>>
          nextId,     \* mail ids are random and never repeat: numbered here
          seen, spent,        \* the replay memories: signatures and tokens
          pc, req, senderKey  \* each handler's step, request and local copy

dbVars == <<row, mail, blocks, nextId>>
handlerVars == <<pc, req, senderKey>>

\* History, for the properties only.
VARIABLES arrived,    \* requests that have arrived
          restarts,
          applied,    \* effects of each signature, as written, since the last restart
          paid,       \* effects each token paid for since the last restart
          answers,    \* answers to submissions of mail
          removed,    \* ids of mail rows that were deleted
          keyMoved,   \* an account a handler relies on changed meanwhile
          wasFree     \* its recipient did not block its sender at some time

history == <<arrived, restarts, applied, paid, answers, removed, keyMoved, wasFree>>
vars == <<dbVars, seen, spent, handlerVars, history>>

Steps == {"idle", "auth", "seen", "spend", "apply", "senderKeys",
          "recipientKeys", "recheck", "verify", "blocked", "duplicate",
          "level", "relay", "insert"}

Outcome == {"sent", "tokenSpent"}  \* of a submission, in the history

MailRow == [id : Nat, sender : Address, recipient : Address, sig : Payloads,
            late : BOOLEAN, wanted : BOOLEAN]
            \* late and wanted are history: keyMoved and wasFree at the insertion

Init ==
    /\ row = InitialRow
    /\ mail = {} /\ blocks = {} /\ nextId = 1
    /\ seen = {} /\ spent = {}
    /\ pc = [h \in Handler |-> "idle"]
    /\ req = [h \in Handler |-> NoRequest]
    /\ senderKey = [h \in Handler |-> Absent]
    /\ arrived = {} /\ restarts = 0
    /\ applied = [p \in Payloads |-> 0]
    /\ paid = [w \in Pow |-> 0]
    /\ answers = {} /\ removed = {}
    /\ keyMoved = [h \in Handler |-> FALSE]
    /\ wasFree = [h \in Handler |-> FALSE]

-----------------------------------------------------------------------------
\* Shorthands.

Sig(h) == req[h].sig

At(h, step) == pc[h] = step

Applying(h, op) == pc[h] = "apply" /\ Sig(h).op = op

\* The blocks of an instance forgotten.
BlocksByAddress(recipient, sender) == <<recipient, sender>> \in blocks

\* The check a sender meets (store/sqlite Blocked).
IsBlocked(recipient, sender) ==
    \E candidate \in {sender, DomainOf[sender]} : <<recipient, candidate>> \in blocks

\* Whether the recipient of p wants its sender's mail, given a blocks table.
Welcome(p, table) ==
    \A candidate \in {p.user, DomainOf[p.user]} : <<p.target, candidate>> \notin table

\* The accounts whose keys a handler relies on.
Concerns(p) == IF p.op = "send" THEN {p.user, p.target} ELSE {p.user}

GoTo(h, step) == pc' = [pc EXCEPT ![h] = step]

\* The handler returns; its locals are gone.
Done(h) ==
    /\ GoTo(h, "idle")
    /\ req' = [req EXCEPT ![h] = NoRequest]
    /\ senderKey' = [senderKey EXCEPT ![h] = Absent]

Forget(h) ==
    /\ keyMoved' = [keyMoved EXCEPT ![h] = FALSE]
    /\ wasFree' = [wasFree EXCEPT ![h] = FALSE]

\* Answer a submission of mail; id is 0 unless it was accepted.  The history
\* keeps the answers that tell the sender whether to try again.
Answered(h, outcome, id) ==
    answers' = IF Sig(h).op = "send" /\ outcome \in Outcome
               THEN answers \cup {[sig |-> Sig(h), outcome |-> outcome, id |-> id]}
               ELSE answers

\* Answer with an error and change nothing.
Refuse(h, outcome) ==
    /\ Done(h)
    /\ Forget(h)
    /\ Answered(h, outcome, 0)
    /\ UNCHANGED <<dbVars, arrived, restarts, applied, paid, removed>>

\* Go on to the next step with the database and the history as they are.
Proceed(h, step) ==
    /\ GoTo(h, step)
    /\ UNCHANGED <<dbVars, req, history>>

-----------------------------------------------------------------------------
\* A request arrives (handlers.go and auth.go up to the first access to
\* shared state).

\* The checks that need no shared state: sendMail refuses to relay between
\* two others, a token is good for its resource only, and register verifies
\* the signature with the key it installs.
Admissible(r) ==
    /\ r.sig.op = "register" => RegistrationEnabled /\ r.sig.signer = r.sig.key
    /\ r.sig.op = "send" => r.sig.user \in User \/ r.sig.target \in User
    /\ PowFor[r.pow] = r.sig.user

FirstStep(op) ==
    CASE op = "register" -> "seen"
      [] op = "send" -> "senderKeys"
      [] OTHER -> "auth"

Arrive(h, r) ==
    /\ At(h, "idle")
    /\ arrived' = arrived \cup {r}
    /\ Cardinality(arrived') + restarts <= MaxEvents
    /\ Admissible(r)
    /\ GoTo(h, FirstStep(r.sig.op))
    /\ req' = [req EXCEPT ![h] = r]
    /\ wasFree' = [wasFree EXCEPT ![h] =
                      r.sig.op = "send" /\ Welcome(r.sig, blocks)]
    /\ UNCHANGED <<dbVars, seen, spent, senderKey, restarts, applied, paid,
                   answers, removed, keyMoved>>

-----------------------------------------------------------------------------
\* Header authentication (auth.go) and the replay memories.

\* Whose signature it is goes unchecked.
AuthenticateLive(h) ==
    /\ At(h, "auth")
    /\ \/ /\ row[Sig(h).user] \in Key
          /\ Proceed(h, "seen")
          /\ UNCHANGED senderKey
       \/ /\ row[Sig(h).user] \notin Key
          /\ Refuse(h, "unauthorized")
    /\ UNCHANGED <<seen, spent>>

\* The signature is verified with the keys in the database now, however it is
\* written.
Authenticate(h) ==
    /\ At(h, "auth")
    /\ \/ /\ row[Sig(h).user] = Sig(h).signer
          /\ Proceed(h, "seen")
          /\ UNCHANGED senderKey
       \/ /\ row[Sig(h).user] # Sig(h).signer
          /\ Refuse(h, "unauthorized")
    /\ UNCHANGED <<seen, spent>>

RememberUnchecked(h) ==
    /\ At(h, "seen")
    /\ seen' = seen \cup {Sig(h)}
    /\ Proceed(h, "spend")
    /\ UNCHANGED <<senderKey, spent>>

\* fresh, first half: seen.Add, of the signature as it is written.
Remember(h) ==
    /\ At(h, "seen")
    /\ \/ /\ Sig(h) \notin seen
          /\ seen' = seen \cup {Sig(h)}
          /\ Proceed(h, "spend")
          /\ UNCHANGED senderKey
       \/ /\ Sig(h) \in seen
          /\ Refuse(h, "replayed")
          /\ UNCHANGED seen
    /\ UNCHANGED spent

\* Where a request goes once it has paid.
AfterPayment(p) ==
    CASE p.op # "send" -> "apply"
      [] p.op = "send" /\ p.target \in User -> "insert"
      [] OTHER -> "relay"

\* fresh, second half, and sendMail: spent.Add.
Spend(h) ==
    /\ At(h, "spend")
    /\ \/ /\ req[h].pow \notin spent
          /\ spent' = spent \cup {req[h].pow}
          /\ Proceed(h, AfterPayment(Sig(h)))
          /\ UNCHANGED senderKey
       \/ /\ req[h].pow \in spent
          /\ Refuse(h, "tokenSpent")
          /\ UNCHANGED spent
    /\ UNCHANGED seen

-----------------------------------------------------------------------------
\* What an authenticated request does to the database: one transaction each.

\* The handler took effect and answers.
Effect(h) ==
    /\ Done(h)
    /\ applied' = [applied EXCEPT ![Sig(h)] = @ + 1]
    /\ paid' = [paid EXCEPT ![req[h].pow] = @ + 1]
    /\ UNCHANGED <<seen, spent, arrived, restarts>>

\* Account u changed under the other handlers that are about it.
KeysMove(h, u) ==
    keyMoved' = [g \in Handler |->
                    /\ g # h
                    /\ \/ keyMoved[g]
                       \/ pc[g] # "idle" /\ u \in Concerns(Sig(g))]

\* Blocks changed under the other handlers, to what they are in this step.
BlocksMove(h) ==
    wasFree' = [g \in Handler |->
                    /\ g # h
                    /\ \/ wasFree[g]
                       \/ /\ pc[g] # "idle" /\ Sig(g).op = "send"
                          /\ Welcome(Sig(g), blocks')]

OfUser(u) == {m \in mail : m.sender = u \/ m.recipient = u}

DeleteMail(rows) ==
    /\ mail' = mail \ rows
    /\ removed' = removed \cup {m.id : m \in rows}

NameTaken(u) == \E v \in User : row[v] # Absent /\ Fold[v] = Fold[u]

CreateUser(h) ==
    /\ Applying(h, "register")
    /\ \/ /\ ~NameTaken(Sig(h).user)
          /\ row' = [row EXCEPT ![Sig(h).user] = Sig(h).key]
          /\ KeysMove(h, Sig(h).user)
          /\ wasFree' = [wasFree EXCEPT ![h] = FALSE]
          /\ Effect(h)
          /\ UNCHANGED <<mail, blocks, nextId, answers, removed>>
       \/ /\ NameTaken(Sig(h).user)
          /\ Refuse(h, "conflict")
          /\ UNCHANGED <<seen, spent>>

\* Rotation without the deletion of the mail under the old key.
RotateKeepingMail(h) ==
    /\ Applying(h, "rotate")
    /\ row[Sig(h).user] # Absent
    /\ row' = [row EXCEPT ![Sig(h).user] = Sig(h).key]
    /\ KeysMove(h, Sig(h).user)
    /\ wasFree' = [wasFree EXCEPT ![h] = FALSE]
    /\ Effect(h)
    /\ UNCHANGED <<mail, removed, blocks, nextId, answers>>

\* The row that was authenticated may have changed since: the UPDATE asks
\* neither for the old key nor for a live account.
RotateKeys(h) ==
    /\ Applying(h, "rotate")
    /\ row[Sig(h).user] # Absent
    /\ row' = [row EXCEPT ![Sig(h).user] = Sig(h).key]
    /\ DeleteMail(OfUser(Sig(h).user))
    /\ KeysMove(h, Sig(h).user)
    /\ wasFree' = [wasFree EXCEPT ![h] = FALSE]
    /\ Effect(h)
    /\ UNCHANGED <<blocks, nextId, answers>>

DestroyUser(h) ==
    /\ Applying(h, "destroy")
    /\ row[Sig(h).user] # Absent
    /\ row' = [row EXCEPT ![Sig(h).user] = Destroyed]
    /\ DeleteMail(OfUser(Sig(h).user))
    /\ blocks' = {b \in blocks : Sig(h).user \notin {b[1], b[2]}}
    /\ KeysMove(h, Sig(h).user)
    /\ BlocksMove(h)
    /\ Effect(h)
    /\ UNCHANGED <<nextId, answers>>

\* AddBlock and RemoveBlock; neither asks whether the blocker still lives.
ChangeBlocks(h) ==
    /\ \/ /\ Applying(h, "block")
          /\ blocks' = blocks \cup {<<Sig(h).user, Sig(h).target>>}
       \/ /\ Applying(h, "unblock")
          /\ blocks' = blocks \ {<<Sig(h).user, Sig(h).target>>}
    /\ BlocksMove(h)
    /\ keyMoved' = [keyMoved EXCEPT ![h] = FALSE]
    /\ Effect(h)
    /\ UNCHANGED <<row, mail, nextId, answers, removed>>

\* DELETE ... WHERE mail_id = ? AND (sender = ? OR recipient = ?)
BurnMail(h) ==
    /\ Applying(h, "burn")
    /\ DeleteMail({m \in OfUser(Sig(h).user) : m.id = Sig(h).mail})
    /\ Forget(h)
    /\ Effect(h)
    /\ UNCHANGED <<row, blocks, nextId, answers>>

\* getMail, listMail, listBlocks: they cost a signature and a token.
Read(h) ==
    /\ Applying(h, "read")
    /\ Forget(h)
    /\ Effect(h)
    /\ UNCHANGED <<dbVars, answers, removed>>

-----------------------------------------------------------------------------
\* sendMail, in the order of the code.

\* The answers keysOf may give.  What another instance answers is not up to
\* this one.
KeysOf(a) ==
    IF a \in User THEN {row[a]}
    ELSE IF FederationEnabled THEN RemoteKey \cup {Absent, Destroyed, Unreachable}
    ELSE {Absent}

SenderKeys(h) ==
    /\ At(h, "senderKeys")
    /\ \E k \in KeysOf(Sig(h).user) :
          \/ /\ k \in Key
             /\ senderKey' = [senderKey EXCEPT ![h] = k]
             /\ Proceed(h, "recipientKeys")
          \/ /\ k = Unreachable
             /\ Refuse(h, "senderUnreachable")
          \/ /\ k \in {Absent, Destroyed}
             /\ Refuse(h, "unauthorized")
    /\ UNCHANGED <<seen, spent>>

\* A mismatch with keys that may be cached asks the remote instance again.
RecipientKeys(h) ==
    /\ At(h, "recipientKeys")
    /\ \E k \in KeysOf(Sig(h).target) :
          \/ /\ k = Sig(h).key
             /\ Proceed(h, "verify")
             /\ UNCHANGED senderKey
          \/ /\ k \in Key \ {Sig(h).key} /\ Sig(h).target \in Remote
             /\ Proceed(h, "recheck")
             /\ UNCHANGED senderKey
          \/ /\ k \in Key \ {Sig(h).key} /\ Sig(h).target \in User
             /\ Refuse(h, "keyMismatch")
          \/ /\ k = Absent
             /\ Refuse(h, "notFound")
          \/ /\ k = Unreachable
             /\ Refuse(h, "unreachable")
          \/ /\ k = Destroyed
             /\ Refuse(h, "gone")
    /\ UNCHANGED <<seen, spent>>

RecheckRecipient(h) ==
    /\ At(h, "recheck")
    /\ \E k \in KeysOf(Sig(h).target) :
          \/ /\ k = Sig(h).key
             /\ Proceed(h, "verify")
             /\ UNCHANGED senderKey
          \/ /\ k # Sig(h).key
             /\ Refuse(h, "keyMismatch")
    /\ UNCHANGED <<seen, spent>>

AfterVerify(p) == IF p.target \in User THEN "blocked" ELSE "duplicate"

\* A signature that fails under a remote sender's keys is tried again under
\* keys fetched anew.
VerifySignature(h) ==
    /\ At(h, "verify")
    /\ \/ /\ \/ senderKey[h] = Sig(h).signer
             \/ /\ Sig(h).user \in Remote
                /\ Sig(h).signer \in KeysOf(Sig(h).user)
          /\ Proceed(h, AfterVerify(Sig(h)))
          /\ UNCHANGED senderKey
       \/ /\ senderKey[h] # Sig(h).signer
          /\ \/ Sig(h).user \in User
             \/ KeysOf(Sig(h).user) # {Sig(h).signer}
          /\ Refuse(h, "unauthorized")
    /\ UNCHANGED <<seen, spent>>

CheckBlocked(h) ==
    /\ At(h, "blocked")
    /\ \/ /\ ~IsBlocked(Sig(h).target, Sig(h).user)
          /\ Proceed(h, "duplicate")
          /\ UNCHANGED senderKey
       \/ /\ IsBlocked(Sig(h).target, Sig(h).user)
          /\ Refuse(h, "blocked")
    /\ UNCHANGED <<seen, spent>>

Accept(h, id) ==
    /\ Done(h)
    /\ Forget(h)
    /\ Answered(h, "sent", id)

AfterDuplicate(p) ==
    IF p.reply /\ p.target \in Remote THEN "level" ELSE "spend"

\* MailIDBySignature, of the signature as it is written.  An error of the store counts as "no such mail".
FindDuplicate(h) ==
    /\ At(h, "duplicate")
    /\ \/ \E m \in mail :
             /\ m.sig = Sig(h)
             /\ Accept(h, m.id)
             /\ UNCHANGED <<dbVars, arrived, restarts, applied, paid, removed>>
       \/ /\ Proceed(h, AfterDuplicate(Sig(h)))
          /\ UNCHANGED senderKey
    /\ UNCHANGED <<seen, spent>>

\* GET /api/version of the recipient's instance.
CheckLevel(h) ==
    /\ At(h, "level")
    /\ \/ /\ Proceed(h, "spend")
          /\ UNCHANGED senderKey
       \/ \E outcome \in {"noReplies", "unreachable"} : Refuse(h, outcome)
    /\ UNCHANGED <<seen, spent>>

\* The remote instance accepts, refuses, or does not answer in time, in which
\* case it may have accepted.
Relay(h) ==
    /\ At(h, "relay")
    /\ \/ /\ Proceed(h, "insert")
          /\ UNCHANGED senderKey
       \/ \E outcome \in {"refused", "unreachable"} : Refuse(h, outcome)
    /\ UNCHANGED <<seen, spent>>

NewMail(h) ==
    [id |-> nextId, sender |-> Sig(h).user, recipient |-> Sig(h).target,
     sig |-> Sig(h), late |-> keyMoved[h], wanted |-> wasFree[h]]

\* InsertMail that answers with the id it meant to use.
InsertAnsweringNewId(h) ==
    /\ At(h, "insert")
    /\ mail' = IF \E m \in mail : m.sig = Sig(h) THEN mail ELSE mail \cup {NewMail(h)}
    /\ nextId' = nextId + 1
    /\ Accept(h, nextId)
    /\ paid' = [paid EXCEPT ![req[h].pow] = @ + 1]
    /\ UNCHANGED <<row, blocks, seen, spent, arrived, restarts, applied, removed>>

\* InsertMail without the unique index on sig_hash.
InsertAlways(h) ==
    /\ At(h, "insert")
    /\ mail' = mail \cup {NewMail(h)}
    /\ nextId' = nextId + 1
    /\ Accept(h, nextId)
    /\ paid' = [paid EXCEPT ![req[h].pow] = @ + 1]
    /\ UNCHANGED <<row, blocks, seen, spent, arrived, restarts, applied, removed>>

\* A second copy of a signature is not stored: the first one's id is answered.
\* The unique index is on the hash of the text.
InsertMail(h) ==
    /\ At(h, "insert")
    /\ \/ \E m \in mail :
             /\ m.sig = Sig(h)
             /\ Accept(h, m.id)
             /\ UNCHANGED <<mail, nextId>>
       \/ /\ \A m \in mail : m.sig # Sig(h)
          /\ mail' = mail \cup {NewMail(h)}
          /\ nextId' = nextId + 1
          /\ Accept(h, nextId)
    /\ paid' = [paid EXCEPT ![req[h].pow] = @ + 1]
    /\ UNCHANGED <<row, blocks, seen, spent, arrived, restarts, applied, removed>>

-----------------------------------------------------------------------------
\* An access to the database fails, or the client hangs up and its context is
\* cancelled: 500, nothing written.
StoreFails(h) ==
    /\ pc[h] \in {"auth", "apply", "senderKeys", "recipientKeys", "blocked", "insert"}
    /\ Refuse(h, "internal")
    /\ UNCHANGED <<seen, spent>>

\* The process ends and starts again.  The database stays; the replay memories
\* and the requests in flight are gone, unanswered.
Restart ==
    /\ arrived # {}  \* otherwise nothing would change
    /\ Cardinality(arrived) + restarts < MaxEvents
    /\ restarts' = restarts + 1
    /\ seen' = {} /\ spent' = {}
    /\ pc' = [h \in Handler |-> "idle"]
    /\ req' = [h \in Handler |-> NoRequest]
    /\ senderKey' = [h \in Handler |-> Absent]
    /\ keyMoved' = [h \in Handler |-> FALSE]
    /\ wasFree' = [h \in Handler |-> FALSE]
    /\ applied' = [p \in Payloads |-> 0]
    /\ paid' = [w \in Pow |-> 0]
    /\ UNCHANGED <<dbVars, arrived, answers, removed>>

Handle(h) ==
    \/ Authenticate(h) \/ Remember(h) \/ Spend(h)
    \/ CreateUser(h) \/ RotateKeys(h) \/ DestroyUser(h)
    \/ ChangeBlocks(h) \/ BurnMail(h) \/ Read(h)
    \/ SenderKeys(h) \/ RecipientKeys(h) \/ RecheckRecipient(h)
    \/ VerifySignature(h) \/ CheckBlocked(h) \/ FindDuplicate(h)
    \/ CheckLevel(h) \/ Relay(h) \/ InsertMail(h)
    \/ StoreFails(h)

Next ==
    \/ \E h \in Handler : \E r \in Request : Arrive(h, r)
    \/ \E h \in Handler : Handle(h)
    \/ Restart

Spec == Init /\ [][Next]_vars

-----------------------------------------------------------------------------
TypeOK ==
    /\ row \in [User -> Key \cup {Absent, Destroyed}]
    /\ mail \subseteq MailRow
    /\ blocks \subseteq User \X (Address \cup Domain)
    /\ nextId \in Nat
    /\ seen \subseteq Payloads
    /\ spent \subseteq Pow
    /\ pc \in [Handler -> Steps]
    /\ req \in [Handler -> Request \cup {NoRequest}]
    /\ senderKey \in [Handler -> Key \cup {Absent}]
    /\ \A h \in Handler : pc[h] # "idle" => req[h] \in Request
    /\ arrived \subseteq Request
    /\ restarts \in Nat
    /\ applied \in [Payloads -> Nat]
    /\ paid \in [Pow -> Nat]
    /\ answers \subseteq [sig : Payloads, outcome : Outcome, id : Nat]
    /\ removed \subseteq Nat
    /\ keyMoved \in [Handler -> BOOLEAN]
    /\ wasFree \in [Handler -> BOOLEAN]

\* Replay protection (auth.go fresh, SPEC 3.4 and 3.5): between two restarts
\* no signature takes effect twice in one spelling, and no token pays for two
\* requests, however the network repeats, delays or overlaps them.  A payload
\* may take effect once for each spelling in which it is sent with a token of
\* its own: fresh remembers the text of a signature, and Verify reads past it.
OncePerBoot ==
    /\ \A p \in Payloads : applied[p] <= 1
    /\ \A w \in Pow : paid[w] <= 1

\* Idempotent submission (sqlite.go InsertMail, SPEC 3.4): however often and
\* however concurrently a signature is submitted in one spelling, and across
\* restarts, it is stored once, and no two mails share an id.  Two rows of one
\* payload are two spellings of its signature.
OneCopy == \A m, n \in mail : m.sig = n.sig \/ m.id = n.id => m = n

\* An id the client was given names that client's mail: the row is there, with
\* this signature, unless it was deleted later (handlers.go sendMail).
AnsweredMailKept ==
    \A x \in answers :
        x.outcome = "sent" =>
            \/ x.id \in removed
            \/ \E m \in mail : m.id = x.id /\ m.sig = x.sig

\* The blocklist is in force for local recipients: a mail is stored only if,
\* at some moment while its submission was handled, its recipient blocked
\* neither its sender nor the sender's instance (handlers.go sendMail).
NoUnwantedMail == \A m \in mail : m.recipient \in User => m.wanted

\* Every mail in the database is readable: it was encrypted to the present key
\* of its local recipient and signed with that of its local sender, because
\* rotation and destruction delete the mail of the old key.  The exception is
\* the mail that was stored after the account changed under its handler:
\* sendMail reads the keys long before InsertMail.
MailReadable ==
    \A m \in mail :
        \/ m.late
        \/ /\ m.recipient \in User => row[m.recipient] = m.sig.key
           /\ m.sender \in User => row[m.sender] = m.sig.signer

\* A name gets keys when neither it nor one that differs from it by case has a
\* row.  Then they change only by a rotation or a destruction that those keys
\* signed, unless they changed while it was handled; and a name that was taken
\* stays taken (handlers.go rotate, destroy and register; sqlite.go CreateUser).
KeySuccession ==
    [][\A u \in User :
          row'[u] # row[u] =>
              /\ row'[u] # Absent
              /\ row[u] = Absent =>
                    \A v \in User \ {u} : Fold[v] = Fold[u] => row'[v] = Absent
              /\ row[u] # Absent =>
                    \E h \in Handler :
                       /\ pc[h] = "apply" /\ pc'[h] = "idle"
                       /\ Sig(h).op \in {"rotate", "destroy"} /\ Sig(h).user = u
                       /\ Sig(h).signer = row[u] \/ keyMoved[h]]_vars

\* A destroyed account's row stays to lock the name (store.go:22): it never
\* gets keys again.  It does not hold: a rotation authenticated before the
\* destruction and applied after it gives the account keys.
DestroyedStaysDestroyed ==
    [][\A u \in User : row[u] = Destroyed => row'[u] = Destroyed]_vars
=============================================================================
