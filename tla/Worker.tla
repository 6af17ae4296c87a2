------------------------------- MODULE Worker -------------------------------
(***************************************************************************)
(* The Cloudflare Worker (server/cf/src/index.ts): the API of the Go server*)
(* (Server), with one D1 statement at a time where that has a transaction, *)
(* and without its replay memories.  Each request is a run of a handler;   *)
(* every await of a statement or of another instance is a step, between    *)
(* which other handlers take theirs.  At any step a statement may fail or  *)
(* the run be cancelled: what it did before stays.                         *)
(*                                                                         *)
(* A key pair is named by the request that brought it, or by the user who  *)
(* has it from the start; it is its own fingerprint.  Parsing, proof of    *)
(* work and timestamps refuse a request before its first statement and     *)
(* without a trace: such requests do not arrive.                           *)
(*                                                                         *)
(* An address is read in two ways, and nothing checks its form.  Blocks and*)
(* mail name it as normalizeAddress stores it: a local user bare, any other*)
(* with what follows the first '@' in lower case.  The keys are those of   *)
(* the account that getPubkeyForUser finds between the first '@' and the   *)
(* second.  The two agree unless an address has a second '@' (Odd).        *)
(***************************************************************************)
EXTENDS FiniteSets

CONSTANTS Request,        \* requests, each handled once
          Name,           \* user names that may be registered
          Lower,          \* a name, folded to lower case
          Registered,     \* names registered from the start
          Remote,         \* users of the other instance
          Odd,            \* addresses with a second '@', in stored form
          ReadAs,         \* the account whose keys such an address finds
          Here, There,    \* the two instances, as the target of a block
          Target,         \* what users may block: addresses and instances
          Free,           \* no row has the name
          Gone,           \* the row of a destroyed account: empty keys
          Nobody

ASSUME WorkerAssumption ==
    /\ \A n \in Name : n \in DOMAIN Lower
    /\ Registered \subseteq Name /\ Registered # {}
    /\ \A m, n \in Registered : Lower[m] = Lower[n] => m = n
    /\ Name \cap Remote = {} /\ Name \cap Request = {} /\ Here # There
    /\ {Here, There} \cap (Name \cup Remote) = {}
    /\ Odd \cap (Name \cup Remote) = {}
    /\ \A odd \in Odd : odd \in DOMAIN ReadAs /\ ReadAs[odd] \in Name \cup Remote
    /\ Target \subseteq Name \cup Remote \cup Odd \cup {Here, There}
    /\ {Free, Gone} \cap (Name \cup Request) = {} /\ Free # Gone
    /\ Nobody \notin Name \cup Remote \cup {Here, There} \cup Request

\* Addresses of accounts, and all that a request may write for one.
Address == Name \cup Remote
Written == Address \cup Odd

\* The account a written address is taken for when keys are looked up.
Account(written) == IF written \in Odd THEN ReadAs[written] ELSE written

VARIABLES users,     \* users table: the key pair of each name
          mail,      \* mail table
          blocks,    \* blocks table: pairs <<blocker, blocked>>
          handler    \* the run of each request: its step and what it holds

db == <<users, mail, blocks>>

\* History, for the properties.
VARIABLES moved,     \* an account that a request concerns changed meanwhile
          free,      \* its recipient did not block its sender at some time
          uncleared  \* names whose rotation or destruction broke off half-way

history == <<moved, free, uncleared>>
vars == <<db, handler, history>>

\* A row of mail is [id, from, to, fromKey, toKey, late]: the keys it is sealed
\* to, and whether they moved before it was inserted (history).

\* One shape for all requests: target of a block, mail of a burn, to and toKey
\* of a submission; found is the sender's key a submission has read.
Blank == [op |-> "none", step |-> "new", user |-> Nobody, signer |-> Nobody,
          target |-> Nobody, mail |-> Nobody, to |-> Nobody, toKey |-> Nobody,
          found |-> Nobody]

Alike(m, n) == Lower[m] = Lower[n]

Init ==
    /\ users = [n \in Name |-> IF n \in Registered THEN n ELSE Free]
    /\ mail = {} /\ blocks = {}
    /\ handler = [h \in Request |-> Blank]
    /\ moved = [h \in Request |-> FALSE]
    /\ free = [h \in Request |-> FALSE]
    /\ uncleared = {}

-----------------------------------------------------------------------------
At(h, step) == handler[h].step = step

Busy(h) == ~At(h, "new") /\ ~At(h, "done")

User(h) == handler[h].user

GoTo(h, step) == handler' = [handler EXCEPT ![h].step = step]

\* The keys a user's client has had.
Own(n) == ({n} \cap Registered)
          \cup {h \in Request : handler[h].op \in {"register", "rotate"} /\ User(h) = n}

\* Remote users' keys do not matter here: one stands for them all.
KeysOf(address) == IF address \in Name THEN Own(address) ELSE {CHOOSE n \in Registered : TRUE}

\* What names a sender in the blocks table: its address, or what follows the
\* '@' (normalizeAddress, addressDomain).  For an odd address that is no instance:
\* it stands for the same target as the address.
NamesOf(written) ==
    {written} \cup (IF written \in Name THEN {Here} ELSE IF written \in Remote THEN {There} ELSE {})

Blocked(table, to, from) == \E t \in NamesOf(from) : <<to, t>> \in table

\* The parties of a request, as stored.
Parties(h) == {User(h), handler[h].to}

\* The row of name becomes key: requests under way that concern it have read,
\* or may have read, the row before.
SetUser(name, key) ==
    /\ users' = [users EXCEPT ![name] = key]
    /\ moved' = [h \in Request |-> moved[h] \/ (Busy(h) /\ name \in Parties(h))]

SetBlocks(table) ==
    /\ blocks' = table
    /\ free' = [h \in Request |->
                  free[h] \/ (Busy(h) /\ ~Blocked(table, handler[h].to, User(h)))]

-----------------------------------------------------------------------------
\* Arrivals.  r has the fields of Blank that the request fills.
Arrive(h, r) ==
    /\ At(h, "new")
    /\ handler' = [handler EXCEPT ![h] = r]
    /\ free' = [free EXCEPT ![h] = ~Blocked(blocks, r.to, r.user)]
    /\ UNCHANGED <<db, moved, uncleared>>

\* The new key is the one that signs.
ArriveRegister(h) ==
    \E n \in Name :
        Arrive(h, [Blank EXCEPT !.op = "register", !.step = "insert", !.user = n, !.signer = h])

ArriveSigned(h) ==
    \E n \in Name : \E k \in Own(n) :
        LET r == [Blank EXCEPT !.step = "auth", !.user = n, !.signer = k] IN
        \/ \E op \in {"read", "rotate", "destroy"} : Arrive(h, [r EXCEPT !.op = op])
        \/ \E op \in {"block", "unblock"}, t \in Target :
              Arrive(h, [r EXCEPT !.op = op, !.target = t])
        \/ \E id \in Request : Arrive(h, [r EXCEPT !.op = "burn", !.mail = id])

ArriveMail(h) ==
    \E from, to \in Written : \E k \in KeysOf(Account(from)), s \in KeysOf(Account(to)) :
        Arrive(h, [Blank EXCEPT !.op = "send", !.step = "sender", !.user = from,
                                !.signer = k, !.to = to, !.toKey = s])

-----------------------------------------------------------------------------
\* POST /api/register.

\* A name that is free itself.
InsertExact(h) ==
    /\ At(h, "insert")
    /\ GoTo(h, "done")
    /\ \/ users[User(h)] = Free /\ SetUser(User(h), h)
       \/ users[User(h)] # Free /\ UNCHANGED <<users, moved>>
    /\ UNCHANGED <<mail, blocks, free, uncleared>>

\* INSERT ... WHERE NOT EXISTS: neither the name nor one that differs by case.
Insert(h) ==
    /\ At(h, "insert")
    /\ GoTo(h, "done")
    /\ LET taken == \E n \in Name : Alike(n, User(h)) /\ users[n] # Free IN
       \/ ~taken /\ SetUser(User(h), h)
       \/ taken /\ UNCHANGED <<users, moved>>
    /\ UNCHANGED <<mail, blocks, free, uncleared>>

-----------------------------------------------------------------------------
\* The signed requests: SELECT the key, verify the signature.

FirstStep(op) ==
    CASE op = "read" -> "read"
      [] op = "burn" -> "find"
      [] op \in {"block", "unblock"} -> "write"
      [] op \in {"rotate", "destroy"} -> "update"

\* Authenticates whoever has a row.
AuthenticateRow(h) ==
    /\ At(h, "auth")
    /\ IF users[User(h)] # Free THEN GoTo(h, FirstStep(handler[h].op)) ELSE GoTo(h, "done")
    /\ UNCHANGED <<db, history>>

Authenticate(h) ==
    /\ At(h, "auth")
    /\ IF users[User(h)] = handler[h].signer
       THEN GoTo(h, FirstStep(handler[h].op)) ELSE GoTo(h, "done")
    /\ UNCHANGED <<db, history>>

\* GET /api/mail, /api/mail/:id and /api/block.
Read(h) ==
    /\ At(h, "read")
    /\ GoTo(h, "done")
    /\ UNCHANGED <<db, history>>

\* Finds the mail of anybody.
FindAny(h) ==
    /\ At(h, "find")
    /\ IF \E m \in mail : m.id = handler[h].mail THEN GoTo(h, "delete") ELSE GoTo(h, "done")
    /\ UNCHANGED <<db, history>>

\* DELETE /api/mail/:id: one statement asks whose mail it is,
Find(h) ==
    /\ At(h, "find")
    /\ IF \E m \in mail : m.id = handler[h].mail /\ User(h) \in {m.from, m.to}
       THEN GoTo(h, "delete") ELSE GoTo(h, "done")
    /\ UNCHANGED <<db, history>>

\* and the next deletes it.
Delete(h) ==
    /\ At(h, "delete")
    /\ GoTo(h, "done")
    /\ mail' = {m \in mail : m.id # handler[h].mail}
    /\ UNCHANGED <<users, blocks, history>>

\* POST and DELETE /api/block.
WriteBlock(h) ==
    /\ At(h, "write")
    /\ GoTo(h, "done")
    /\ LET block == <<User(h), handler[h].target>> IN
       SetBlocks(IF handler[h].op = "block" THEN blocks \cup {block} ELSE blocks \ {block})
    /\ UNCHANGED <<users, mail, moved, uncleared>>

-----------------------------------------------------------------------------
\* POST /api/rotate and DELETE /api/destroy: two and three statements.

Update(h) ==
    /\ At(h, "update")
    /\ GoTo(h, "clear")
    /\ SetUser(User(h), IF handler[h].op = "rotate" THEN h ELSE Gone)
    /\ UNCHANGED <<mail, blocks, free, uncleared>>

\* Forgets the copies of what the user sent.
ClearInbox(h) ==
    /\ At(h, "clear")
    /\ GoTo(h, IF handler[h].op = "rotate" THEN "done" ELSE "unblock")
    /\ mail' = {m \in mail : User(h) # m.to}
    /\ uncleared' = uncleared \ {User(h)}
    /\ UNCHANGED <<users, blocks, moved, free>>

Clear(h) ==
    /\ At(h, "clear")
    /\ GoTo(h, IF handler[h].op = "rotate" THEN "done" ELSE "unblock")
    /\ mail' = {m \in mail : User(h) \notin {m.from, m.to}}
    /\ uncleared' = uncleared \ {User(h)}
    /\ UNCHANGED <<users, blocks, moved, free>>

ClearBlocks(h) ==
    /\ At(h, "unblock")
    /\ GoTo(h, "done")
    /\ SetBlocks({b \in blocks : User(h) \notin {b[1], b[2]}})
    /\ UNCHANGED <<users, mail, moved, uncleared>>

-----------------------------------------------------------------------------
\* POST /api/mail.

\* The sender's key (getPubkeyForUser), from the table or from the sender's
\* instance; a remote sender's signature may verify or not.  An address at this
\* instance in other letters is asked of the instance itself, over HTTP: the
\* same row answers.
SenderKey(h) ==
    /\ At(h, "sender")
    /\ LET sender == Account(User(h)) IN
       \/ /\ sender \in Name /\ users[sender] # Free
          /\ handler' = [handler EXCEPT ![h].step = "recipient", ![h].found = users[sender]]
       \/ /\ sender \in Remote
          /\ handler' = [handler EXCEPT ![h].step = "recipient", ![h].found = handler[h].signer]
       \/ /\ sender \in Name => users[sender] = Free
          /\ GoTo(h, "done")
    /\ UNCHANGED <<db, history>>

\* The recipient exists, the mail is sealed to the key it has, the sender's
\* signature is right.
RecipientKey(h) ==
    /\ At(h, "recipient")
    /\ LET to == Account(handler[h].to)
           found == IF to \in Name THEN users[to] = handler[h].toKey ELSE TRUE
           signed == handler[h].found = handler[h].signer
       IN  \/ found /\ signed /\ GoTo(h, "check")
           \/ (to \in Remote \/ ~found \/ ~signed) /\ GoTo(h, "done")
    /\ UNCHANGED <<db, history>>

\* Looks for the address alone.
CheckAddress(h) ==
    /\ At(h, "check")
    /\ GoTo(h, IF <<handler[h].to, User(h)>> \in blocks THEN "done"
               ELSE IF handler[h].to \in Name THEN "store" ELSE "relay")
    /\ UNCHANGED <<db, history>>

\* Both parties as stored: an odd address is not the account it was found as,
\* and an odd recipient is of another instance.
CheckBlock(h) ==
    /\ At(h, "check")
    /\ GoTo(h, IF Blocked(blocks, handler[h].to, User(h)) THEN "done"
               ELSE IF handler[h].to \in Name THEN "store" ELSE "relay")
    /\ UNCHANGED <<db, history>>

\* The other instance accepts or not (remoteLevel, relayMail).
Relay(h) ==
    /\ At(h, "relay")
    /\ GoTo(h, "store") \/ GoTo(h, "done")
    /\ UNCHANGED <<db, history>>

Store(h) ==
    /\ At(h, "store")
    /\ GoTo(h, "done")
    /\ mail' = mail \cup {[id |-> h, from |-> User(h), to |-> handler[h].to,
                           fromKey |-> handler[h].signer, toKey |-> handler[h].toKey,
                           late |-> moved[h]]}
    /\ UNCHANGED <<users, blocks, history>>

-----------------------------------------------------------------------------
\* A statement fails, or the run is cancelled.
Break(h) ==
    /\ Busy(h)
    /\ GoTo(h, "done")
    /\ uncleared' = uncleared \cup (IF At(h, "clear") THEN {User(h)} ELSE {})
    /\ UNCHANGED <<db, moved, free>>

Step(h) ==
    \/ ArriveRegister(h) \/ ArriveSigned(h) \/ ArriveMail(h)
    \/ Insert(h) \/ Authenticate(h) \/ Read(h) \/ Find(h) \/ Delete(h) \/ WriteBlock(h)
    \/ Update(h) \/ Clear(h) \/ ClearBlocks(h)
    \/ SenderKey(h) \/ RecipientKey(h) \/ CheckBlock(h) \/ Relay(h) \/ Store(h)
    \/ Break(h)

Next == \E h \in Request : Step(h)

Spec == Init /\ [][Next]_vars

-----------------------------------------------------------------------------
\* "Salmon cannot register alongside salmon" (docs/SPEC.md, users), though the
\* question and the insertion are of two requests at once (index.ts register).
OneSpelling ==
    \A m, n \in Name : Alike(m, n) /\ Free \notin {users[m], users[n]} => m = n

\* Somebody is between the statements of a rotation or destruction of n.
Clearing(n) == \E h \in Request : At(h, "clear") /\ User(h) = n

\* A local party of a mail has the key the mail is sealed to: rotate and
\* destroy clear the others.  The Worker makes two exceptions that the Go
\* server does not: a rotation or destruction that broke off between its
\* statements, and one that is between them.
MailReadable ==
    \A m \in mail : m.late \/
        \A n \in {m.from, m.to} \cap Name :
            \/ users[n] = IF n = m.to THEN m.toKey ELSE m.fromKey
            \/ n \in uncleared \/ Clearing(n)

\* A mail was stored only if its recipient, at some moment since it arrived, did
\* not block the sender it names, as it names it (index.ts, blockCheck).  What
\* an odd address says is not the account that signed the mail: of that account
\* nothing is promised.
NoUnwantedMail == \A m \in mail : free[m.id]

\* An account comes to be by a registration, changes only by a rotation or a
\* destruction signed with the key it has, or with one it had while the
\* request was under way, and is never free again.
KeySuccession ==
    [][\A n \in Name : users'[n] # users[n] =>
          \/ users[n] = Free /\ users'[n] \in Request
          \/ \E h \in Request :
                /\ At(h, "update") /\ User(h) = n
                /\ users'[n] = IF handler[h].op = "rotate" THEN h ELSE Gone
                /\ users[n] = handler[h].signer \/ moved[h]]_vars

\* A mail is lost only by a burn of one of its parties, or when one of them
\* rotates or is destroyed, though burn asks and deletes in two statements.
LossExplained ==
    [][\A m \in mail \ mail' : \E h \in Request :
          /\ User(h) \in {m.from, m.to}
          /\ At(h, "clear") \/ (At(h, "delete") /\ handler[h].mail = m.id)]_vars
=============================================================================
