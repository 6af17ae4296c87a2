---------------------------- MODULE WorkerProofs ----------------------------
(***************************************************************************)
(* What the Worker guarantees though none of its requests is a transaction,*)
(* for every set of users, names that differ by case, and requests.        *)
(***************************************************************************)
EXTENDS Worker, TLAPS

\* Keys a request may be signed with or sealed to.
Key == Name \cup Request

-----------------------------------------------------------------------------
\* The inductive invariant, by parts.

\* The steps of each operation.
StepsOf(op) ==
    CASE op = "none"     -> {"new"}
      [] op = "register" -> {"insert", "done"}
      [] op = "read"     -> {"auth", "read", "done"}
      [] op = "burn"     -> {"auth", "find", "delete", "done"}
      [] op = "block"    -> {"auth", "write", "done"}
      [] op = "unblock"  -> {"auth", "write", "done"}
      [] op = "rotate"   -> {"auth", "update", "clear", "done"}
      [] op = "destroy"  -> {"auth", "update", "clear", "unblock", "done"}
      [] op = "send"     -> {"sender", "recipient", "check", "relay", "store", "done"}

Op == {"none", "register", "read", "burn", "block", "unblock", "rotate", "destroy", "send"}

Steps == UNION {StepsOf(op) : op \in Op}

Run == [op : Op, step : Steps, user : Written \cup {Nobody},
        signer : Key \cup {Nobody}, target : Target \cup {Nobody},
        mail : Request \cup {Nobody}, to : Written \cup {Nobody},
        toKey : Key \cup {Nobody}, found : Key \cup {Gone, Nobody}]

\* What a request has filled in.
Filled(r) ==
    /\ r.step \in StepsOf(r.op)
    /\ r.op = "send" => r.user \in Written /\ r.to \in Written /\ {r.signer, r.toKey} \subseteq Key
    /\ r.op \notin {"none", "send"} => r.user \in Name /\ r.signer \in Key
    /\ r.op \in {"block", "unblock"} => r.target \in Target
    /\ r.op = "burn" => r.mail \in Request

Row == [id : Request, from : Written, to : Written, fromKey : Key, toKey : Key, late : BOOLEAN]

TypeOK ==
    /\ users \in [Name -> Key \cup {Free, Gone}]
    /\ mail \subseteq Row
    /\ blocks \subseteq Name \X Target
    /\ handler \in [Request -> Run]
    /\ \A h \in Request : Filled(handler[h])
    /\ moved \in [Request -> BOOLEAN]
    /\ free \in [Request -> BOOLEAN]
    /\ uncleared \subseteq Name

\* Who is about to rotate or to be destroyed has a row.
RowInv == \A h \in Request : At(h, "update") => users[User(h)] # Free

\* What a request has read of an account still holds, unless it moved.
KeyInv ==
    \A h \in Request : moved[h] \/
        /\ At(h, "update") => users[User(h)] = handler[h].signer
        /\ At(h, "recipient") /\ User(h) \in Name => users[User(h)] = handler[h].found
        /\ handler[h].step \in {"check", "relay", "store"} =>
              /\ User(h) \in Name => users[User(h)] = handler[h].signer
              /\ handler[h].to \in Name => users[handler[h].to] = handler[h].toKey

\* A request whose recipient does not block its sender, or did not when it
\* looked, is free.
BlockInv ==
    \A h \in Request :
        /\ Busy(h) /\ ~Blocked(blocks, handler[h].to, User(h)) => free[h]
        /\ handler[h].step \in {"relay", "store"} => free[h]

\* A mail is of a request that is over; who deletes one is a party of it.
MailInv ==
    /\ \A m \in mail : At(m.id, "done") /\ m.from = User(m.id) /\ m.to = handler[m.id].to
    /\ \A h \in Request : At(h, "delete") =>
          At(handler[h].mail, "done") /\ User(h) \in Parties(handler[h].mail)

IInv ==
    TypeOK /\ RowInv /\ KeyInv /\ BlockInv /\ MailInv
    /\ OneSpelling /\ MailReadable /\ NoUnwantedMail

-----------------------------------------------------------------------------
LEMMA BlankIsRun == Blank \in Run /\ Filled(Blank)
<1>1. Blank.step \in StepsOf(Blank.op) /\ Blank.op \in Op
  BY DEF Blank, StepsOf, Op
<1>2. QED
  BY <1>1 DEF Blank, Run, Filled, Steps

LEMMA InitEstablishes == Init => IInv
<1> SUFFICES ASSUME Init PROVE IInv
  OBVIOUS
<1>1. \A h \in Request : handler[h] = Blank
  BY DEF Init
<1>3. TypeOK
  BY <1>1, BlankIsRun, WorkerAssumption DEF Init, TypeOK, Key
<1>4. RowInv /\ KeyInv /\ BlockInv /\ MailInv
  BY <1>1 DEF Init, RowInv, KeyInv, BlockInv, MailInv, At, Busy, Blank
<1>5. OneSpelling
  BY WorkerAssumption DEF Init, OneSpelling, Alike
<1>6. MailReadable /\ NoUnwantedMail
  BY DEF Init, MailReadable, NoUnwantedMail
<1>7. QED
  BY <1>3, <1>4, <1>5, <1>6 DEF IInv

\* What a step other than an arrival does to the runs: its own goes on, with
\* the same request, and was not over.
Moves(h) ==
    /\ Busy(h)
    /\ \A g \in Request \ {h} : handler'[g] = handler[g]
    /\ handler'[h].op = handler[h].op /\ handler'[h].user = handler[h].user
    /\ handler'[h].signer = handler[h].signer /\ handler'[h].mail = handler[h].mail
    /\ handler'[h].to = handler[h].to /\ handler'[h].toKey = handler[h].toKey

\* A run may go on to a step of its operation.
LEMMA RunGoes ==
    ASSUME TypeOK, NEW h \in Request, Busy(h), NEW step \in StepsOf(handler[h].op),
           NEW found \in Key \cup {Gone, Nobody},
           handler' = [handler EXCEPT ![h].step = step, ![h].found = found]
    PROVE  /\ Moves(h) /\ handler'[h].step = step /\ handler'[h].found = found
           /\ handler' \in [Request -> Run]
           /\ \A g \in Request : Filled(handler'[g])
<1>1. handler[h] \in Run /\ Filled(handler[h])
  BY DEF TypeOK
<1>2. handler'[h] = [handler[h] EXCEPT !.step = step, !.found = found]
  BY DEF TypeOK
<1>3. step \in Steps
  BY <1>1 DEF Run, Steps
<1>4. /\ handler'[h] \in Run
      /\ handler'[h].step = step /\ handler'[h].found = found
      /\ handler'[h].op = handler[h].op /\ handler'[h].user = handler[h].user
      /\ handler'[h].signer = handler[h].signer /\ handler'[h].mail = handler[h].mail
      /\ handler'[h].to = handler[h].to /\ handler'[h].toKey = handler[h].toKey
      /\ handler'[h].target = handler[h].target
  <2> DEFINE r == handler[h]
             q == handler'[h]
  <2>1. r \in Run /\ q = [r EXCEPT !.step = step, !.found = found]
    BY <1>1, <1>2
  <2> HIDE DEF r, q
  <2>2. q \in Run
    BY <1>3, <2>1 DEF Run
  <2>3. q.step = step /\ q.found = found
    BY <2>1 DEF Run
  <2>4. q.op = r.op /\ q.user = r.user /\ q.signer = r.signer
    BY <2>1 DEF Run
  <2>5. q.mail = r.mail /\ q.to = r.to /\ q.toKey = r.toKey /\ q.target = r.target
    BY <2>1 DEF Run
  <2>6. QED
    BY <2>2, <2>3, <2>4, <2>5 DEF q, r
<1>5. Filled(handler'[h])
  BY <1>1, <1>4 DEF Filled
<1>6. \A g \in Request \ {h} : handler'[g] = handler[g]
  BY DEF TypeOK
<1>7. handler' \in [Request -> Run]
  BY <1>4 DEF TypeOK
<1>8. QED
  BY <1>4, <1>5, <1>6, <1>7 DEF Moves, TypeOK

LEMMA RunGoesTo ==
    ASSUME TypeOK, NEW h \in Request, Busy(h), NEW step \in StepsOf(handler[h].op),
           GoTo(h, step)
    PROVE  /\ Moves(h) /\ handler'[h].step = step /\ handler'[h].found = handler[h].found
           /\ handler' \in [Request -> Run]
           /\ \A g \in Request : Filled(handler'[g])
<1>1. handler[h] \in Run
  BY DEF TypeOK
<1>2. handler[h].found \in Key \cup {Gone, Nobody}
  BY <1>1 DEF Run
<1>3. [handler[h] EXCEPT !.step = step]
      = [handler[h] EXCEPT !.step = step, !.found = handler[h].found]
  BY <1>1 DEF Run
<1>4. handler' = [handler EXCEPT ![h].step = step, ![h].found = handler[h].found]
  BY <1>3 DEF GoTo, TypeOK
<1>5. QED
  BY <1>2, <1>4, RunGoes

\* Every run that has begun may end.
LEMMA RunEnds ==
    ASSUME TypeOK, NEW h \in Request, Busy(h)
    PROVE  "done" \in StepsOf(handler[h].op)
<1>1. handler[h].op \in Op /\ handler[h].step \in StepsOf(handler[h].op)
  BY DEF TypeOK, Run, Filled
<1>2. QED
  BY <1>1 DEF Op, StepsOf, Busy, At


-----------------------------------------------------------------------------
\* Who clears is unchanged by a step that neither begins nor ends clearing.
LEMMA ClearingKept ==
    ASSUME NEW h \in Request, Moves(h), ~At(h, "clear"), handler'[h].step # "clear",
           NEW n
    PROVE  Clearing(n)' <=> Clearing(n)
  BY DEF Moves, Clearing, At, User

\* Only a burn deletes, and it names a mail.
LEMMA DeleterNamesMail ==
    ASSUME NEW r \in Run, Filled(r), r.step = "delete"
    PROVE  r.mail \in Request
<1>1. r.op \in Op /\ r.step \in StepsOf(r.op)
  BY DEF Run, Filled
<1>2. r.op = "burn"
  BY <1>1 DEF Op, StepsOf
<1>3. QED
  BY <1>2 DEF Filled

\* A step that only reads keeps the invariant, when it keeps what is said of
\* its own run.
LEMMA QuietKeeps ==
    ASSUME IInv, NEW h \in Request, Moves(h), UNCHANGED <<db, history>>,
           handler' \in [Request -> Run], \A g \in Request : Filled(handler'[g]),
           ~At(h, "clear"), handler'[h].step \notin {"clear", "new"},
           handler'[h].step = "update" =>
               users[User(h)] = handler[h].signer /\ users[User(h)] # Free,
           moved[h] \/
               /\ handler'[h].step = "recipient" /\ User(h) \in Name
                      => users[User(h)] = handler'[h].found
               /\ handler'[h].step \in {"check", "relay", "store"} =>
                     /\ User(h) \in Name => users[User(h)] = handler[h].signer
                     /\ handler[h].to \in Name => users[handler[h].to] = handler[h].toKey,
           handler'[h].step \in {"relay", "store"} => free[h],
           handler'[h].step = "delete" =>
               At(handler[h].mail, "done") /\ User(h) \in Parties(handler[h].mail)
    PROVE  IInv'
<1>1. /\ users' = users /\ mail' = mail /\ blocks' = blocks
      /\ moved' = moved /\ free' = free /\ uncleared' = uncleared
  BY DEF db, history
<1>2. \A g \in Request : At(g, "done") => handler'[g] = handler[g]
  BY DEF Moves, Busy, At
<1>3. TypeOK'
  BY <1>1 DEF IInv, TypeOK
<1>4. RowInv'
  BY <1>1 DEF IInv, RowInv, Moves, At, User
<1>5. KeyInv'
  BY <1>1 DEF IInv, KeyInv, Moves, At, User
<1>6. BlockInv'
  BY <1>1 DEF IInv, BlockInv, Moves, Busy, At, User, Blocked
<1>7. MailInv'
  <2>1. \A m \in mail : m.id \in Request
    BY DEF IInv, TypeOK, Row
  <2>2. \A m \in mail' : At(m.id, "done")' /\ m.from = User(m.id)' /\ m.to = handler'[m.id].to
    BY <1>1, <1>2, <2>1 DEF IInv, MailInv, At, User
  <2>3. ASSUME NEW g \in Request, At(g, "delete")'
        PROVE  (At(handler[g].mail, "done") /\ User(g) \in Parties(handler[g].mail))'
    <3>1. handler'[g].mail = handler[g].mail /\ User(g)' = User(g)
      BY DEF Moves, User
    <3>2. At(handler[g].mail, "done") /\ User(g) \in Parties(handler[g].mail)
      BY <2>3 DEF IInv, MailInv, Moves, At
    <3>3. handler[g].mail \in Request
      BY <2>3, DeleterNamesMail DEF Moves, At
    <3>4. handler'[handler[g].mail] = handler[handler[g].mail]
      BY <1>2, <3>2, <3>3
    <3>5. QED
      BY <3>1, <3>2, <3>4 DEF At, Parties, User
  <2>4. QED
    BY <2>2, <2>3 DEF MailInv
<1>8. OneSpelling'
  BY <1>1 DEF IInv, OneSpelling
<1>9. MailReadable'
  BY <1>1, ClearingKept DEF IInv, MailReadable
<1>10. NoUnwantedMail'
  BY <1>1 DEF IInv, NoUnwantedMail
<1>11. QED
  BY <1>3, <1>4, <1>5, <1>6, <1>7, <1>8, <1>9, <1>10 DEF IInv

\* A request arrives.
LEMMA ArriveKeeps ==
    ASSUME IInv, NEW h \in Request, NEW r \in Run, Filled(r), Arrive(h, r),
           r.step \in {"insert", "auth", "sender"}
    PROVE  IInv'
<1>1. /\ users' = users /\ mail' = mail /\ blocks' = blocks
      /\ moved' = moved /\ uncleared' = uncleared
      /\ handler' = [handler EXCEPT ![h] = r]
      /\ free' = [free EXCEPT ![h] = ~Blocked(blocks, r.to, r.user)]
      /\ handler[h].step = "new"
  BY DEF Arrive, db, At
<1>2. /\ handler'[h] = r
      /\ \A g \in Request \ {h} : handler'[g] = handler[g] /\ free'[g] = free[g]
      /\ free'[h] = ~Blocked(blocks, r.to, r.user)
  BY <1>1 DEF IInv, TypeOK
<1>3. \A g \in Request : At(g, "done") => g # h /\ handler'[g] = handler[g]
  BY <1>1, <1>2 DEF At
<1>4. TypeOK'
  BY <1>1, <1>2 DEF IInv, TypeOK
<1>5. RowInv' /\ KeyInv'
  BY <1>1, <1>2 DEF IInv, RowInv, KeyInv, At, User
<1>6. BlockInv'
  <2>1. ASSUME NEW g \in Request, g # h
        PROVE  /\ (Busy(g) /\ ~Blocked(blocks, handler[g].to, User(g)) => free[g])'
               /\ (handler[g].step \in {"relay", "store"} => free[g])'
    BY <1>1, <1>2, <2>1 DEF IInv, BlockInv, Busy, At, User, Blocked
  <2>2. ~Blocked(blocks, r.to, r.user) => free'[h]
    BY <1>2
  <2>3. (Busy(h) /\ ~Blocked(blocks, handler[h].to, User(h)) => free[h])'
    BY <1>1, <1>2, <2>2 DEF User, Blocked
  <2>4. handler'[h].step \notin {"relay", "store"}
    BY <1>2
  <2>5. QED
    BY <2>1, <2>3, <2>4 DEF BlockInv
<1>7. \A m \in mail : m.id \in Request
  BY DEF IInv, TypeOK, Row
<1>8. MailInv'
  <2>1. \A m \in mail' : At(m.id, "done")' /\ m.from = User(m.id)' /\ m.to = handler'[m.id].to
    BY <1>1, <1>3, <1>7 DEF IInv, MailInv, At, User
  <2>2. ASSUME NEW g \in Request, At(g, "delete")'
        PROVE  (At(handler[g].mail, "done") /\ User(g) \in Parties(handler[g].mail))'
    <3>1. g # h /\ handler'[g] = handler[g] /\ At(g, "delete")
      BY <1>2, <2>2 DEF At
    <3>2. handler[g].mail \in Request
      BY <3>1, DeleterNamesMail DEF IInv, TypeOK, At
    <3>3. At(handler[g].mail, "done") /\ User(g) \in Parties(handler[g].mail)
      BY <3>1 DEF IInv, MailInv
    <3>4. handler'[handler[g].mail] = handler[handler[g].mail]
      BY <1>3, <3>2, <3>3
    <3>5. QED
      BY <3>1, <3>3, <3>4 DEF At, Parties, User
  <2>3. QED
    BY <2>1, <2>2 DEF MailInv
<1>9. OneSpelling'
  BY <1>1 DEF IInv, OneSpelling
<1>10. \A n : Clearing(n) => Clearing(n)'
  BY <1>1, <1>2 DEF Clearing, At, User
<1>11. MailReadable'
  BY <1>1, <1>10 DEF IInv, MailReadable
<1>12. NoUnwantedMail'
  BY <1>1, <1>2, <1>3, <1>7 DEF IInv, NoUnwantedMail, MailInv
<1>13. QED
  BY <1>4, <1>5, <1>6, <1>8, <1>9, <1>11, <1>12 DEF IInv


-----------------------------------------------------------------------------
\* Clients sign and seal with keys.
LEMMA OwnAreKeys ==
    ASSUME NEW n \in Name
    PROVE  Own(n) \subseteq Key
  BY WorkerAssumption DEF Own, Key

LEMMA KeysOfAreKeys ==
    ASSUME NEW address
    PROVE  KeysOf(address) \subseteq Key
<1>1. (CHOOSE n \in Registered : TRUE) \in Key
  BY WorkerAssumption DEF Key
<1>2. QED
  BY <1>1, OwnAreKeys DEF KeysOf

LEMMA ArriveRegisterKeeps ==
    ASSUME IInv, NEW h \in Request, ArriveRegister(h)
    PROVE  IInv'
<1>1. PICK n \in Name :
        Arrive(h, [Blank EXCEPT !.op = "register", !.step = "insert", !.user = n, !.signer = h])
  BY DEF ArriveRegister
<1> DEFINE r == [Blank EXCEPT !.op = "register", !.step = "insert", !.user = n, !.signer = h]
<1>2. r.op = "register" /\ r.step = "insert" /\ r.user = n /\ r.signer = h
  BY DEF Blank
<1>3. "insert" \in StepsOf("register") /\ "register" \in Op
  BY DEF StepsOf, Op
<1>4. r \in Run
  BY <1>3, BlankIsRun DEF Run, Steps, Key, Address, Written
<1> HIDE DEF r
<1>5. Filled(r)
  BY <1>2, <1>3 DEF Filled, Key
<1>6. QED
  BY <1>1, <1>2, <1>4, <1>5, ArriveKeeps DEF r

LEMMA ArriveSignedKeeps ==
    ASSUME IInv, NEW h \in Request, ArriveSigned(h)
    PROVE  IInv'
<1>1. PICK n \in Name : \E k \in Own(n) :
        LET r == [Blank EXCEPT !.step = "auth", !.user = n, !.signer = k] IN
        \/ \E op \in {"read", "rotate", "destroy"} : Arrive(h, [r EXCEPT !.op = op])
        \/ \E op \in {"block", "unblock"}, t \in Target :
              Arrive(h, [r EXCEPT !.op = op, !.target = t])
        \/ \E id \in Request : Arrive(h, [r EXCEPT !.op = "burn", !.mail = id])
  BY DEF ArriveSigned
<1>2. PICK k \in Own(n) :
        LET r == [Blank EXCEPT !.step = "auth", !.user = n, !.signer = k] IN
        \/ \E op \in {"read", "rotate", "destroy"} : Arrive(h, [r EXCEPT !.op = op])
        \/ \E op \in {"block", "unblock"}, t \in Target :
              Arrive(h, [r EXCEPT !.op = op, !.target = t])
        \/ \E id \in Request : Arrive(h, [r EXCEPT !.op = "burn", !.mail = id])
  BY <1>1
<1> DEFINE signed == [Blank EXCEPT !.step = "auth", !.user = n, !.signer = k]
<1>3. k \in Key /\ n \in Written
  BY OwnAreKeys DEF Written, Address
<1>4. /\ "auth" \in Steps
      /\ \A op \in Op \ {"none", "register", "send"} : "auth" \in StepsOf(op)
  BY DEF Steps, StepsOf, Op
<1>5. /\ signed \in Run
      /\ signed.step = "auth" /\ signed.user = n /\ signed.signer = k
  BY <1>3, <1>4, BlankIsRun DEF Run, Blank
<1> HIDE DEF signed
<1>6. ASSUME NEW op \in Op \ {"none", "register", "send"}, NEW r \in Run,
             r.op = op, r.step = "auth", r.user = n, r.signer = k,
             op \in {"block", "unblock"} => r.target \in Target,
             op = "burn" => r.mail \in Request, Arrive(h, r)
      PROVE  IInv'
  <2>1. Filled(r)
    BY <1>3, <1>4, <1>6 DEF Filled
  <2>2. QED
    BY <1>6, <2>1, ArriveKeeps
<1>7. CASE \E op \in {"read", "rotate", "destroy"} : Arrive(h, [signed EXCEPT !.op = op])
  <2>1. PICK op \in {"read", "rotate", "destroy"} : Arrive(h, [signed EXCEPT !.op = op])
    BY <1>7
  <2> DEFINE r == [signed EXCEPT !.op = op]
  <2>2. op \in Op \ {"none", "register", "send"}
    BY DEF Op
  <2>3. r \in Run
    BY <1>5, <2>2 DEF Run
  <2>4. r.op = op /\ r.step = "auth" /\ r.user = n /\ r.signer = k
    BY <1>5 DEF Run
  <2> HIDE DEF r
  <2>5. QED
    BY <1>6, <2>1, <2>2, <2>3, <2>4 DEF r
<1>8. CASE \E op \in {"block", "unblock"}, t \in Target :
             Arrive(h, [signed EXCEPT !.op = op, !.target = t])
  <2>1. PICK op \in {"block", "unblock"}, t \in Target :
          Arrive(h, [signed EXCEPT !.op = op, !.target = t])
    BY <1>8
  <2> DEFINE r == [signed EXCEPT !.op = op, !.target = t]
  <2>2. op \in Op \ {"none", "register", "send"}
    BY DEF Op
  <2>3. r \in Run
    BY <1>5, <2>2 DEF Run
  <2>4. r.op = op /\ r.step = "auth" /\ r.user = n /\ r.signer = k /\ r.target = t
    BY <1>5 DEF Run
  <2> HIDE DEF r
  <2>5. QED
    BY <1>6, <2>1, <2>2, <2>3, <2>4 DEF r
<1>9. CASE \E id \in Request : Arrive(h, [signed EXCEPT !.op = "burn", !.mail = id])
  <2>1. PICK id \in Request : Arrive(h, [signed EXCEPT !.op = "burn", !.mail = id])
    BY <1>9
  <2> DEFINE r == [signed EXCEPT !.op = "burn", !.mail = id]
  <2>2. "burn" \in Op \ {"none", "register", "send"}
    BY DEF Op
  <2>3. r \in Run
    BY <1>5, <2>2 DEF Run
  <2>4. r.op = "burn" /\ r.step = "auth" /\ r.user = n /\ r.signer = k /\ r.mail = id
    BY <1>5 DEF Run
  <2> HIDE DEF r
  <2>5. QED
    BY <1>6, <2>1, <2>2, <2>3, <2>4 DEF r
<1>10. QED
  BY <1>2, <1>7, <1>8, <1>9 DEF signed

LEMMA ArriveMailKeeps ==
    ASSUME IInv, NEW h \in Request, ArriveMail(h)
    PROVE  IInv'
<1>1. PICK from \in Written, to \in Written :
        \E k \in KeysOf(Account(from)), s \in KeysOf(Account(to)) :
        Arrive(h, [Blank EXCEPT !.op = "send", !.step = "sender", !.user = from,
                                !.signer = k, !.to = to, !.toKey = s])
  BY DEF ArriveMail
<1>2. PICK k \in KeysOf(Account(from)), s \in KeysOf(Account(to)) :
        Arrive(h, [Blank EXCEPT !.op = "send", !.step = "sender", !.user = from,
                                !.signer = k, !.to = to, !.toKey = s])
  BY <1>1
<1> DEFINE r == [Blank EXCEPT !.op = "send", !.step = "sender", !.user = from,
                              !.signer = k, !.to = to, !.toKey = s]
<1>3. /\ r.op = "send" /\ r.step = "sender" /\ r.user = from
      /\ r.signer = k /\ r.to = to /\ r.toKey = s
  BY DEF Blank
<1>4. "sender" \in StepsOf("send") /\ "send" \in Op
  BY DEF StepsOf, Op
<1>5. k \in Key /\ s \in Key
  BY KeysOfAreKeys
<1>6. r \in Run
  BY <1>4, <1>5, BlankIsRun DEF Run, Steps
<1> HIDE DEF r
<1>7. Filled(r)
  BY <1>3, <1>4, <1>5 DEF Filled
<1>8. QED
  BY <1>2, <1>3, <1>6, <1>7, ArriveKeeps DEF r

-----------------------------------------------------------------------------
\* The step a run is at tells its operation, and so where it may go on to.
LEMMA StepTellsOp ==
    ASSUME NEW r \in Run, Filled(r)
    PROVE  /\ r.step = "insert" => r.op = "register"
           /\ r.step = "auth" => r.op \in Op \ {"none", "register", "send"}
           /\ r.step = "find" => r.op = "burn"
           /\ r.step = "write" => r.op \in {"block", "unblock"}
           /\ r.step \in {"update", "clear"} => r.op \in {"rotate", "destroy"}
           /\ r.step = "unblock" => r.op = "destroy"
           /\ r.step \in {"sender", "recipient", "check", "relay", "store"} => r.op = "send"
<1>1. r.op \in Op /\ r.step \in StepsOf(r.op)
  BY DEF Run, Filled
<1>2. QED
  BY <1>1 DEF Op, StepsOf

\* A run that ends without having written keeps the invariant.
LEMMA EndKeeps ==
    ASSUME IInv, NEW h \in Request, Busy(h), ~At(h, "clear"), GoTo(h, "done"),
           UNCHANGED <<db, history>>
    PROVE  IInv'
<1>1. TypeOK
  BY DEF IInv
<1>2. "done" \in StepsOf(handler[h].op)
  BY <1>1, RunEnds
<1>3. /\ Moves(h) /\ handler'[h].step = "done"
      /\ handler' \in [Request -> Run]
      /\ \A g \in Request : Filled(handler'[g])
  BY <1>1, <1>2, RunGoesTo
<1>4. QED
  BY <1>3, QuietKeeps

\* Only the key that is in the table authenticates.
LEMMA AuthenticateKeeps ==
    ASSUME IInv, NEW h \in Request, Authenticate(h)
    PROVE  IInv'
<1> USE DEF At
<1>1. TypeOK /\ handler[h] \in Run /\ Filled(handler[h]) /\ Busy(h)
  BY DEF IInv, TypeOK, Authenticate, Busy
<1>2. handler[h].op \in Op \ {"none", "register", "send"}
  BY <1>1, StepTellsOp DEF Authenticate
<1> DEFINE next == FirstStep(handler[h].op)
<1>3. CASE users[User(h)] = handler[h].signer /\ GoTo(h, next)
  <2>1. /\ next \in StepsOf(handler[h].op)
        /\ next \in {"read", "find", "write", "update"}
    BY <1>2 DEF Op, StepsOf, FirstStep
  <2>2. /\ Moves(h) /\ handler'[h].step = next
        /\ handler' \in [Request -> Run]
        /\ \A g \in Request : Filled(handler'[g])
    <3> HIDE DEF next
    <3> QED
      BY <1>1, <1>3, <2>1, RunGoesTo
  <2>3. users[User(h)] # Free
    <3>1. handler[h].signer \in Key
      BY <1>1, <1>2 DEF Filled
    <3>2. QED
      BY <1>3, <3>1, WorkerAssumption DEF Key
  <2>4. UNCHANGED <<db, history>> /\ ~At(h, "clear")
    BY DEF Authenticate
  <2> HIDE DEF next
  <2>5. QED
    BY <1>3, <2>1, <2>2, <2>3, <2>4, QuietKeeps
<1>4. CASE GoTo(h, "done")
  BY <1>1, <1>4, EndKeeps DEF Authenticate
<1>5. QED
  BY <1>3, <1>4 DEF Authenticate


LEMMA ReadKeeps ==
    ASSUME IInv, NEW h \in Request, Read(h)
    PROVE  IInv'
  BY EndKeeps DEF Read, Busy, At

\* Whoever goes on to delete a mail is one of its parties.
LEMMA FindKeeps ==
    ASSUME IInv, NEW h \in Request, Find(h)
    PROVE  IInv'
<1> USE DEF At
<1>1. TypeOK /\ handler[h] \in Run /\ Filled(handler[h]) /\ Busy(h) /\ ~At(h, "clear")
  BY DEF IInv, TypeOK, Find, Busy
<1>2. handler[h].op = "burn"
  BY <1>1, StepTellsOp DEF Find
<1>3. CASE /\ \E m \in mail : m.id = handler[h].mail /\ User(h) \in {m.from, m.to}
           /\ GoTo(h, "delete")
  <2>1. "delete" \in StepsOf(handler[h].op)
    BY <1>2 DEF StepsOf
  <2>2. /\ Moves(h) /\ handler'[h].step = "delete"
        /\ handler' \in [Request -> Run]
        /\ \A g \in Request : Filled(handler'[g])
    BY <1>1, <1>3, <2>1, RunGoesTo
  <2>3. At(handler[h].mail, "done") /\ User(h) \in Parties(handler[h].mail)
    BY <1>3 DEF IInv, MailInv, Parties
  <2>4. UNCHANGED <<db, history>>
    BY DEF Find
  <2>5. QED
    BY <1>1, <2>2, <2>3, <2>4, QuietKeeps
<1>4. CASE GoTo(h, "done")
  BY <1>1, <1>4, EndKeeps DEF Find
<1>5. QED
  BY <1>3, <1>4 DEF Find

\* Of a registered name the account is its own, and no odd address is a name.
LEMMA NamesAreRead ==
    ASSUME NEW written \in Written
    PROVE  /\ written \in Name => Account(written) = written
           /\ Account(written) \in Remote => written \notin Name
  BY WorkerAssumption DEF Written, Address, Account

\* The key a submission reads is the sender's.
LEMMA SenderKeyKeeps ==
    ASSUME IInv, NEW h \in Request, SenderKey(h)
    PROVE  IInv'
<1> USE DEF At
<1>1. TypeOK /\ handler[h] \in Run /\ Filled(handler[h]) /\ Busy(h) /\ ~At(h, "clear")
  BY DEF IInv, TypeOK, SenderKey, Busy
<1>2. handler[h].op = "send"
  BY <1>1, StepTellsOp DEF SenderKey
<1>3. ASSUME NEW found \in Key \cup {Gone},
             User(h) \in Name => users[User(h)] = found,
             handler' = [handler EXCEPT ![h].step = "recipient", ![h].found = found]
      PROVE  IInv'
  <2>1. "recipient" \in StepsOf(handler[h].op)
    BY <1>2 DEF StepsOf
  <2>2. /\ Moves(h) /\ handler'[h].step = "recipient" /\ handler'[h].found = found
        /\ handler' \in [Request -> Run]
        /\ \A g \in Request : Filled(handler'[g])
    BY <1>1, <1>3, <2>1, RunGoes
  <2>3. UNCHANGED <<db, history>>
    BY DEF SenderKey
  <2>4. QED
    BY <1>1, <1>3, <2>2, <2>3, QuietKeeps
<1> DEFINE sender == Account(User(h))
<1>8. /\ User(h) \in Name => sender = User(h)
      /\ sender \in Remote => User(h) \notin Name
      /\ handler[h].signer \in Key
  <2>1. User(h) \in Written /\ handler[h].signer \in Key
    BY <1>1, <1>2 DEF Filled, User
  <2>2. QED
    BY <2>1, NamesAreRead
<1> HIDE DEF sender
<1>4. CASE /\ sender \in Name /\ users[sender] # Free
           /\ handler' = [handler EXCEPT ![h].step = "recipient", ![h].found = users[sender]]
  <2>1. users[sender] \in Key \cup {Gone}
    BY <1>1, <1>4 DEF TypeOK
  <2>2. QED
    BY <1>3, <1>4, <1>8, <2>1
<1>5. CASE /\ sender \in Remote
           /\ handler' = [handler EXCEPT ![h].step = "recipient", ![h].found = handler[h].signer]
  <2>2. QED
    BY <1>3, <1>5, <1>8
<1>6. CASE GoTo(h, "done")
  BY <1>1, <1>6, EndKeeps DEF SenderKey
<1>7. QED
  BY <1>4, <1>5, <1>6 DEF SenderKey, sender

\* Past this step both parties had the keys of the mail when they were read.
LEMMA RecipientKeyKeeps ==
    ASSUME IInv, NEW h \in Request, RecipientKey(h)
    PROVE  IInv'
<1> USE DEF At
<1>1. TypeOK /\ handler[h] \in Run /\ Filled(handler[h]) /\ Busy(h) /\ ~At(h, "clear")
  BY DEF IInv, TypeOK, RecipientKey, Busy
<1>2. handler[h].op = "send"
  BY <1>1, StepTellsOp DEF RecipientKey
<1>3. CASE /\ handler[h].to \in Name => users[handler[h].to] = handler[h].toKey
           /\ handler[h].found = handler[h].signer
           /\ GoTo(h, "check")
  <2>1. "check" \in StepsOf(handler[h].op)
    BY <1>2 DEF StepsOf
  <2>2. /\ Moves(h) /\ handler'[h].step = "check"
        /\ handler' \in [Request -> Run]
        /\ \A g \in Request : Filled(handler'[g])
    BY <1>1, <1>3, <2>1, RunGoesTo
  <2>3. moved[h] \/ (User(h) \in Name => users[User(h)] = handler[h].signer)
    BY <1>3 DEF IInv, KeyInv, RecipientKey
  <2>4. UNCHANGED <<db, history>>
    BY DEF RecipientKey
  <2>5. QED
    BY <1>1, <1>3, <2>2, <2>3, <2>4, QuietKeeps
<1>4. CASE GoTo(h, "done")
  BY <1>1, <1>4, EndKeeps DEF RecipientKey
<1>5. handler[h].to \in Name => Account(handler[h].to) = handler[h].to
  BY <1>1, <1>2, NamesAreRead DEF Filled
<1>6. QED
  BY <1>3, <1>4, <1>5 DEF RecipientKey

\* Past this step the recipient did not block the sender when it was asked.
LEMMA CheckBlockKeeps ==
    ASSUME IInv, NEW h \in Request, CheckBlock(h)
    PROVE  IInv'
<1> USE DEF At
<1>1. TypeOK /\ handler[h] \in Run /\ Filled(handler[h]) /\ Busy(h) /\ ~At(h, "clear")
  BY DEF IInv, TypeOK, CheckBlock, Busy
<1>2. handler[h].op = "send"
  BY <1>1, StepTellsOp DEF CheckBlock
<1>3. ASSUME ~Blocked(blocks, handler[h].to, User(h)),
             NEW step \in {"store", "relay"}, GoTo(h, step)
      PROVE  IInv'
  <2>1. step \in StepsOf(handler[h].op)
    BY <1>2 DEF StepsOf
  <2>2. /\ Moves(h) /\ handler'[h].step = step
        /\ handler' \in [Request -> Run]
        /\ \A g \in Request : Filled(handler'[g])
    BY <1>1, <1>3, <2>1, RunGoesTo
  <2>3. free[h]
    BY <1>1, <1>3 DEF IInv, BlockInv
  <2>4. moved[h] \/
          /\ User(h) \in Name => users[User(h)] = handler[h].signer
          /\ handler[h].to \in Name => users[handler[h].to] = handler[h].toKey
    BY DEF IInv, KeyInv, CheckBlock
  <2>5. UNCHANGED <<db, history>>
    BY DEF CheckBlock
  <2>6. QED
    BY <1>1, <2>2, <2>3, <2>4, <2>5, QuietKeeps
<1>4. CASE GoTo(h, "done")
  BY <1>1, <1>4, EndKeeps DEF CheckBlock
<1>5. QED
  BY <1>3, <1>4 DEF CheckBlock

LEMMA RelayKeeps ==
    ASSUME IInv, NEW h \in Request, Relay(h)
    PROVE  IInv'
<1> USE DEF At
<1>1. TypeOK /\ handler[h] \in Run /\ Filled(handler[h]) /\ Busy(h) /\ ~At(h, "clear")
  BY DEF IInv, TypeOK, Relay, Busy
<1>2. handler[h].op = "send"
  BY <1>1, StepTellsOp DEF Relay
<1>3. CASE GoTo(h, "store")
  <2>1. "store" \in StepsOf(handler[h].op)
    BY <1>2 DEF StepsOf
  <2>2. /\ Moves(h) /\ handler'[h].step = "store"
        /\ handler' \in [Request -> Run]
        /\ \A g \in Request : Filled(handler'[g])
    BY <1>1, <1>3, <2>1, RunGoesTo
  <2>3. free[h]
    BY DEF IInv, BlockInv, Relay
  <2>4. moved[h] \/
          /\ User(h) \in Name => users[User(h)] = handler[h].signer
          /\ handler[h].to \in Name => users[handler[h].to] = handler[h].toKey
    BY DEF IInv, KeyInv, Relay
  <2>5. UNCHANGED <<db, history>>
    BY DEF Relay
  <2>6. QED
    BY <1>1, <2>2, <2>3, <2>4, <2>5, QuietKeeps
<1>4. CASE GoTo(h, "done")
  BY <1>1, <1>4, EndKeeps DEF Relay
<1>5. QED
  BY <1>3, <1>4 DEF Relay


-----------------------------------------------------------------------------
\* The statements that write.

\* A run that is over stays as it was.
LEMMA DoneStays ==
    ASSUME NEW h \in Request, Moves(h)
    PROVE  \A g \in Request : At(g, "done") => g # h /\ handler'[g] = handler[g]
  BY DEF Moves, Busy, At

\* What is known of mail survives a step that inserts none.
LEMMA MailsKept ==
    ASSUME IInv, NEW h \in Request, Moves(h), mail' \subseteq mail,
           handler'[h].step # "delete"
    PROVE  MailInv'
<1>1. \A m \in mail : m.id \in Request
  BY DEF IInv, TypeOK, Row
<1>2. \A m \in mail' : At(m.id, "done")' /\ m.from = User(m.id)' /\ m.to = handler'[m.id].to
  BY <1>1, DoneStays DEF IInv, MailInv, At, User
<1>3. ASSUME NEW g \in Request, At(g, "delete")'
      PROVE  (At(handler[g].mail, "done") /\ User(g) \in Parties(handler[g].mail))'
  <2>1. g # h /\ handler'[g] = handler[g] /\ At(g, "delete")
    BY <1>3 DEF Moves, At
  <2>2. handler[g] \in Run /\ Filled(handler[g])
    BY DEF IInv, TypeOK
  <2>3. handler[g].mail \in Request
    BY <2>1, <2>2, DeleterNamesMail DEF At
  <2>4. At(handler[g].mail, "done") /\ User(g) \in Parties(handler[g].mail)
    BY <2>1 DEF IInv, MailInv
  <2>5. handler'[handler[g].mail] = handler[handler[g].mail]
    BY <2>3, <2>4, DoneStays
  <2>6. QED
    BY <2>1, <2>4, <2>5 DEF At, Parties, User
<1>4. QED
  BY <1>2, <1>3 DEF MailInv

\* What is known of keys and blocks survives a step that changes neither.
LEMMA KeysAndBlocksKept ==
    ASSUME IInv, NEW h \in Request, Moves(h), UNCHANGED <<users, blocks, moved, free>>,
           handler'[h].step \in {"done", "unblock"}
    PROVE  RowInv' /\ KeyInv' /\ BlockInv' /\ OneSpelling'
<1>1. RowInv'
  BY DEF IInv, RowInv, Moves, At, User
<1>2. KeyInv'
  BY DEF IInv, KeyInv, Moves, At, User
<1>3. BlockInv'
  BY DEF IInv, BlockInv, Moves, Busy, At, User, Blocked
<1>4. OneSpelling'
  BY DEF IInv, OneSpelling
<1>5. QED
  BY <1>1, <1>2, <1>3, <1>4

\* A row of users changes: who relied on it learns that it moved.
LEMMA SetUserKeeps ==
    ASSUME IInv, NEW h \in Request, Moves(h), User(h) \in Name,
           NEW key \in Key \cup {Gone}, SetUser(User(h), key),
           UNCHANGED <<mail, blocks, free, uncleared>>,
           handler' \in [Request -> Run], \A g \in Request : Filled(handler'[g]),
           handler'[h].step \in {"done", "clear"}
    PROVE  TypeOK' /\ RowInv' /\ KeyInv' /\ BlockInv' /\ MailInv' /\ NoUnwantedMail'
<1>1. /\ users' = [users EXCEPT ![User(h)] = key]
      /\ moved' = [g \in Request |-> moved[g] \/ (Busy(g) /\ User(h) \in Parties(g))]
  BY DEF SetUser
<1>2. /\ users'[User(h)] = key
      /\ \A n \in Name : n # User(h) => users'[n] = users[n]
  BY <1>1 DEF IInv, TypeOK
<1>3. key # Free
  BY WorkerAssumption DEF Key
<1>4. TypeOK'
  <2>1. users' \in [Name -> Key \cup {Free, Gone}]
    BY <1>1 DEF IInv, TypeOK
  <2>2. moved' \in [Request -> BOOLEAN]
    BY <1>1
  <2>3. QED
    BY <2>1, <2>2 DEF IInv, TypeOK
<1>5. RowInv'
  <2>1. ASSUME NEW g \in Request, At(g, "update")'
        PROVE  users'[User(g)'] # Free
    <3>1. g # h /\ handler'[g] = handler[g] /\ At(g, "update") /\ User(g)' = User(g)
      BY <2>1 DEF Moves, At, User
    <3>2. users[User(g)] # Free /\ User(g) \in Name
      <4>1. handler[g] \in Run /\ Filled(handler[g])
        BY DEF IInv, TypeOK
      <4>2. handler[g].op \in {"rotate", "destroy"}
        BY <3>1, <4>1, StepTellsOp DEF At
      <4>3. QED
        BY <3>1, <4>1, <4>2 DEF IInv, RowInv, Filled, User
    <3>3. QED
      BY <1>2, <1>3, <3>1, <3>2
  <2>2. QED
    BY <2>1 DEF RowInv
<1>6. KeyInv'
  <2>1. ASSUME NEW g \in Request, ~moved'[g]
        PROVE  /\ At(g, "update")' => users'[User(g)'] = handler'[g].signer
               /\ At(g, "recipient")' /\ User(g)' \in Name => users'[User(g)'] = handler'[g].found
               /\ handler'[g].step \in {"check", "relay", "store"} =>
                     /\ User(g)' \in Name => users'[User(g)'] = handler'[g].signer
                     /\ handler'[g].to \in Name => users'[handler'[g].to] = handler'[g].toKey
    <3>1. CASE handler'[g].step \notin {"update", "recipient", "check", "relay", "store"}
      BY <3>1 DEF At
    <3>2. CASE handler'[g].step \in {"update", "recipient", "check", "relay", "store"}
      <4>1. g # h /\ handler'[g] = handler[g] /\ User(g)' = User(g) /\ Busy(g)
        BY <3>2 DEF Moves, Busy, At, User
      <4>2. ~moved[g] /\ User(h) \notin Parties(g)
        BY <1>1, <2>1, <4>1
      <4>3. User(g) # User(h) /\ handler[g].to # User(h)
        BY <4>2 DEF Parties
      <4>4. At(g, "update") => User(g) \in Name
        <5>1. handler[g] \in Run /\ Filled(handler[g])
          BY DEF IInv, TypeOK
        <5>2. At(g, "update") => handler[g].op \in {"rotate", "destroy"}
          BY <5>1, StepTellsOp DEF At
        <5>3. QED
          BY <5>1, <5>2 DEF Filled, User
      <4>5. /\ At(g, "update") => users[User(g)] = handler[g].signer
            /\ At(g, "recipient") /\ User(g) \in Name => users[User(g)] = handler[g].found
            /\ handler[g].step \in {"check", "relay", "store"} =>
                  /\ User(g) \in Name => users[User(g)] = handler[g].signer
                  /\ handler[g].to \in Name => users[handler[g].to] = handler[g].toKey
        BY <4>2 DEF IInv, KeyInv
      <4>6. QED
        BY <1>2, <4>1, <4>3, <4>4, <4>5 DEF At
    <3>3. QED
      BY <3>1, <3>2
  <2>2. QED
    BY <2>1 DEF KeyInv
<1>7. BlockInv'
  BY DEF IInv, BlockInv, Moves, Busy, At, User, Blocked
<1>8. MailInv'
  BY MailsKept
<1>9. NoUnwantedMail'
  BY DEF IInv, NoUnwantedMail
<1>10. QED
  BY <1>4, <1>5, <1>6, <1>7, <1>8, <1>9

\* A registration finds the name and all its spellings free, in the statement
\* that takes it.
LEMMA InsertKeeps ==
    ASSUME IInv, NEW h \in Request, Insert(h)
    PROVE  IInv'
<1> USE DEF At
<1>1. TypeOK /\ handler[h] \in Run /\ Filled(handler[h]) /\ Busy(h) /\ ~At(h, "clear")
  BY DEF IInv, TypeOK, Insert, Busy
<1>2. handler[h].op = "register" /\ User(h) \in Name
  BY <1>1, StepTellsOp DEF Insert, Filled, User
<1>3. CASE /\ \A n \in Name : Alike(n, User(h)) => users[n] = Free
           /\ SetUser(User(h), h)
  <2>1. "done" \in StepsOf(handler[h].op)
    BY <1>2 DEF StepsOf
  <2>2. /\ Moves(h) /\ handler'[h].step = "done"
        /\ handler' \in [Request -> Run]
        /\ \A g \in Request : Filled(handler'[g])
    BY <1>1, <2>1, RunGoesTo DEF Insert
  <2>3. h \in Key \cup {Gone} /\ UNCHANGED <<mail, blocks, free, uncleared>>
    BY DEF Key, Insert
  <2>4. TypeOK' /\ RowInv' /\ KeyInv' /\ BlockInv' /\ MailInv' /\ NoUnwantedMail'
    BY <1>2, <1>3, <2>2, <2>3, SetUserKeeps
  <2>5. \A n \in Name : n # User(h) => users'[n] = users[n]
    BY <1>1, <1>3 DEF SetUser, TypeOK
  <2>6. users[User(h)] = Free
    BY <1>2, <1>3 DEF Alike
  <2>7. OneSpelling'
    BY <1>2, <1>3, <2>5 DEF IInv, OneSpelling, Alike
  <2>8. MailReadable'
    <3>1. \A n : Clearing(n)' <=> Clearing(n)
      BY <1>1, <2>2, ClearingKept
    <3>2. ASSUME NEW m \in mail, ~m.late, NEW n \in {m.from, m.to} \cap Name
          PROVE  \/ users'[n] = IF n = m.to THEN m.toKey ELSE m.fromKey
                 \/ n \in uncleared \/ Clearing(n)
      <4>1. \/ users[n] = IF n = m.to THEN m.toKey ELSE m.fromKey
            \/ n \in uncleared \/ Clearing(n)
        BY <3>2 DEF IInv, MailReadable
      <4>2. m.toKey # Free /\ m.fromKey # Free
        BY <1>1, WorkerAssumption DEF TypeOK, Row, Key
      <4>3. QED
        BY <2>5, <2>6, <4>1, <4>2
    <3>3. QED
      BY <2>3, <3>1, <3>2 DEF MailReadable
  <2>9. QED
    BY <2>4, <2>7, <2>8 DEF IInv
<1>4. CASE UNCHANGED <<users, moved>>
  BY <1>1, <1>4, EndKeeps DEF Insert, db, history
<1>5. QED
  BY <1>3, <1>4 DEF Insert

\* A rotation or destruction replaces the key; its mail is cleared next.
LEMMA UpdateKeeps ==
    ASSUME IInv, NEW h \in Request, Update(h)
    PROVE  IInv'
<1> USE DEF At
<1> DEFINE key == IF handler[h].op = "rotate" THEN h ELSE Gone
<1>1. TypeOK /\ handler[h] \in Run /\ Filled(handler[h]) /\ Busy(h)
  BY DEF IInv, TypeOK, Update, Busy
<1>2. handler[h].op \in {"rotate", "destroy"} /\ User(h) \in Name
  BY <1>1, StepTellsOp DEF Update, Filled, User
<1>3. "clear" \in StepsOf(handler[h].op)
  BY <1>2 DEF StepsOf
<1>4. /\ Moves(h) /\ handler'[h].step = "clear"
      /\ handler' \in [Request -> Run]
      /\ \A g \in Request : Filled(handler'[g])
  BY <1>1, <1>3, RunGoesTo DEF Update
<1>5. /\ key \in Key \cup {Gone} /\ SetUser(User(h), key)
      /\ UNCHANGED <<mail, blocks, free, uncleared>>
  BY DEF Key, Update
<1>6. TypeOK' /\ RowInv' /\ KeyInv' /\ BlockInv' /\ MailInv' /\ NoUnwantedMail'
  <2> HIDE DEF key
  <2> QED
    BY <1>2, <1>4, <1>5, SetUserKeeps
<1>7. \A n \in Name : n # User(h) => users'[n] = users[n]
  BY <1>1, <1>5 DEF SetUser, TypeOK
<1>8. users[User(h)] # Free
  BY DEF IInv, RowInv, Update
<1>9. OneSpelling'
  BY <1>7, <1>8 DEF IInv, OneSpelling
<1>10. MailReadable'
  <2>1. \A n : n = User(h) => Clearing(n)'
    BY <1>4 DEF Clearing, Moves, User
  <2>2. \A n : Clearing(n) => Clearing(n)'
    BY <1>4 DEF Clearing, Moves, User
  <2>3. ASSUME NEW m \in mail, ~m.late, NEW n \in {m.from, m.to} \cap Name
        PROVE  \/ users'[n] = IF n = m.to THEN m.toKey ELSE m.fromKey
               \/ n \in uncleared \/ Clearing(n)'
    <3>1. \/ users[n] = IF n = m.to THEN m.toKey ELSE m.fromKey
          \/ n \in uncleared \/ Clearing(n)
      BY <2>3 DEF IInv, MailReadable
    <3>2. QED
      BY <1>7, <2>1, <2>2, <3>1
  <2>4. QED
    BY <1>5, <2>3 DEF MailReadable
<1>11. QED
  BY <1>6, <1>9, <1>10 DEF IInv

\* The second statement clears the mail of the user whose key has changed.
LEMMA ClearKeeps ==
    ASSUME IInv, NEW h \in Request, Clear(h)
    PROVE  IInv'
<1> USE DEF At
<1> DEFINE next == IF handler[h].op = "rotate" THEN "done" ELSE "unblock"
<1>1. TypeOK /\ handler[h] \in Run /\ Filled(handler[h]) /\ Busy(h)
  BY DEF IInv, TypeOK, Clear, Busy
<1>2. handler[h].op \in {"rotate", "destroy"} /\ User(h) \in Name
  BY <1>1, StepTellsOp DEF Clear, Filled, User
<1>3. next \in StepsOf(handler[h].op) /\ next \in {"done", "unblock"}
  BY <1>2 DEF StepsOf
<1>4. /\ Moves(h) /\ handler'[h].step = next
      /\ handler' \in [Request -> Run]
      /\ \A g \in Request : Filled(handler'[g])
  <2>1. GoTo(h, next)
    BY DEF Clear
  <2> HIDE DEF next
  <2>2. QED
    BY <1>1, <1>3, <2>1, RunGoesTo
<1> HIDE DEF next
<1>5. /\ mail' = {m \in mail : User(h) \notin {m.from, m.to}}
      /\ uncleared' = uncleared \ {User(h)}
      /\ UNCHANGED <<users, blocks, moved, free>>
  BY DEF Clear
<1>6. TypeOK'
  BY <1>1, <1>4, <1>5 DEF TypeOK
<1>7. RowInv' /\ KeyInv' /\ BlockInv' /\ OneSpelling'
  BY <1>3, <1>4, <1>5, KeysAndBlocksKept
<1>8. MailInv'
  BY <1>3, <1>4, <1>5, MailsKept
<1>9. MailReadable'
  <2>1. \A n : n # User(h) => (Clearing(n) => Clearing(n)')
    BY <1>4 DEF Clearing, Moves, User
  <2>2. QED
    BY <1>5, <2>1 DEF IInv, MailReadable
<1>10. NoUnwantedMail'
  BY <1>5 DEF IInv, NoUnwantedMail
<1>11. QED
  BY <1>6, <1>7, <1>8, <1>9, <1>10 DEF IInv

LEMMA DeleteKeeps ==
    ASSUME IInv, NEW h \in Request, Delete(h)
    PROVE  IInv'
<1> USE DEF At
<1>1. TypeOK /\ handler[h] \in Run /\ Filled(handler[h]) /\ Busy(h) /\ ~At(h, "clear")
  BY DEF IInv, TypeOK, Delete, Busy
<1>2. "done" \in StepsOf(handler[h].op)
  BY <1>1, RunEnds
<1>3. /\ Moves(h) /\ handler'[h].step = "done"
      /\ handler' \in [Request -> Run]
      /\ \A g \in Request : Filled(handler'[g])
  BY <1>1, <1>2, RunGoesTo DEF Delete
<1>4. mail' \subseteq mail /\ UNCHANGED <<users, blocks, history>>
  BY DEF Delete
<1>5. UNCHANGED <<users, blocks, moved, free, uncleared>>
  BY <1>4 DEF history
<1>6. TypeOK'
  BY <1>1, <1>3, <1>4, <1>5 DEF TypeOK
<1>7. RowInv' /\ KeyInv' /\ BlockInv' /\ OneSpelling'
  BY <1>3, <1>5, KeysAndBlocksKept
<1>8. MailInv'
  BY <1>3, <1>4, MailsKept
<1>9. \A n : Clearing(n)' <=> Clearing(n)
  BY <1>1, <1>3, ClearingKept
<1>10. MailReadable' /\ NoUnwantedMail'
  BY <1>4, <1>5, <1>9 DEF IInv, MailReadable, NoUnwantedMail
<1>11. QED
  BY <1>6, <1>7, <1>8, <1>10 DEF IInv


\* A change of the blocks table: who may have seen a moment without the block
\* is free.
LEMMA SetBlocksKeeps ==
    ASSUME IInv, NEW h \in Request, Busy(h), ~At(h, "clear"), GoTo(h, "done"),
           NEW table \in SUBSET (Name \X Target), SetBlocks(table),
           UNCHANGED <<users, mail, moved, uncleared>>
    PROVE  IInv'
<1>1. TypeOK /\ "done" \in StepsOf(handler[h].op)
  BY RunEnds DEF IInv
<1>2. /\ Moves(h) /\ handler'[h].step = "done"
      /\ handler' \in [Request -> Run]
      /\ \A g \in Request : Filled(handler'[g])
  BY <1>1, RunGoesTo
<1>3. /\ blocks' = table
      /\ \A g \in Request : free'[g] <=>
            free[g] \/ (Busy(g) /\ ~Blocked(table, handler[g].to, User(g)))
      /\ free' \in [Request -> BOOLEAN]
  BY <1>1 DEF SetBlocks, TypeOK
<1>4. TypeOK'
  BY <1>1, <1>2, <1>3 DEF TypeOK
<1>5. RowInv' /\ KeyInv'
  BY <1>2 DEF IInv, RowInv, KeyInv, Moves, At, User
<1>6. BlockInv'
  <2>1. ASSUME NEW g \in Request, Busy(g)'
        PROVE  g # h /\ handler'[g] = handler[g] /\ Busy(g) /\ User(g)' = User(g)
    BY <1>2, <2>1 DEF Moves, Busy, At, User
  <2>2. ASSUME NEW g \in Request, Busy(g)', ~Blocked(blocks', handler'[g].to, User(g)')
        PROVE  free'[g]
    BY <1>3, <2>1, <2>2
  <2>3. ASSUME NEW g \in Request, handler'[g].step \in {"relay", "store"}
        PROVE  free'[g]
    <3>1. Busy(g)'
      BY <2>3 DEF Busy, At
    <3>2. free[g]
      BY <2>1, <2>3, <3>1 DEF IInv, BlockInv
    <3>3. QED
      BY <1>3, <3>2
  <2>4. QED
    BY <2>2, <2>3 DEF BlockInv, Blocked
<1>7. MailInv'
  BY <1>2, MailsKept
<1>8. OneSpelling'
  BY DEF IInv, OneSpelling
<1>9. \A n : Clearing(n)' <=> Clearing(n)
  BY <1>2, ClearingKept
<1>10. MailReadable'
  BY <1>9 DEF IInv, MailReadable
<1>11. NoUnwantedMail'
  BY <1>3 DEF IInv, NoUnwantedMail, TypeOK, Row
<1>12. QED
  BY <1>4, <1>5, <1>6, <1>7, <1>8, <1>10, <1>11 DEF IInv

LEMMA WriteBlockKeeps ==
    ASSUME IInv, NEW h \in Request, WriteBlock(h)
    PROVE  IInv'
<1> USE DEF At
<1>1. TypeOK /\ handler[h] \in Run /\ Filled(handler[h]) /\ Busy(h) /\ ~At(h, "clear")
  BY DEF IInv, TypeOK, WriteBlock, Busy
<1>2. User(h) \in Name /\ handler[h].target \in Target
  BY <1>1, StepTellsOp DEF WriteBlock, Filled, User
<1> DEFINE block == <<User(h), handler[h].target>>
           table == IF handler[h].op = "block" THEN blocks \cup {block} ELSE blocks \ {block}
<1>3. table \in SUBSET (Name \X Target)
  BY <1>1, <1>2 DEF TypeOK
<1>4. SetBlocks(table)
  BY DEF WriteBlock
<1> HIDE DEF table
<1>5. QED
  BY <1>1, <1>3, <1>4, SetBlocksKeeps DEF WriteBlock

LEMMA ClearBlocksKeeps ==
    ASSUME IInv, NEW h \in Request, ClearBlocks(h)
    PROVE  IInv'
<1> USE DEF At
<1>1. TypeOK /\ Busy(h) /\ ~At(h, "clear")
  BY DEF IInv, ClearBlocks, Busy
<1> DEFINE table == {b \in blocks : User(h) \notin {b[1], b[2]}}
<1>2. table \in SUBSET (Name \X Target)
  BY <1>1 DEF TypeOK
<1>3. SetBlocks(table)
  BY DEF ClearBlocks
<1> HIDE DEF table
<1>4. QED
  BY <1>1, <1>2, <1>3, SetBlocksKeeps DEF ClearBlocks

\* A mail is inserted: it is sealed to the keys of its parties, unless they
\* moved, and its recipient was free to get it.
LEMMA StoreKeeps ==
    ASSUME IInv, NEW h \in Request, Store(h)
    PROVE  IInv'
<1> USE DEF At
<1>1. TypeOK /\ handler[h] \in Run /\ Filled(handler[h]) /\ Busy(h) /\ ~At(h, "clear")
  BY DEF IInv, TypeOK, Store, Busy
<1>2. handler[h].op = "send"
  BY <1>1, StepTellsOp DEF Store
<1>3. "done" \in StepsOf(handler[h].op)
  BY <1>1, RunEnds
<1>4. /\ Moves(h) /\ handler'[h].step = "done"
      /\ handler' \in [Request -> Run]
      /\ \A g \in Request : Filled(handler'[g])
  BY <1>1, <1>3, RunGoesTo DEF Store
<1> DEFINE row == [id |-> h, from |-> User(h), to |-> handler[h].to,
                   fromKey |-> handler[h].signer, toKey |-> handler[h].toKey,
                   late |-> moved[h]]
<1>5. /\ mail' = mail \cup {row}
      /\ UNCHANGED <<users, blocks, moved, free, uncleared>>
  BY DEF Store, history
<1>6. TypeOK'
  <2>1. row \in Row
    BY <1>1, <1>2 DEF TypeOK, Filled, User, Row
  <2>2. QED
    BY <1>1, <1>4, <1>5, <2>1 DEF TypeOK
<1>7. RowInv' /\ KeyInv' /\ BlockInv' /\ OneSpelling'
  BY <1>4, <1>5, KeysAndBlocksKept
<1>8. MailInv'
  <2>1. \A m \in mail : m.id \in Request
    BY <1>1 DEF TypeOK, Row
  <2>2. \A m \in mail : At(m.id, "done")' /\ m.from = User(m.id)' /\ m.to = handler'[m.id].to
    BY <1>4, <2>1, DoneStays DEF IInv, MailInv, User
  <2>3. handler'[row.id].step = "done" /\ row.from = handler'[row.id].user
        /\ row.to = handler'[row.id].to
    BY <1>4 DEF Moves, User
  <2>4. ASSUME NEW g \in Request, At(g, "delete")'
        PROVE  (At(handler[g].mail, "done") /\ User(g) \in Parties(handler[g].mail))'
    <3>1. g # h /\ handler'[g] = handler[g] /\ At(g, "delete")
      BY <1>4, <2>4 DEF Moves
    <3>2. handler[g].mail \in Request
      BY <1>1, <3>1, DeleterNamesMail DEF TypeOK
    <3>3. At(handler[g].mail, "done") /\ User(g) \in Parties(handler[g].mail)
      BY <3>1 DEF IInv, MailInv
    <3>4. handler'[handler[g].mail] = handler[handler[g].mail]
      BY <1>4, <3>2, <3>3, DoneStays
    <3>5. QED
      BY <3>1, <3>3, <3>4 DEF Parties, User
  <2> HIDE DEF row
  <2>5. QED
    BY <1>5, <2>2, <2>3, <2>4 DEF MailInv, User
<1>9. MailReadable'
  <2>1. \A n : Clearing(n)' <=> Clearing(n)
    BY <1>1, <1>4, ClearingKept
  <2>2. ASSUME ~row.late, NEW n \in {row.from, row.to} \cap Name
        PROVE  users[n] = IF n = row.to THEN row.toKey ELSE row.fromKey
    BY <2>2 DEF IInv, KeyInv, Store
  <2> HIDE DEF row
  <2>3. QED
    BY <1>5, <2>1, <2>2 DEF IInv, MailReadable
<1>10. NoUnwantedMail'
  BY <1>5 DEF IInv, NoUnwantedMail, BlockInv, Store
<1>11. QED
  BY <1>6, <1>7, <1>8, <1>9, <1>10 DEF IInv

\* A run breaks off; a rotation that does so before its mail is cleared is
\* remembered.
LEMMA BreakKeeps ==
    ASSUME IInv, NEW h \in Request, Break(h)
    PROVE  IInv'
<1> USE DEF At
<1>1. TypeOK /\ handler[h] \in Run /\ Filled(handler[h]) /\ Busy(h)
  BY DEF IInv, TypeOK, Break
<1>2. CASE ~At(h, "clear")
  BY <1>1, <1>2, EndKeeps DEF Break, history
<1>3. CASE At(h, "clear")
  <2>1. User(h) \in Name
    BY <1>1, <1>3, StepTellsOp DEF Filled, User
  <2>2. "done" \in StepsOf(handler[h].op)
    BY <1>1, RunEnds
  <2>3. /\ Moves(h) /\ handler'[h].step = "done"
        /\ handler' \in [Request -> Run]
        /\ \A g \in Request : Filled(handler'[g])
    BY <1>1, <2>2, RunGoesTo DEF Break
  <2>4. /\ uncleared' = uncleared \cup {User(h)}
        /\ UNCHANGED <<users, mail, blocks, moved, free>>
    BY <1>3 DEF Break, db
  <2>5. TypeOK'
    BY <1>1, <2>1, <2>3, <2>4 DEF TypeOK
  <2>6. RowInv' /\ KeyInv' /\ BlockInv' /\ OneSpelling'
    BY <2>3, <2>4, KeysAndBlocksKept
  <2>7. MailInv'
    BY <2>3, <2>4, MailsKept
  <2>8. \A n : n # User(h) => (Clearing(n) => Clearing(n)')
    BY <2>3 DEF Clearing, Moves, User
  <2>9. MailReadable' /\ NoUnwantedMail'
    BY <2>4, <2>8 DEF IInv, MailReadable, NoUnwantedMail
  <2>10. QED
    BY <2>5, <2>6, <2>7, <2>9 DEF IInv
<1>4. QED
  BY <1>2, <1>3

-----------------------------------------------------------------------------
LEMMA Inductive == IInv /\ [Next]_vars => IInv'
<1>1. SUFFICES ASSUME IInv, [Next]_vars PROVE IInv'
  OBVIOUS
<1>2. CASE UNCHANGED vars
  <2>1. /\ users' = users /\ mail' = mail /\ blocks' = blocks /\ handler' = handler
        /\ moved' = moved /\ free' = free /\ uncleared' = uncleared
    BY <1>2 DEF vars, db, history
  <2>2. TypeOK' /\ RowInv' /\ KeyInv' /\ BlockInv' /\ MailInv'
    BY <1>1, <2>1 DEF IInv, TypeOK, RowInv, KeyInv, BlockInv, MailInv, At, Busy, User, Parties
  <2>3. OneSpelling' /\ MailReadable' /\ NoUnwantedMail'
    BY <1>1, <2>1 DEF IInv, OneSpelling, MailReadable, NoUnwantedMail, Clearing, At, User
  <2>4. QED
    BY <2>2, <2>3 DEF IInv
<1>3. CASE Next
  <2>1. PICK h \in Request : Step(h)
    BY <1>3 DEF Next
  <2>2. QED
    BY <1>1, <2>1, ArriveRegisterKeeps, ArriveSignedKeeps, ArriveMailKeeps, InsertKeeps,
       AuthenticateKeeps, ReadKeeps, FindKeeps, DeleteKeeps, WriteBlockKeeps, UpdateKeeps,
       ClearKeeps, ClearBlocksKeeps, SenderKeyKeeps, RecipientKeyKeeps, CheckBlockKeeps,
       RelayKeeps, StoreKeeps, BreakKeeps
    DEF Step
<1>4. QED
  BY <1>1, <1>2, <1>3

\* IInv holds of every execution.
THEOREM Invariance == Spec => []IInv
  BY InitEstablishes, Inductive, PTL DEF Spec

\* The tables and the runs keep their types, and a run only takes the steps of
\* its operation (index.ts, the handlers).
THEOREM TypeCorrect == Spec => []TypeOK
<1>1. IInv => TypeOK
  BY DEF IInv
<1>2. QED
  BY <1>1, Invariance, PTL

\* Names that differ by case are never both registered (index.ts register).
THEOREM SpellingsAreUnique == Spec => []OneSpelling
<1>1. IInv => OneSpelling
  BY DEF IInv
<1>2. QED
  BY <1>1, Invariance, PTL

\* Mail is sealed to keys its local parties have, but for a rotation or
\* destruction whose statements are not all done (index.ts rotate, destroy).
THEOREM MailStaysReadable == Spec => []MailReadable
<1>1. IInv => MailReadable
  BY DEF IInv
<1>2. QED
  BY <1>1, Invariance, PTL

\* No mail of a sender who was blocked all the time is stored (index.ts
\* blockCheck).
THEOREM BlocksHold == Spec => []NoUnwantedMail
<1>1. IInv => NoUnwantedMail
  BY DEF IInv
<1>2. QED
  BY <1>1, Invariance, PTL


-----------------------------------------------------------------------------
\* An account changes only by a registration of a free name, or by a rotation
\* or destruction signed with the key it has, or had while the request was
\* under way, and is never free again (index.ts register, rotate, destroy).
THEOREM KeysSucceed == Spec => KeySuccession
<1> DEFINE Succeeds(n) ==
             \/ users[n] = Free /\ users'[n] \in Request
             \/ \E h \in Request :
                   /\ At(h, "update") /\ User(h) = n
                   /\ users'[n] = IF handler[h].op = "rotate" THEN h ELSE Gone
                   /\ users[n] = handler[h].signer \/ moved[h]
<1>1. ASSUME IInv, [Next]_vars, NEW n \in Name, users'[n] # users[n]
      PROVE  Succeeds(n)
  <2>1. PICK h \in Request : Step(h)
    BY <1>1 DEF Next, vars, db
  <2>2. Insert(h) \/ Update(h)
    BY <1>1, <2>1
    DEF Step, ArriveRegister, ArriveSigned, ArriveMail, Arrive, Authenticate, Read, Find,
        Delete, WriteBlock, Clear, ClearBlocks, SenderKey, RecipientKey, CheckBlock, Relay,
        Store, Break, db
  <2>3. users \in [Name -> Key \cup {Free, Gone}]
    BY <1>1 DEF IInv, TypeOK
  <2>4. CASE Insert(h)
    <3>1. \A m \in Name : Alike(m, User(h)) => users[m] = Free
      BY <1>1, <2>4 DEF Insert
    <3>2. SetUser(User(h), h)
      BY <1>1, <2>4 DEF Insert
    <3>3. n = User(h) /\ users'[n] = h
      BY <1>1, <2>3, <3>2 DEF SetUser
    <3>4. QED
      BY <3>1, <3>3 DEF Alike
  <2>5. CASE Update(h)
    <3>1. At(h, "update") /\ SetUser(User(h), IF handler[h].op = "rotate" THEN h ELSE Gone)
      BY <2>5 DEF Update
    <3>2. n = User(h) /\ users'[n] = IF handler[h].op = "rotate" THEN h ELSE Gone
      BY <1>1, <2>3, <3>1 DEF SetUser
    <3>3. users[n] = handler[h].signer \/ moved[h]
      BY <1>1, <3>1, <3>2 DEF IInv, KeyInv
    <3>4. QED
      BY <3>1, <3>2, <3>3
  <2>6. QED
    BY <2>2, <2>4, <2>5
<1>2. IInv /\ [Next]_vars => [\A n \in Name : users'[n] # users[n] => Succeeds(n)]_vars
  BY <1>1
<1>3. QED
  BY <1>2, Invariance, PTL DEF Spec, KeySuccession

\* Mail is lost only by a burn of one of its parties, or with the account of
\* one (index.ts burn, rotate, destroy).
THEOREM LossesExplained == Spec => LossExplained
<1> DEFINE Explains(h, m) ==
             /\ User(h) \in {m.from, m.to}
             /\ At(h, "clear") \/ (At(h, "delete") /\ handler[h].mail = m.id)
<1>1. ASSUME IInv, [Next]_vars, NEW m \in mail \ mail'
      PROVE  \E h \in Request : Explains(h, m)
  <2>1. PICK h \in Request : Step(h)
    BY <1>1 DEF Next, vars, db
  <2>2. Delete(h) \/ Clear(h)
    BY <1>1, <2>1
    DEF Step, ArriveRegister, ArriveSigned, ArriveMail, Arrive, Authenticate, Read, Find,
        Insert, WriteBlock, Update, ClearBlocks, SenderKey, RecipientKey, CheckBlock, Relay,
        Store, Break, db
  <2>3. CASE Delete(h)
    <3>1. At(h, "delete") /\ m.id = handler[h].mail
      BY <1>1, <2>3 DEF Delete
    <3>2. User(h) \in Parties(m.id)
      BY <1>1, <3>1 DEF IInv, MailInv
    <3>3. m.from = User(m.id) /\ m.to = handler[m.id].to
      BY <1>1 DEF IInv, MailInv
    <3>4. QED
      BY <3>1, <3>2, <3>3 DEF Parties
  <2>4. CASE Clear(h)
    BY <1>1, <2>4 DEF Clear
  <2>5. QED
    BY <2>2, <2>3, <2>4
<1>2. IInv /\ [Next]_vars => [\A m \in mail \ mail' : \E h \in Request : Explains(h, m)]_vars
  BY <1>1
<1>3. QED
  BY <1>2, Invariance, PTL DEF Spec, LossExplained

=============================================================================
