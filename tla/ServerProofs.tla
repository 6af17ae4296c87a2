---------------------------- MODULE ServerProofs ----------------------------
(***************************************************************************)
(* What the server guarantees for every set of users, payloads, tokens and *)
(* handlers, and for any number of requests and restarts.  Limiter, the    *)
(* rate limit before the handlers, follows.                                *)
(***************************************************************************)
EXTENDS Server, Limiter, TLAPS

\* Whatever a request carries, it has the fields its operation uses.
LEMMA RequestFields ==
    ASSUME NEW r \in Request
    PROVE  /\ r.sig \in Payloads /\ r.pow \in Pow
           /\ r.sig.op \in Op /\ r.sig.user \in Address /\ r.sig.signer \in Key
           /\ r.sig.target \in Address \cup Domain /\ r.sig.key \in Key
           /\ r.sig.mail \in Nat /\ r.sig.reply \in BOOLEAN
           /\ r.sig.op # "send" => r.sig.user \in User
           /\ r.sig.op = "send" => r.sig.target \in Address
           /\ r # NoRequest
<1> USE ServerAssumption
<1>1. r.sig \in Payloads /\ r.pow \in Pow /\ r # NoRequest
  BY DEF Request
<1>2. r.sig \in Payload
  BY <1>1
<1>3. QED
  BY <1>1, <1>2 DEF Payload

-----------------------------------------------------------------------------
\* Where a request of each kind may be: the routes through the handlers.

SendSteps == {"senderKeys", "recipientKeys", "recheck", "verify", "blocked",
              "duplicate", "level", "relay", "insert"}

RouteInv ==
    \A h \in Handler :
        /\ pc[h] \in {"auth", "seen", "apply"} => Sig(h).op # "send"
        /\ pc[h] \in SendSteps => Sig(h).op = "send"
        /\ pc[h] = "blocked" => Sig(h).target \in User

TypeInv == TypeOK /\ RouteInv

\* A step that only moves its handler on keeps the types.
LEMMA ProceedTypes ==
    ASSUME TypeInv, NEW h \in Handler, NEW step \in Steps, Proceed(h, step),
           pc[h] # "idle", senderKey' \in [Handler -> Key \cup {Absent}],
           seen' \subseteq Payloads, spent' \subseteq Pow
    PROVE  TypeOK'
<1>1. pc' \in [Handler -> Steps]
  BY DEF Proceed, GoTo, TypeInv, TypeOK
<1>2. \A g \in Handler : pc'[g] # "idle" => pc[g] # "idle"
  BY DEF Proceed, GoTo, TypeInv, TypeOK
<1>3. QED
  BY <1>1, <1>2 DEF Proceed, TypeInv, TypeOK, dbVars, history

\* A handler that returns keeps the types.
LEMMA DoneTypes ==
    ASSUME TypeOK, NEW h \in Handler, Done(h)
    PROVE  /\ pc' \in [Handler -> Steps]
           /\ req' \in [Handler -> Request \cup {NoRequest}]
           /\ senderKey' \in [Handler -> Key \cup {Absent}]
           /\ \A g \in Handler : pc'[g] # "idle" => req'[g] \in Request
           /\ \A g \in Handler : g # h => pc'[g] = pc[g] /\ req'[g] = req[g]
           /\ pc'[h] = "idle"
  BY DEF Done, GoTo, TypeOK, Steps

LEMMA RefuseTypes ==
    ASSUME TypeInv, NEW h \in Handler, NEW outcome, Refuse(h, outcome),
           pc[h] # "idle", seen' \subseteq Payloads, spent' \subseteq Pow
    PROVE  TypeOK'
<1>1. keyMoved' \in [Handler -> BOOLEAN] /\ wasFree' \in [Handler -> BOOLEAN]
  BY DEF Refuse, Forget, TypeInv, TypeOK
<1>2. answers' \subseteq [sig : Payloads, outcome : Outcome, id : Nat]
  <2>1. Sig(h) \in Payloads
    BY RequestFields DEF TypeInv, TypeOK, Sig
  <2>2. QED
    BY <2>1 DEF Refuse, Answered, TypeInv, TypeOK
<1>3. QED
  BY <1>1, <1>2, DoneTypes DEF Refuse, TypeInv, TypeOK, dbVars

\* The steps that end a handler with an effect on the tables keep the types.
LEMMA EffectTypes ==
    ASSUME TypeInv, NEW h \in Handler, Effect(h), pc[h] # "idle",
           row' \in [User -> Key \cup {Absent, Destroyed}],
           mail' \subseteq MailRow, blocks' \subseteq User \X (Address \cup Domain),
           UNCHANGED <<nextId, answers>>, removed' \subseteq Nat,
           keyMoved' \in [Handler -> BOOLEAN], wasFree' \in [Handler -> BOOLEAN]
    PROVE  TypeOK'
<1>1. Sig(h) \in Payloads /\ req[h].pow \in Pow
  BY RequestFields DEF TypeInv, TypeOK, Sig
<1>2. applied' \in [Payloads -> Nat] /\ paid' \in [Pow -> Nat]
  BY <1>1 DEF Effect, TypeInv, TypeOK
<1>3. QED
  BY <1>2, DoneTypes DEF Effect, TypeInv, TypeOK

LEMMA DeleteTypes ==
    ASSUME TypeInv, NEW rows \in SUBSET mail, DeleteMail(rows)
    PROVE  mail' \subseteq MailRow /\ removed' \subseteq Nat
  BY ZenonT(40) DEF DeleteMail, TypeInv, TypeOK, MailRow

LEMMA ArriveTypes ==
    ASSUME TypeInv, NEW h \in Handler, NEW r \in Request, Arrive(h, r)
    PROVE  TypeOK'
<1>1. FirstStep(r.sig.op) \in Steps
  BY DEF FirstStep, Steps
<1>2. /\ pc' \in [Handler -> Steps]
      /\ req' \in [Handler -> Request \cup {NoRequest}]
      /\ wasFree' \in [Handler -> BOOLEAN]
      /\ arrived' \subseteq Request
  BY <1>1 DEF Arrive, GoTo, TypeInv, TypeOK
<1>3. \A g \in Handler : pc'[g] # "idle" => req'[g] \in Request
  BY DEF Arrive, GoTo, TypeInv, TypeOK, At
<1>4. QED
  BY <1>2, <1>3 DEF Arrive, TypeInv, TypeOK, dbVars

LEMMA AcceptTypes ==
    ASSUME TypeInv, NEW h \in Handler, NEW id \in Nat, Accept(h, id),
           pc[h] # "idle"
    PROVE  /\ answers' \subseteq [sig : Payloads, outcome : Outcome, id : Nat]
           /\ keyMoved' \in [Handler -> BOOLEAN]
           /\ wasFree' \in [Handler -> BOOLEAN]
<1>1. Sig(h) \in Payloads
  BY RequestFields DEF TypeInv, TypeOK, Sig
<1>2. QED
  BY <1>1 DEF Accept, Answered, Forget, Outcome, TypeInv, TypeOK

LEMMA InsertMailTypes ==
    ASSUME TypeInv, NEW h \in Handler, InsertMail(h)
    PROVE  TypeOK'
<1>1. pc[h] = "insert" /\ req[h] \in Request /\ Sig(h).op = "send"
  BY DEF InsertMail, At, TypeInv, TypeOK, RouteInv, SendSteps
<1>2. NewMail(h) \in MailRow
  BY <1>1, RequestFields DEF NewMail, MailRow, Sig, TypeInv, TypeOK
<1>3. paid' \in [Pow -> Nat]
  BY <1>1, RequestFields DEF InsertMail, TypeInv, TypeOK
<1>4. PICK id \in Nat : Accept(h, id)
  BY DEF InsertMail, TypeInv, TypeOK, MailRow
<1>5. mail' \subseteq MailRow /\ nextId' \in Nat
  BY <1>2 DEF InsertMail, TypeInv, TypeOK
<1>6. QED
  BY <1>1, <1>3, <1>4, <1>5, AcceptTypes, DoneTypes
     DEF InsertMail, Accept, TypeInv, TypeOK

\* Every step of a handler keeps the types.
LEMMA HandleTypes ==
    ASSUME TypeInv, NEW h \in Handler, Handle(h)
    PROVE  TypeOK'
<1> DEFINE u == Sig(h).user
<1>1. pc[h] # "idle" /\ req[h] \in Request
  BY DEF Handle, TypeInv, TypeOK, At, Applying, Authenticate, Remember, Spend,
         CreateUser, RotateKeys, DestroyUser, ChangeBlocks, BurnMail, Read,
         SenderKeys, RecipientKeys, RecheckRecipient, VerifySignature,
         CheckBlocked, FindDuplicate, CheckLevel, Relay, InsertMail, StoreFails
<1>2. /\ Sig(h) \in Payloads /\ req[h].pow \in Pow
      /\ Sig(h).op # "send" => u \in User
      /\ Sig(h).key \in Key /\ Sig(h).target \in Address \cup Domain
  BY <1>1, RequestFields DEF Sig
<1>3. senderKey \in [Handler -> Key \cup {Absent}] /\ seen \subseteq Payloads
      /\ spent \subseteq Pow
  BY DEF TypeInv, TypeOK
<1>4. ASSUME NEW p \in Payloads
      PROVE  {AfterPayment(p), AfterVerify(p), AfterDuplicate(p)} \subseteq Steps
  BY DEF AfterPayment, AfterVerify, AfterDuplicate, Steps
<1>5. {"seen", "spend", "recipientKeys", "verify", "recheck", "duplicate",
       "insert"} \subseteq Steps
  BY DEF Steps
<1>6. CASE Authenticate(h)
  BY <1>1, <1>3, <1>5, <1>6, ProceedTypes, RefuseTypes DEF Authenticate
<1>7. CASE Remember(h)
  BY <1>1, <1>2, <1>3, <1>5, <1>7, ProceedTypes, RefuseTypes DEF Remember
<1>8. CASE Spend(h)
  BY <1>1, <1>2, <1>3, <1>4, <1>8, ProceedTypes, RefuseTypes DEF Spend
<1>9. CASE CreateUser(h)
  <2>1. CASE Refuse(h, "conflict") /\ UNCHANGED <<seen, spent>>
    BY <2>1, <1>1, <1>3, RefuseTypes
  <2>2. CASE /\ row' = [row EXCEPT ![u] = Sig(h).key]
             /\ KeysMove(h, u) /\ wasFree' = [wasFree EXCEPT ![h] = FALSE]
             /\ Effect(h) /\ UNCHANGED <<mail, blocks, nextId, answers, removed>>
    <3>1. /\ row' \in [User -> Key \cup {Absent, Destroyed}]
          /\ keyMoved' \in [Handler -> BOOLEAN] /\ wasFree' \in [Handler -> BOOLEAN]
      BY <2>2, <1>2 DEF KeysMove, TypeInv, TypeOK
    <3>2. QED
      BY <3>1, <2>2, <1>1, EffectTypes DEF TypeInv, TypeOK
  <2>3. QED
    BY <2>1, <2>2, <1>9 DEF CreateUser
<1>10. CASE RotateKeys(h)
  <2>1. /\ row' \in [User -> Key \cup {Absent, Destroyed}]
        /\ keyMoved' \in [Handler -> BOOLEAN] /\ wasFree' \in [Handler -> BOOLEAN]
    BY <1>10, <1>2 DEF RotateKeys, KeysMove, TypeInv, TypeOK
  <2>2. mail' \subseteq MailRow /\ removed' \subseteq Nat
    BY <1>10, DeleteTypes DEF RotateKeys, OfUser
  <2>3. QED
    BY <2>1, <2>2, <1>1, <1>10, EffectTypes DEF RotateKeys, TypeInv, TypeOK
<1>11. CASE DestroyUser(h)
  <2>1. /\ row' \in [User -> Key \cup {Absent, Destroyed}]
        /\ keyMoved' \in [Handler -> BOOLEAN] /\ wasFree' \in [Handler -> BOOLEAN]
        /\ blocks' \subseteq User \X (Address \cup Domain)
    BY <1>11, <1>2 DEF DestroyUser, KeysMove, BlocksMove, TypeInv, TypeOK
  <2>2. mail' \subseteq MailRow /\ removed' \subseteq Nat
    BY <1>11, DeleteTypes DEF DestroyUser, OfUser
  <2>3. QED
    BY <2>1, <2>2, <1>1, <1>11, EffectTypes DEF DestroyUser
<1>12. CASE ChangeBlocks(h)
  <2>1. /\ keyMoved' \in [Handler -> BOOLEAN] /\ wasFree' \in [Handler -> BOOLEAN]
        /\ blocks' \subseteq User \X (Address \cup Domain)
    BY <1>12, <1>2 DEF ChangeBlocks, Applying, BlocksMove, TypeInv, TypeOK
  <2>2. QED
    BY <2>1, <1>1, <1>12, EffectTypes DEF ChangeBlocks, TypeInv, TypeOK
<1>13. CASE BurnMail(h)
  <2>1. keyMoved' \in [Handler -> BOOLEAN] /\ wasFree' \in [Handler -> BOOLEAN]
    BY <1>13 DEF BurnMail, Forget, TypeInv, TypeOK
  <2>2. mail' \subseteq MailRow /\ removed' \subseteq Nat
    BY <1>13, DeleteTypes DEF BurnMail, OfUser
  <2>3. QED
    BY <2>1, <2>2, <1>1, <1>13, EffectTypes DEF BurnMail, TypeInv, TypeOK
<1>14. CASE Read(h)
  <2>1. keyMoved' \in [Handler -> BOOLEAN] /\ wasFree' \in [Handler -> BOOLEAN]
    BY <1>14 DEF Read, Forget, TypeInv, TypeOK
  <2>2. QED
    BY <2>1, <1>1, <1>14, EffectTypes DEF Read, TypeInv, TypeOK, dbVars
<1>15. CASE SenderKeys(h)
  BY <1>1, <1>3, <1>5, <1>15, ProceedTypes, RefuseTypes DEF SenderKeys
<1>16. CASE RecipientKeys(h)
  BY <1>1, <1>3, <1>5, <1>16, ProceedTypes, RefuseTypes DEF RecipientKeys
<1>17. CASE RecheckRecipient(h)
  BY <1>1, <1>3, <1>5, <1>17, ProceedTypes, RefuseTypes DEF RecheckRecipient
<1>18. CASE VerifySignature(h)
  BY <1>1, <1>2, <1>3, <1>4, <1>18, ProceedTypes, RefuseTypes DEF VerifySignature
<1>19. CASE CheckBlocked(h)
  BY <1>1, <1>3, <1>5, <1>19, ProceedTypes, RefuseTypes DEF CheckBlocked
<1>20. CASE FindDuplicate(h)
  <2>1. CASE Proceed(h, AfterDuplicate(Sig(h))) /\ UNCHANGED <<seen, spent, senderKey>>
    BY <2>1, <1>1, <1>2, <1>3, <1>4, ProceedTypes
  <2>2. ASSUME NEW m \in mail, Accept(h, m.id),
               UNCHANGED <<dbVars, arrived, restarts, applied, paid, removed, seen, spent>>
        PROVE  TypeOK'
    <3>1. m.id \in Nat
      BY DEF TypeInv, TypeOK, MailRow
    <3>2. QED
      BY <3>1, <2>2, <1>1, AcceptTypes, DoneTypes DEF Accept, TypeInv, TypeOK, dbVars
  <2>3. QED
    BY <2>1, <2>2, <1>20 DEF FindDuplicate
<1>21. CASE CheckLevel(h)
  BY <1>1, <1>3, <1>21, ProceedTypes, RefuseTypes DEF CheckLevel, Steps
<1>22. CASE Relay(h)
  BY <1>1, <1>3, <1>5, <1>22, ProceedTypes, RefuseTypes DEF Relay
<1>23. CASE InsertMail(h)
  BY <1>23, InsertMailTypes
<1>24. CASE StoreFails(h)
  BY <1>1, <1>3, <1>24, RefuseTypes DEF StoreFails
<1>25. QED
  BY <1>6, <1>7, <1>8, <1>9, <1>10, <1>11, <1>12, <1>13, <1>14, <1>15, <1>16,
     <1>17, <1>18, <1>19, <1>20, <1>21, <1>22, <1>23, <1>24 DEF Handle

-----------------------------------------------------------------------------
\* What a step does to the handlers: the others stay, and h returns or moves on
\* along its route with its request.

Moves(h) ==
    \/ pc[h] = "auth" /\ pc'[h] = "seen"
    \/ pc[h] = "seen" /\ pc'[h] = "spend"
    \/ pc[h] = "spend" /\ pc'[h] = AfterPayment(Sig(h))
    \/ pc[h] = "senderKeys" /\ pc'[h] = "recipientKeys"
    \/ pc[h] = "recipientKeys" /\ pc'[h] \in {"verify", "recheck"}
    \/ pc[h] = "recheck" /\ pc'[h] = "verify"
    \/ pc[h] = "verify" /\ pc'[h] = AfterVerify(Sig(h))
    \/ pc[h] = "blocked" /\ pc'[h] = "duplicate"
    \/ pc[h] = "duplicate" /\ pc'[h] = AfterDuplicate(Sig(h))
    \/ pc[h] = "level" /\ pc'[h] = "spend"
    \/ pc[h] = "relay" /\ pc'[h] = "insert"

LEMMA ProceedMoves ==
    ASSUME TypeInv, NEW h \in Handler, NEW step \in Steps, Proceed(h, step)
    PROVE  /\ req' = req /\ pc'[h] = step
           /\ \A g \in Handler : g # h => pc'[g] = pc[g]
           /\ UNCHANGED <<dbVars, history>>
  BY DEF Proceed, GoTo, TypeInv, TypeOK

LEMMA HandleMoves ==
    ASSUME TypeInv, NEW h \in Handler, Handle(h)
    PROVE  /\ pc[h] # "idle" /\ req[h] \in Request
           /\ \A g \in Handler : g # h => pc'[g] = pc[g] /\ req'[g] = req[g]
           /\ \/ Done(h)
              \/ req' = req /\ Moves(h)
<1>1. pc[h] # "idle" /\ req[h] \in Request
  BY DEF Handle, TypeInv, TypeOK, At, Applying, Authenticate, Remember, Spend,
         CreateUser, RotateKeys, DestroyUser, ChangeBlocks, BurnMail, Read,
         SenderKeys, RecipientKeys, RecheckRecipient, VerifySignature,
         CheckBlocked, FindDuplicate, CheckLevel, Relay, InsertMail, StoreFails
<1>2. \/ Done(h)
      \/ (\E step \in Steps : Proceed(h, step)) /\ Moves(h)
  <2>1. Sig(h) \in Payloads
    BY <1>1, RequestFields DEF Sig
  <2>2. {"seen", "spend", "recipientKeys", "verify", "recheck", "duplicate",
         "insert", AfterPayment(Sig(h)), AfterVerify(Sig(h)),
         AfterDuplicate(Sig(h))} \subseteq Steps
    BY <2>1 DEF AfterPayment, AfterVerify, AfterDuplicate, Steps
  <2>3. CASE Authenticate(h)
    BY <2>2, <2>3, ProceedMoves DEF Authenticate, Refuse, At, Moves
  <2>4. CASE Remember(h)
    BY <2>2, <2>4, ProceedMoves DEF Remember, Refuse, At, Moves
  <2>5. CASE Spend(h)
    BY <2>2, <2>5, ProceedMoves DEF Spend, Refuse, At, Moves
  <2>6. CASE CreateUser(h) \/ RotateKeys(h) \/ DestroyUser(h) \/ ChangeBlocks(h)
             \/ BurnMail(h) \/ Read(h) \/ InsertMail(h) \/ StoreFails(h)
    BY <2>6 DEF CreateUser, RotateKeys, DestroyUser, ChangeBlocks, BurnMail, Read,
                InsertMail, StoreFails, Effect, Refuse, Accept
  <2>7. CASE SenderKeys(h)
    BY <2>2, <2>7, ProceedMoves DEF SenderKeys, Refuse, At, Moves
  <2>8. CASE RecipientKeys(h)
    BY <2>2, <2>8, ProceedMoves DEF RecipientKeys, Refuse, At, Moves
  <2>9. CASE RecheckRecipient(h)
    BY <2>2, <2>9, ProceedMoves DEF RecheckRecipient, Refuse, At, Moves
  <2>10. CASE VerifySignature(h)
    BY <2>2, <2>10, ProceedMoves DEF VerifySignature, Refuse, At, Moves
  <2>11. CASE CheckBlocked(h)
    BY <2>2, <2>11, ProceedMoves DEF CheckBlocked, Refuse, At, Moves
  <2>12. CASE FindDuplicate(h)
    BY <2>2, <2>12, ProceedMoves DEF FindDuplicate, Accept, At, Moves
  <2>13. CASE CheckLevel(h)
    BY <2>2, <2>13, ProceedMoves DEF CheckLevel, Refuse, At, Moves
  <2>14. CASE Relay(h)
    BY <2>2, <2>14, ProceedMoves DEF Relay, Refuse, At, Moves
  <2>15. QED
    BY <2>3, <2>4, <2>5, <2>6, <2>7, <2>8, <2>9, <2>10, <2>11, <2>12, <2>13,
       <2>14 DEF Handle
<1>3. CASE Done(h)
  BY <1>1, <1>3, DoneTypes DEF TypeInv
<1>4. CASE (\E step \in Steps : Proceed(h, step)) /\ Moves(h)
  BY <1>1, <1>4, ProceedMoves
<1>5. QED
  BY <1>2, <1>3, <1>4

LEMMA HandleRoute ==
    ASSUME TypeInv, NEW h \in Handler, Handle(h)
    PROVE  RouteInv'
<1>1. SUFFICES ASSUME NEW g \in Handler
               PROVE  /\ pc'[g] \in {"auth", "seen", "apply"} => Sig(g)'.op # "send"
                      /\ pc'[g] \in SendSteps => Sig(g)'.op = "send"
                      /\ pc'[g] = "blocked" => Sig(g)'.target \in User
  BY DEF RouteInv
<1>2. CASE g # h
  BY <1>2, HandleMoves DEF TypeInv, RouteInv, Sig
<1>3. CASE g = h /\ Done(h)
  BY <1>3, DoneTypes DEF TypeInv, SendSteps
<1>4. CASE g = h /\ req' = req /\ Moves(h)
  <2>1. Sig(h)' = Sig(h)
    BY <1>4 DEF Sig
  <2>2. /\ AfterPayment(Sig(h)) = "apply" => Sig(h).op # "send"
        /\ AfterPayment(Sig(h)) \in {"insert", "relay"} => Sig(h).op = "send"
        /\ AfterPayment(Sig(h)) \in {"apply", "insert", "relay"}
    BY DEF AfterPayment
  <2>3. /\ AfterVerify(Sig(h)) \in {"blocked", "duplicate"}
        /\ AfterVerify(Sig(h)) = "blocked" => Sig(h).target \in User
        /\ AfterDuplicate(Sig(h)) \in {"level", "spend"}
    BY DEF AfterVerify, AfterDuplicate
  <2>4. QED
    BY <1>4, <2>1, <2>2, <2>3 DEF Moves, TypeInv, RouteInv, SendSteps
<1>5. QED
  BY <1>2, <1>3, <1>4, HandleMoves

LEMMA ArriveRoute ==
    ASSUME TypeInv, NEW h \in Handler, NEW r \in Request, Arrive(h, r)
    PROVE  RouteInv'
<1>1. /\ pc' = [pc EXCEPT ![h] = FirstStep(r.sig.op)]
      /\ req' = [req EXCEPT ![h] = r]
  BY DEF Arrive, GoTo
<1>2. /\ FirstStep(r.sig.op) \in {"seen", "auth"} => r.sig.op # "send"
      /\ FirstStep(r.sig.op) = "senderKeys" => r.sig.op = "send"
      /\ FirstStep(r.sig.op) \in {"seen", "auth", "senderKeys"}
  BY DEF FirstStep
<1>3. QED
  BY <1>1, <1>2 DEF TypeInv, TypeOK, RouteInv, Sig, SendSteps

LEMMA TypeInductive == TypeInv /\ [Next]_vars => TypeInv'
<1>1. SUFFICES ASSUME TypeInv, [Next]_vars PROVE TypeInv'
  OBVIOUS
<1>2. ASSUME NEW h \in Handler, NEW r \in Request, Arrive(h, r) PROVE TypeInv'
  BY <1>1, <1>2, ArriveTypes, ArriveRoute DEF TypeInv
<1>3. ASSUME NEW h \in Handler, Handle(h) PROVE TypeInv'
  BY <1>1, <1>3, HandleTypes, HandleRoute DEF TypeInv
<1>4. CASE Restart
  BY <1>1, <1>4 DEF Restart, TypeInv, TypeOK, RouteInv, dbVars, Steps, SendSteps
<1>5. CASE UNCHANGED vars
  BY <1>1, <1>5 DEF vars, dbVars, handlerVars, history, TypeInv, TypeOK, RouteInv, Sig
<1>6. QED
  BY <1>1, <1>2, <1>3, <1>4, <1>5 DEF Next

LEMMA TypeInit == Init => TypeInv
  BY ServerAssumption DEF Init, TypeInv, TypeOK, RouteInv, Steps, SendSteps

THEOREM TypeInvariance == Spec => []TypeInv
  BY TypeInit, TypeInductive, PTL DEF Spec

\* The variables have their types, whatever requests arrive in whatever order.
THEOREM TypeCorrect == Spec => []TypeOK
<1>1. TypeInv => TypeOK
  BY DEF TypeInv
<1>2. QED
  BY <1>1, TypeInvariance, PTL

-----------------------------------------------------------------------------
\* The replay memories.

\* h has put its signature into seen, or its token into spent, and has not
\* returned.
Remembered(h) == pc[h] \in {"spend", "apply"} /\ Sig(h).op # "send"
HasPaid(h) == pc[h] \in {"apply", "relay", "insert"}

\* A signature in seen belongs to one handler, which has had no effect yet, or
\* to none; one that is not has had no effect.
SeenInv ==
    /\ \A h \in Handler :
          Remembered(h) =>
              /\ Sig(h) \in seen
              /\ applied[Sig(h)] = 0
              /\ \A g \in Handler : Remembered(g) /\ Sig(g) = Sig(h) => g = h
    /\ \A p \in Payloads : /\ applied[p] <= 1
                           /\ p \notin seen => applied[p] = 0

\* The same of the tokens in spent.
SpentInv ==
    /\ \A h \in Handler :
          HasPaid(h) =>
              /\ req[h].pow \in spent
              /\ paid[req[h].pow] = 0
              /\ \A g \in Handler : HasPaid(g) /\ req[g].pow = req[h].pow => g = h
    /\ \A w \in Pow : /\ paid[w] <= 1
                      /\ w \notin spent => paid[w] = 0

ReplayInv == SeenInv /\ SpentInv

memory == <<seen, spent, applied, paid>>

\* The steps of a handler, by what they do to the memories.
LEMMA MemorySteps ==
    ASSUME TypeInv, NEW h \in Handler, Handle(h)
    PROVE  \/ /\ pc[h] = "seen" /\ Sig(h) \notin seen
              /\ pc'[h] = "spend" /\ req' = req
              /\ seen' = seen \cup {Sig(h)}
              /\ UNCHANGED <<spent, applied, paid>>
           \/ /\ pc[h] = "spend" /\ req[h].pow \notin spent
              /\ pc'[h] = AfterPayment(Sig(h)) /\ req' = req
              /\ spent' = spent \cup {req[h].pow}
              /\ UNCHANGED <<seen, applied, paid>>
           \/ /\ pc[h] = "apply" /\ pc'[h] = "idle"
              /\ applied' = [applied EXCEPT ![Sig(h)] = @ + 1]
              /\ paid' = [paid EXCEPT ![req[h].pow] = @ + 1]
              /\ UNCHANGED <<seen, spent>>
           \/ /\ pc[h] = "insert" /\ pc'[h] = "idle"
              /\ paid' = [paid EXCEPT ![req[h].pow] = @ + 1]
              /\ UNCHANGED <<seen, spent, applied>>
           \/ /\ UNCHANGED memory
              /\ \/ pc'[h] = "idle"
                 \/ Moves(h) /\ pc[h] \notin {"seen", "spend"}
<1> USE DEF memory
<1>1. /\ Done(h) => pc'[h] = "idle"
      /\ Done(h) \/ Moves(h)
  BY HandleMoves, DoneTypes DEF TypeInv
<1>2. Sig(h) \in Payloads
  BY HandleMoves, RequestFields DEF Sig
<1>3. CASE Remember(h)
  BY <1>1, <1>3, ProceedMoves DEF Remember, Refuse, At, Steps, history
<1>4. CASE Spend(h)
  <2>1. AfterPayment(Sig(h)) \in Steps
    BY DEF AfterPayment, Steps
  <2>2. QED
    BY <2>1, <1>1, <1>4, ProceedMoves DEF Spend, Refuse, At, history
<1>5. CASE RotateKeys(h) \/ DestroyUser(h) \/ ChangeBlocks(h) \/ BurnMail(h) \/ Read(h)
  BY <1>1, <1>5 DEF RotateKeys, DestroyUser, ChangeBlocks, BurnMail, Read,
                    Applying, Effect
<1>6. CASE CreateUser(h)
  BY <1>1, <1>6 DEF CreateUser, Applying, Effect, Refuse
<1>7. CASE InsertMail(h)
  BY <1>1, <1>7 DEF InsertMail, Accept, At
<1>8. CASE Authenticate(h)
  BY <1>1, <1>8 DEF Authenticate, Refuse, Proceed, history, At
<1>9. CASE SenderKeys(h)
  BY <1>1, <1>9 DEF SenderKeys, Refuse, Proceed, history, At
<1>10. CASE RecipientKeys(h)
  BY <1>1, <1>10 DEF RecipientKeys, Refuse, Proceed, history, At
<1>11. CASE RecheckRecipient(h)
  BY <1>1, <1>11 DEF RecheckRecipient, Refuse, Proceed, history, At
<1>12. CASE VerifySignature(h)
  BY <1>1, <1>12 DEF VerifySignature, Refuse, Proceed, history, At
<1>13. CASE CheckBlocked(h)
  BY <1>1, <1>13 DEF CheckBlocked, Refuse, Proceed, history, At
<1>14. CASE FindDuplicate(h)
  BY <1>1, <1>14 DEF FindDuplicate, Accept, Proceed, history, At
<1>15. CASE CheckLevel(h)
  BY <1>1, <1>15 DEF CheckLevel, Refuse, Proceed, history, At
<1>16. CASE Relay(h)
  BY <1>1, <1>16 DEF Relay, Refuse, Proceed, history, At
<1>17. CASE StoreFails(h)
  BY <1>1, <1>17 DEF StoreFails, Refuse
<1>18. QED
  BY <1>3, <1>4, <1>5, <1>6, <1>7, <1>8, <1>9, <1>10, <1>11, <1>12, <1>13,
     <1>14, <1>15, <1>16, <1>17 DEF Handle

\* A handler that is not h keeps its place, so it has remembered and paid what
\* it had.
LEMMA OthersStay ==
    ASSUME TypeInv, NEW h \in Handler, Handle(h), NEW g \in Handler, g # h
    PROVE  /\ Sig(g)' = Sig(g) /\ req'[g] = req[g] /\ pc'[g] = pc[g]
           /\ Remembered(g)' = Remembered(g) /\ HasPaid(g)' = HasPaid(g)
  BY HandleMoves DEF Sig, Remembered, HasPaid

LEMMA HandleSeen ==
    ASSUME TypeInv, SeenInv, NEW h \in Handler, Handle(h)
    PROVE  SeenInv'
<1>1. /\ Sig(h) \in Payloads /\ req[h].pow \in Pow
      /\ applied \in [Payloads -> Nat]
      /\ \A g \in Handler : Remembered(g) => Sig(g) \in Payloads
  BY HandleMoves, RequestFields DEF Sig, TypeInv, TypeOK, Remembered
<1>2. CASE /\ pc[h] = "seen" /\ Sig(h) \notin seen /\ req' = req
           /\ seen' = seen \cup {Sig(h)} /\ UNCHANGED applied
  BY <1>1, <1>2, OthersStay DEF SeenInv, Sig
<1>3. CASE /\ pc[h] = "apply" /\ pc'[h] = "idle"
           /\ applied' = [applied EXCEPT ![Sig(h)] = @ + 1] /\ UNCHANGED seen
  <2>1. Remembered(h) /\ ~Remembered(h)'
    BY <1>3 DEF Remembered, TypeInv, RouteInv
  <2>2. applied'[Sig(h)] = 1 /\ \A p \in Payloads \ {Sig(h)} : applied'[p] = applied[p]
    BY <1>1, <1>3, <2>1 DEF SeenInv
  <2>3. QED
    BY <1>1, <1>3, <2>1, <2>2, OthersStay DEF SeenInv
<1>4. CASE /\ UNCHANGED <<seen, applied>> /\ pc[h] # "seen"
           /\ \/ pc'[h] = "idle"
              \/ req' = req /\ Moves(h)
  <2>1. Remembered(h)' => Remembered(h) /\ Sig(h)' = Sig(h)
    BY <1>4 DEF Moves, Remembered, Sig, AfterVerify, AfterDuplicate, TypeInv, RouteInv,
                SendSteps
  <2>2. QED
    BY <1>1, <1>4, <2>1, OthersStay DEF SeenInv
<1>5. CASE UNCHANGED <<seen, applied>> /\ pc'[h] = "idle"
  BY <1>1, <1>5, OthersStay DEF SeenInv, Remembered
<1>6. QED
  BY <1>2, <1>3, <1>4, <1>5, MemorySteps, HandleMoves, DoneTypes DEF memory, TypeInv

LEMMA HandleSpent ==
    ASSUME TypeInv, SpentInv, NEW h \in Handler, Handle(h)
    PROVE  SpentInv'
<1>1. /\ Sig(h) \in Payloads /\ req[h].pow \in Pow
      /\ paid \in [Pow -> Nat]
      /\ \A g \in Handler : HasPaid(g) => req[g].pow \in Pow
  BY HandleMoves, RequestFields DEF Sig, TypeInv, TypeOK, HasPaid
<1>2. CASE /\ pc[h] = "spend" /\ req[h].pow \notin spent /\ req' = req
           /\ spent' = spent \cup {req[h].pow} /\ UNCHANGED paid
  BY <1>1, <1>2, OthersStay DEF SpentInv
<1>3. CASE /\ pc[h] \in {"apply", "insert"} /\ pc'[h] = "idle"
           /\ paid' = [paid EXCEPT ![req[h].pow] = @ + 1] /\ UNCHANGED spent
  <2>1. HasPaid(h) /\ ~HasPaid(h)'
    BY <1>3 DEF HasPaid
  <2>2. /\ paid'[req[h].pow] = 1
        /\ \A w \in Pow \ {req[h].pow} : paid'[w] = paid[w]
    BY <1>1, <1>3, <2>1 DEF SpentInv
  <2>3. QED
    BY <1>1, <1>3, <2>1, <2>2, OthersStay DEF SpentInv
<1>4. CASE /\ UNCHANGED <<spent, paid>> /\ pc[h] # "spend"
           /\ \/ pc'[h] = "idle"
              \/ req' = req /\ Moves(h)
  <2>1. HasPaid(h)' => HasPaid(h) /\ req'[h] = req[h]
    BY <1>4 DEF Moves, HasPaid, AfterVerify, AfterDuplicate
  <2>2. QED
    BY <1>1, <1>4, <2>1, OthersStay DEF SpentInv
<1>5. CASE UNCHANGED <<spent, paid>> /\ pc'[h] = "idle"
  BY <1>1, <1>5, OthersStay DEF SpentInv, HasPaid
<1>6. QED
  BY <1>2, <1>3, <1>4, <1>5, MemorySteps, HandleMoves, DoneTypes DEF memory, TypeInv

LEMMA ReplayInductive == TypeInv /\ ReplayInv /\ [Next]_vars => ReplayInv'
<1>1. SUFFICES ASSUME TypeInv, ReplayInv, [Next]_vars PROVE ReplayInv'
  OBVIOUS
<1>2. ASSUME NEW h \in Handler, NEW r \in Request, Arrive(h, r) PROVE ReplayInv'
  <2>1. /\ UNCHANGED memory
        /\ \A g \in Handler \ {h} : req'[g] = req[g] /\ pc'[g] = pc[g]
        /\ pc'[h] = FirstStep(r.sig.op)
    BY <1>1, <1>2 DEF Arrive, GoTo, memory, TypeInv, TypeOK
  <2>2. ~Remembered(h)' /\ ~HasPaid(h)'
    BY <2>1 DEF Remembered, HasPaid, FirstStep
  <2>3. \A g \in Handler \ {h} : /\ Sig(g)' = Sig(g)
                                 /\ Remembered(g)' = Remembered(g)
                                 /\ HasPaid(g)' = HasPaid(g)
    BY <2>1 DEF Sig, Remembered, HasPaid
  <2>4. SeenInv'
    BY <1>1, <2>1, <2>2, <2>3 DEF ReplayInv, SeenInv, memory
  <2>5. SpentInv'
    BY <1>1, <2>1, <2>2, <2>3 DEF ReplayInv, SpentInv, memory
  <2>6. QED
    BY <2>4, <2>5 DEF ReplayInv
<1>3. ASSUME NEW h \in Handler, Handle(h) PROVE ReplayInv'
  BY <1>1, <1>3, HandleSeen, HandleSpent DEF ReplayInv
<1>4. CASE Restart
  BY <1>4 DEF Restart, ReplayInv, SeenInv, SpentInv, Remembered, HasPaid
<1>5. CASE UNCHANGED vars
  <2>1. UNCHANGED <<pc, req, seen, spent, applied, paid>>
    BY <1>5 DEF vars, handlerVars, history
  <2>2. QED
    BY <1>1, <2>1 DEF ReplayInv, SeenInv, SpentInv, Remembered, HasPaid, Sig
<1>6. QED
  BY <1>1, <1>2, <1>3, <1>4, <1>5 DEF Next

\* Between two restarts no signature takes effect twice in one spelling and no
\* token pays twice, for any number of handlers, requests, spellings and
\* redeliveries: what fresh (auth.go:26) and the mutex of the memories are for.
THEOREM ReplayProtected == Spec => []OncePerBoot
<1>1. Init => ReplayInv
  BY DEF Init, ReplayInv, SeenInv, SpentInv, Remembered, HasPaid
<1>2. ReplayInv => OncePerBoot
  BY DEF ReplayInv, SeenInv, SpentInv, OncePerBoot
<1>3. QED
  BY <1>1, <1>2, ReplayInductive, TypeInvariance, PTL DEF Spec

-----------------------------------------------------------------------------
\* The mail table and the answers.

MailInv ==
    /\ \A m \in mail : m.id < nextId
    /\ OneCopy
    /\ AnsweredMailKept

\* The answer that accepts: the history gets the id.
Promise(h, id) == answers' = answers \cup {[sig |-> Sig(h), outcome |-> "sent", id |-> id]}

\* The steps of a handler, by what they do to the mail table.
LEMMA MailSteps ==
    ASSUME TypeInv, NEW h \in Handler, Handle(h)
    PROVE  \/ /\ UNCHANGED <<mail, nextId, removed>>
              /\ \A x \in answers' \ answers : x.outcome # "sent"
           \/ \E rows \in SUBSET mail : DeleteMail(rows) /\ UNCHANGED <<nextId, answers>>
           \/ /\ \E m \in mail : m.sig = Sig(h) /\ Promise(h, m.id)
              /\ UNCHANGED <<mail, nextId, removed>>
           \/ /\ pc[h] = "insert" /\ \A m \in mail : m.sig # Sig(h)
              /\ mail' = mail \cup {NewMail(h)} /\ nextId' = nextId + 1
              /\ Promise(h, nextId)
              /\ UNCHANGED removed
<1>1. ASSUME NEW outcome, Refuse(h, outcome), outcome # "sent"
      PROVE  /\ UNCHANGED <<mail, nextId, removed>>
             /\ \A x \in answers' \ answers : x.outcome # "sent"
  BY <1>1 DEF Refuse, Answered, dbVars
<1>2. ASSUME NEW step, Proceed(h, step)
      PROVE  UNCHANGED <<mail, nextId, removed, answers>>
  BY <1>2 DEF Proceed, dbVars, history
<1>3. CASE RotateKeys(h) \/ DestroyUser(h) \/ BurnMail(h)
  BY <1>3 DEF RotateKeys, DestroyUser, BurnMail, OfUser
<1>4. CASE CreateUser(h) \/ ChangeBlocks(h) \/ Read(h)
  BY <1>1, <1>4 DEF CreateUser, ChangeBlocks, Read, dbVars
<1>5. CASE FindDuplicate(h)
  <2>1. Sig(h).op = "send"
    BY <1>5 DEF FindDuplicate, At, TypeInv, RouteInv, SendSteps
  <2>2. QED
    BY <2>1, <1>2, <1>5 DEF FindDuplicate, Accept, Answered, Promise, dbVars, Outcome
<1>6. CASE InsertMail(h)
  <2>1. Sig(h).op = "send" /\ pc[h] = "insert"
    BY <1>6 DEF InsertMail, At, TypeInv, RouteInv, SendSteps
  <2>2. QED
    BY <2>1, <1>6 DEF InsertMail, Accept, Answered, Promise, Outcome
<1>7. CASE Authenticate(h) \/ Remember(h) \/ Spend(h) \/ SenderKeys(h)
           \/ RecipientKeys(h) \/ RecheckRecipient(h)
  BY <1>1, <1>2, <1>7 DEF Authenticate, Remember, Spend, SenderKeys, RecipientKeys,
                          RecheckRecipient
<1>8. CASE VerifySignature(h) \/ CheckBlocked(h) \/ CheckLevel(h) \/ Relay(h)
           \/ StoreFails(h)
  BY <1>1, <1>2, <1>8 DEF VerifySignature, CheckBlocked, CheckLevel, Relay, StoreFails
<1>9. QED
  BY <1>3, <1>4, <1>5, <1>6, <1>7, <1>8 DEF Handle

LEMMA HandleMail ==
    ASSUME TypeInv, MailInv, NEW h \in Handler, Handle(h)
    PROVE  MailInv'
<1> USE DEF MailInv
<1>1. nextId \in Nat /\ mail \subseteq MailRow
  BY DEF TypeInv, TypeOK
<1>2. CASE /\ UNCHANGED <<mail, nextId, removed>>
           /\ \A x \in answers' \ answers : x.outcome # "sent"
  BY <1>2 DEF OneCopy, AnsweredMailKept
<1>3. ASSUME NEW rows \in SUBSET mail, DeleteMail(rows), UNCHANGED <<nextId, answers>>
      PROVE  MailInv'
  BY <1>3 DEF DeleteMail, OneCopy, AnsweredMailKept
<1>4. ASSUME NEW m \in mail, m.sig = Sig(h), Promise(h, m.id),
             UNCHANGED <<mail, nextId, removed>>
      PROVE  MailInv'
  BY <1>4 DEF Promise, OneCopy, AnsweredMailKept
<1>5. CASE /\ pc[h] = "insert" /\ \A m \in mail : m.sig # Sig(h)
           /\ mail' = mail \cup {NewMail(h)} /\ nextId' = nextId + 1
           /\ Promise(h, nextId)
           /\ UNCHANGED removed
  <2>1. NewMail(h).id = nextId /\ NewMail(h).sig = Sig(h)
    BY DEF NewMail
  <2>2. \A m \in mail : m.id \in Nat /\ m.id # nextId
    BY <1>1 DEF MailRow
  <2>3. (\A m \in mail : m.id < nextId)'
    BY <1>1, <1>5, <2>1, <2>2
  <2>4. OneCopy'
    BY <1>5, <2>1, <2>2 DEF OneCopy
  <2>5. AnsweredMailKept'
    BY <1>5, <2>1 DEF AnsweredMailKept, Promise
  <2>6. QED
    BY <2>3, <2>4, <2>5
<1>6. QED
  BY <1>2, <1>3, <1>4, <1>5, MailSteps

LEMMA MailInductive == TypeInv /\ MailInv /\ [Next]_vars => MailInv'
<1>1. SUFFICES ASSUME TypeInv, MailInv, [Next]_vars PROVE MailInv'
  OBVIOUS
<1>2. CASE UNCHANGED <<mail, nextId, removed, answers>>
  BY <1>1, <1>2 DEF MailInv, OneCopy, AnsweredMailKept
<1>3. ASSUME NEW h \in Handler, Handle(h) PROVE MailInv'
  BY <1>1, <1>3, HandleMail
<1>4. QED
  BY <1>1, <1>2, <1>3 DEF Next, Arrive, Restart, vars, dbVars, history

THEOREM MailInvariance == Spec => []MailInv
<1>1. Init => MailInv
  BY DEF Init, MailInv, OneCopy, AnsweredMailKept
<1>2. QED
  BY <1>1, MailInductive, TypeInvariance, PTL DEF Spec

\* A spelling of a signature is stored once, and ids are unique, across restarts
\* and however many submissions of it are in flight: the check of sendMail
\* (handlers.go:324) alone would not do, the unique index does.
THEOREM StoredOnce == Spec => []OneCopy
<1>1. MailInv => OneCopy
  BY DEF MailInv
<1>2. QED
  BY <1>1, MailInvariance, PTL

\* Every id that sendMail answered names a row with that signature, until the
\* row is deleted.
THEOREM AnswersHold == Spec => []AnsweredMailKept
<1>1. MailInv => AnsweredMailKept
  BY DEF MailInv
<1>2. QED
  BY <1>1, MailInvariance, PTL

-----------------------------------------------------------------------------
\* The blocklist.

\* Past the check of the blocklist.
Unblocked(h) == pc[h] \in {"duplicate", "level", "spend", "relay", "insert"}

BlockInv ==
    /\ \A h \in Handler :
          pc[h] # "idle" /\ Sig(h).op = "send" =>
              /\ ~wasFree[h] => ~Welcome(Sig(h), blocks)
              /\ Unblocked(h) /\ Sig(h).target \in User => wasFree[h]
    /\ NoUnwantedMail

\* The other handlers learn of every change of the blocks table.
LEMMA BlockSteps ==
    ASSUME TypeInv, NEW h \in Handler, Handle(h), NEW g \in Handler, g # h
    PROVE  \/ UNCHANGED blocks /\ wasFree'[g] = wasFree[g]
           \/ wasFree'[g] = \/ wasFree[g]
                            \/ /\ pc[g] # "idle" /\ Sig(g).op = "send"
                               /\ Welcome(Sig(g), blocks')
<1>1. ASSUME NEW outcome, Refuse(h, outcome)
      PROVE  UNCHANGED blocks /\ wasFree'[g] = wasFree[g]
  BY <1>1 DEF Refuse, Forget, dbVars, TypeInv, TypeOK
<1>2. ASSUME NEW step, Proceed(h, step)
      PROVE  UNCHANGED blocks /\ wasFree'[g] = wasFree[g]
  BY <1>2 DEF Proceed, dbVars, history
<1>3. CASE DestroyUser(h) \/ ChangeBlocks(h)
  BY <1>3 DEF DestroyUser, ChangeBlocks, BlocksMove
<1>4. CASE CreateUser(h) \/ RotateKeys(h) \/ BurnMail(h) \/ Read(h)
  BY <1>1, <1>4 DEF CreateUser, RotateKeys, BurnMail, Read, Forget, dbVars,
                    TypeInv, TypeOK
<1>5. CASE FindDuplicate(h) \/ InsertMail(h)
  BY <1>2, <1>5 DEF FindDuplicate, InsertMail, Accept, Forget, dbVars, TypeInv, TypeOK
<1>6. CASE Authenticate(h) \/ Remember(h) \/ Spend(h) \/ SenderKeys(h)
           \/ RecipientKeys(h) \/ RecheckRecipient(h)
  BY <1>1, <1>2, <1>6 DEF Authenticate, Remember, Spend, SenderKeys, RecipientKeys,
                          RecheckRecipient
<1>7. CASE VerifySignature(h) \/ CheckBlocked(h) \/ CheckLevel(h) \/ Relay(h)
           \/ StoreFails(h)
  BY <1>1, <1>2, <1>7 DEF VerifySignature, CheckBlocked, CheckLevel, Relay, StoreFails
<1>8. QED
  BY <1>3, <1>4, <1>5, <1>6, <1>7 DEF Handle

\* A handler that moves on leaves the tables and the history alone.
LEMMA MoveSteps ==
    ASSUME TypeInv, NEW h \in Handler, Handle(h), pc'[h] # "idle"
    PROVE  /\ UNCHANGED <<dbVars, history, req>>
           /\ Moves(h)
           /\ pc[h] = "blocked" => ~IsBlocked(Sig(h).target, Sig(h).user)
           /\ pc[h] = "senderKeys" =>
                 /\ senderKey'[h] \in KeysOf(Sig(h).user)
                 /\ \A g \in Handler : g # h => senderKey'[g] = senderKey[g]
           /\ pc[h] # "senderKeys" => UNCHANGED senderKey
           /\ pc[h] = "recipientKeys" /\ Sig(h).target \in User =>
                 pc'[h] = "verify" /\ Sig(h).key \in KeysOf(Sig(h).target)
           /\ pc[h] = "verify" /\ Sig(h).user \in User =>
                 senderKey[h] = Sig(h).signer
           /\ pc[h] = "auth" => row[Sig(h).user] = Sig(h).signer
           /\ pc[h] = "recheck" => Sig(h).key \in KeysOf(Sig(h).target)
<1>1. ~Done(h)
  BY DoneTypes DEF TypeInv
<1>2. Moves(h) /\ req' = req
  BY <1>1, HandleMoves
<1>3. \A outcome : ~Refuse(h, outcome)
  BY <1>1 DEF Refuse
<1>4. \A id : ~Accept(h, id)
  BY <1>1 DEF Accept
<1>5. ~Effect(h)
  BY <1>1 DEF Effect
<1>6. User \cap Remote = {}
  BY ServerAssumption
<1>7. CASE Authenticate(h)
  BY <1>2, <1>3, <1>7 DEF Authenticate, Proceed, At
<1>8. CASE Remember(h)
  BY <1>2, <1>3, <1>8 DEF Remember, Proceed, At
<1>9. CASE Spend(h)
  BY <1>2, <1>3, <1>9 DEF Spend, Proceed, At
<1>10. CASE SenderKeys(h)
  BY <1>2, <1>3, <1>10 DEF SenderKeys, Proceed, At, TypeInv, TypeOK
<1>11. CASE RecipientKeys(h)
  BY <1>2, <1>3, <1>6, <1>11, ProceedMoves DEF RecipientKeys, Proceed, At, Steps
<1>12. CASE RecheckRecipient(h)
  BY <1>2, <1>3, <1>12 DEF RecheckRecipient, Proceed, At
<1>13. CASE VerifySignature(h)
  BY <1>2, <1>3, <1>6, <1>13 DEF VerifySignature, Proceed, At
<1>14. CASE CheckBlocked(h)
  BY <1>2, <1>3, <1>14 DEF CheckBlocked, Proceed, At
<1>15. CASE FindDuplicate(h)
  BY <1>2, <1>4, <1>15 DEF FindDuplicate, Proceed, At
<1>16. CASE CheckLevel(h)
  BY <1>2, <1>3, <1>16 DEF CheckLevel, Proceed, At
<1>17. CASE Relay(h)
  BY <1>2, <1>3, <1>17 DEF Relay, Proceed, At
<1>18. CASE CreateUser(h) \/ RotateKeys(h) \/ DestroyUser(h) \/ ChangeBlocks(h)
            \/ BurnMail(h) \/ Read(h) \/ InsertMail(h) \/ StoreFails(h)
  BY <1>3, <1>4, <1>5, <1>18 DEF CreateUser, RotateKeys, DestroyUser, ChangeBlocks,
     BurnMail, Read, InsertMail, StoreFails
<1>19. QED
  BY <1>7, <1>8, <1>9, <1>10, <1>11, <1>12, <1>13, <1>14, <1>15, <1>16, <1>17,
     <1>18 DEF Handle

LEMMA HandleBlock ==
    ASSUME TypeInv, BlockInv, NEW h \in Handler, Handle(h)
    PROVE  BlockInv'
<1>1. ASSUME NEW g \in Handler, pc'[g] # "idle", Sig(g)'.op = "send"
      PROVE  /\ ~wasFree'[g] => ~Welcome(Sig(g)', blocks')
             /\ Unblocked(g)' /\ Sig(g)'.target \in User => wasFree'[g]
  <2>1. CASE g # h
    <3>1. pc'[g] = pc[g] /\ Sig(g)' = Sig(g) /\ Unblocked(g)' = Unblocked(g)
      BY <2>1, HandleMoves DEF Sig, Unblocked
    <3>2. /\ ~wasFree[g] => ~Welcome(Sig(g), blocks)
          /\ Unblocked(g) /\ Sig(g).target \in User => wasFree[g]
      BY <1>1, <3>1 DEF BlockInv
    <3>3. CASE UNCHANGED blocks /\ wasFree'[g] = wasFree[g]
      BY <3>1, <3>2, <3>3
    <3>4. CASE wasFree'[g] = (wasFree[g] \/ Welcome(Sig(g), blocks'))
      BY <3>1, <3>2, <3>4
    <3>5. QED
      BY <2>1, <1>1, <3>1, <3>3, <3>4, BlockSteps
  <2>2. CASE g = h
    <3>1. /\ UNCHANGED <<blocks, wasFree, req>> /\ Moves(h) /\ Sig(h)' = Sig(h)
          /\ pc[h] # "idle"
          /\ pc[h] = "blocked" => ~IsBlocked(Sig(h).target, Sig(h).user)
      BY <1>1, <2>2, MoveSteps, HandleMoves DEF dbVars, history, Sig
    <3>2. /\ ~wasFree[h] => ~Welcome(Sig(h), blocks)
          /\ Unblocked(h) /\ Sig(h).target \in User => wasFree[h]
      BY <1>1, <2>2, <3>1 DEF BlockInv
    <3>3. pc[h] = "blocked" => wasFree[h]
      BY <3>1, <3>2 DEF IsBlocked, Welcome
    <3>4. Unblocked(h)' /\ Sig(h).target \in User => Unblocked(h) \/ pc[h] = "blocked"
      <4>1. pc[h] # "seen"
        BY <1>1, <2>2, <3>1 DEF TypeInv, RouteInv
      <4>2. QED
        BY <3>1, <4>1 DEF Moves, Unblocked, AfterVerify, AfterPayment, AfterDuplicate
    <3>5. QED
      BY <2>2, <3>1, <3>2, <3>3, <3>4
  <2>3. QED
    BY <2>1, <2>2
<1>2. NoUnwantedMail'
  <2>1. CASE mail' \subseteq mail
    BY <2>1 DEF BlockInv, NoUnwantedMail
  <2>2. CASE pc[h] = "insert" /\ mail' = mail \cup {NewMail(h)}
    <3>1. Sig(h).target \in User => wasFree[h]
      BY <2>2 DEF BlockInv, Unblocked, TypeInv, RouteInv, SendSteps
    <3>2. QED
      BY <2>2, <3>1 DEF BlockInv, NoUnwantedMail, NewMail
  <2>3. QED
    BY <2>1, <2>2, MailSteps DEF DeleteMail
<1>3. QED
  BY <1>1, <1>2 DEF BlockInv

LEMMA BlockInductive == TypeInv /\ BlockInv /\ [Next]_vars => BlockInv'
<1>1. SUFFICES ASSUME TypeInv, BlockInv, [Next]_vars PROVE BlockInv'
  OBVIOUS
<1>2. ASSUME NEW h \in Handler, NEW r \in Request, Arrive(h, r) PROVE BlockInv'
  <2>1. /\ UNCHANGED <<mail, blocks>>
        /\ pc'[h] = FirstStep(r.sig.op) /\ req'[h] = r
        /\ wasFree'[h] = (r.sig.op = "send" /\ Welcome(r.sig, blocks))
        /\ \A g \in Handler \ {h} : /\ req'[g] = req[g] /\ pc'[g] = pc[g]
                                     /\ wasFree'[g] = wasFree[g]
    BY <1>1, <1>2 DEF Arrive, GoTo, dbVars, TypeInv, TypeOK
  <2>2. ~Unblocked(h)'
    BY <2>1 DEF Unblocked, FirstStep
  <2>3. NoUnwantedMail'
    BY <1>1, <2>1 DEF BlockInv, NoUnwantedMail
  <2>4. ASSUME NEW g \in Handler, pc'[g] # "idle", Sig(g)'.op = "send"
        PROVE  /\ ~wasFree'[g] => ~Welcome(Sig(g)', blocks')
               /\ Unblocked(g)' /\ Sig(g)'.target \in User => wasFree'[g]
    <3>1. CASE g = h
      BY <2>1, <2>2, <2>4, <3>1 DEF Sig
    <3>2. CASE g # h
      BY <1>1, <2>1, <2>4, <3>2 DEF Sig, BlockInv, Unblocked
    <3>3. QED
      BY <3>1, <3>2
  <2>5. QED
    BY <2>3, <2>4 DEF BlockInv
<1>3. ASSUME NEW h \in Handler, Handle(h) PROVE BlockInv'
  BY <1>1, <1>3, HandleBlock
<1>4. CASE Restart
  BY <1>1, <1>4 DEF Restart, BlockInv, NoUnwantedMail, dbVars
<1>5. CASE UNCHANGED vars
  <2>1. UNCHANGED <<pc, req, mail, blocks, wasFree>>
    BY <1>5 DEF vars, dbVars, handlerVars, history
  <2>2. QED
    BY <1>1, <2>1 DEF BlockInv, NoUnwantedMail, Unblocked, Sig
<1>6. QED
  BY <1>1, <1>2, <1>3, <1>4, <1>5 DEF Next

\* A mail is stored for a local recipient only if, at some moment while it was
\* handled, the recipient blocked neither its sender nor the sender's instance.
THEOREM BlocklistInForce == Spec => []NoUnwantedMail
<1>1. Init => BlockInv
  BY DEF Init, BlockInv, NoUnwantedMail
<1>2. BlockInv => NoUnwantedMail
  BY DEF BlockInv
<1>3. QED
  BY <1>1, <1>2, BlockInductive, TypeInvariance, PTL DEF Spec

-----------------------------------------------------------------------------
\* The keys.

\* Past the look-up of the sender's keys, past the verification under them,
\* past the look-up of the recipient's.
KnowsSender(h) == pc[h] \in {"recipientKeys", "recheck", "verify", "blocked",
                             "duplicate", "level", "spend", "relay", "insert"}
Verified(h) == pc[h] \in {"blocked", "duplicate", "level", "spend", "relay", "insert"}
KnowsRecipient(h) == Verified(h) \/ pc[h] = "verify"

\* What a handler knows of the keys is still so, unless an account it relies on
\* changed.
KeyInv ==
    /\ \A h \in Handler :
          pc[h] # "idle" /\ ~keyMoved[h] =>
              /\ Sig(h).op = "send" =>
                    /\ KnowsSender(h) /\ Sig(h).user \in User =>
                          row[Sig(h).user] = senderKey[h]
                    /\ Verified(h) /\ Sig(h).user \in User =>
                          senderKey[h] = Sig(h).signer
                    /\ KnowsRecipient(h) /\ Sig(h).target \in User =>
                          row[Sig(h).target] = Sig(h).key
              /\ Sig(h).op \notin {"send", "register"} /\ pc[h] # "auth" =>
                    row[Sig(h).user] = Sig(h).signer
    /\ MailReadable

\* The steps of a handler, by what they do to the users table.
LEMMA RowSteps ==
    ASSUME TypeInv, NEW h \in Handler, Handle(h)
    PROVE  \/ /\ UNCHANGED row
              /\ \A g \in Handler : g # h => keyMoved'[g] = keyMoved[g]
           \/ /\ Applying(h, "register") /\ row[Sig(h).user] = Absent
              /\ ~NameTaken(Sig(h).user)
              /\ row' = [row EXCEPT ![Sig(h).user] = Sig(h).key]
              /\ KeysMove(h, Sig(h).user) /\ UNCHANGED mail
           \/ /\ \/ /\ Applying(h, "rotate")
                    /\ row' = [row EXCEPT ![Sig(h).user] = Sig(h).key]
                 \/ /\ Applying(h, "destroy")
                    /\ row' = [row EXCEPT ![Sig(h).user] = Destroyed]
              /\ row[Sig(h).user] # Absent
              /\ mail' = mail \ OfUser(Sig(h).user)
              /\ KeysMove(h, Sig(h).user)
<1>1. ASSUME NEW outcome, Refuse(h, outcome)
      PROVE  /\ UNCHANGED row
             /\ \A g \in Handler : g # h => keyMoved'[g] = keyMoved[g]
  BY <1>1 DEF Refuse, Forget, dbVars, TypeInv, TypeOK
<1>2. ASSUME NEW step, Proceed(h, step)
      PROVE  UNCHANGED <<row, keyMoved>>
  BY <1>2 DEF Proceed, dbVars, history
<1>3. CASE CreateUser(h)
  <2>1. CASE NameTaken(Sig(h).user)
    BY <1>1, <1>3, <2>1 DEF CreateUser
  <2>2. CASE ~NameTaken(Sig(h).user)
    <3>1. Sig(h).user \in User
      BY <1>3, RequestFields DEF CreateUser, Applying, Sig, TypeInv, TypeOK
    <3>2. row[Sig(h).user] = Absent
      BY <2>2, <3>1 DEF NameTaken
    <3>3. QED
      BY <1>3, <2>2, <3>2 DEF CreateUser
  <2>3. QED
    BY <2>1, <2>2
<1>4. CASE RotateKeys(h) \/ DestroyUser(h)
  BY <1>4 DEF RotateKeys, DestroyUser, DeleteMail
<1>5. CASE ChangeBlocks(h) \/ BurnMail(h) \/ Read(h)
  BY <1>5 DEF ChangeBlocks, BurnMail, Read, Forget, dbVars, TypeInv, TypeOK
<1>6. CASE FindDuplicate(h) \/ InsertMail(h)
  BY <1>2, <1>6 DEF FindDuplicate, InsertMail, Accept, Forget, dbVars, TypeInv, TypeOK
<1>7. CASE Authenticate(h) \/ Remember(h) \/ Spend(h) \/ SenderKeys(h)
           \/ RecipientKeys(h) \/ RecheckRecipient(h)
  BY <1>1, <1>2, <1>7 DEF Authenticate, Remember, Spend, SenderKeys, RecipientKeys,
                          RecheckRecipient
<1>8. CASE VerifySignature(h) \/ CheckBlocked(h) \/ CheckLevel(h) \/ Relay(h)
           \/ StoreFails(h)
  BY <1>1, <1>2, <1>8 DEF VerifySignature, CheckBlocked, CheckLevel, Relay, StoreFails
<1>9. QED
  BY <1>3, <1>4, <1>5, <1>6, <1>7, <1>8 DEF Handle

\* A handler that stays while the row of an account changes either does not
\* rely on the account or is marked.
LEMMA OthersMarked ==
    ASSUME TypeInv, NEW h \in Handler, NEW u \in User, KeysMove(h, u),
           NEW k, row' = [row EXCEPT ![u] = k],
           NEW g \in Handler, g # h, pc[g] # "idle", ~keyMoved'[g]
    PROVE  /\ ~keyMoved[g]
           /\ Sig(g).user \in User => row'[Sig(g).user] = row[Sig(g).user]
           /\ Sig(g).op = "send" /\ Sig(g).target \in User =>
                 row'[Sig(g).target] = row[Sig(g).target]
  BY DEF KeysMove, Concerns, TypeInv, TypeOK

LEMMA HandleKeysOthers ==
    ASSUME TypeInv, KeyInv, NEW h \in Handler, Handle(h),
           NEW g \in Handler, g # h, pc[g] # "idle", ~keyMoved'[g]
    PROVE  /\ ~keyMoved[g]
           /\ Sig(g).user \in User => row'[Sig(g).user] = row[Sig(g).user]
           /\ Sig(g).op = "send" /\ Sig(g).target \in User =>
                 row'[Sig(g).target] = row[Sig(g).target]
<1>1. Sig(h).op # "send" => Sig(h).user \in User
  BY HandleMoves, RequestFields DEF Sig
<1>2. CASE UNCHANGED row /\ keyMoved'[g] = keyMoved[g]
  BY <1>2
<1>3. CASE /\ \/ Applying(h, "register") \/ Applying(h, "rotate")
              \/ Applying(h, "destroy")
           /\ \/ row' = [row EXCEPT ![Sig(h).user] = Sig(h).key]
              \/ row' = [row EXCEPT ![Sig(h).user] = Destroyed]
           /\ KeysMove(h, Sig(h).user)
  <2>1. Sig(h).user \in User
    BY <1>1, <1>3 DEF Applying
  <2>2. QED
    BY <1>3, <2>1, OthersMarked
<1>4. QED
  BY <1>2, <1>3, RowSteps

\* What the handlers know of the keys survives every step of one of them.
LEMMA HandleKeys ==
    ASSUME TypeInv, KeyInv, NEW h \in Handler, Handle(h)
    PROVE  /\ \A g \in Handler :
                 pc'[g] # "idle" /\ ~keyMoved'[g] =>
                     /\ Sig(g)'.op = "send" =>
                           /\ KnowsSender(g)' /\ Sig(g)'.user \in User =>
                                 row'[Sig(g)'.user] = senderKey'[g]
                           /\ Verified(g)' /\ Sig(g)'.user \in User =>
                                 senderKey'[g] = Sig(g)'.signer
                           /\ KnowsRecipient(g)' /\ Sig(g)'.target \in User =>
                                 row'[Sig(g)'.target] = Sig(g)'.key
                     /\ Sig(g)'.op \notin {"send", "register"} /\ pc'[g] # "auth" =>
                           row'[Sig(g)'.user] = Sig(g)'.signer
<1>1. SUFFICES ASSUME NEW g \in Handler, pc'[g] # "idle", ~keyMoved'[g]
               PROVE  /\ Sig(g)'.op = "send" =>
                           /\ KnowsSender(g)' /\ Sig(g)'.user \in User =>
                                 row'[Sig(g)'.user] = senderKey'[g]
                           /\ Verified(g)' /\ Sig(g)'.user \in User =>
                                 senderKey'[g] = Sig(g)'.signer
                           /\ KnowsRecipient(g)' /\ Sig(g)'.target \in User =>
                                 row'[Sig(g)'.target] = Sig(g)'.key
                      /\ Sig(g)'.op \notin {"send", "register"} /\ pc'[g] # "auth" =>
                           row'[Sig(g)'.user] = Sig(g)'.signer
  OBVIOUS
<1>2. CASE g # h
  <2>1. /\ pc'[g] = pc[g] /\ Sig(g)' = Sig(g) /\ KnowsSender(g)' = KnowsSender(g)
        /\ Verified(g)' = Verified(g) /\ KnowsRecipient(g)' = KnowsRecipient(g)
    BY <1>2, HandleMoves DEF Sig, KnowsSender, Verified, KnowsRecipient
  <2>2. senderKey'[g] = senderKey[g]
    <3>1. CASE pc'[h] = "idle"
      BY <1>2, <3>1, HandleMoves DEF Done, Moves, AfterPayment, AfterVerify,
         AfterDuplicate, TypeInv, TypeOK
    <3>2. CASE pc'[h] # "idle"
      BY <1>2, <3>2, MoveSteps
    <3>3. QED
      BY <3>1, <3>2
  <2>3. req[g] \in Request
    BY <1>1, <2>1 DEF TypeInv, TypeOK
  <2>4. Sig(g).op # "send" => Sig(g).user \in User
    BY <2>3, RequestFields DEF Sig
  <2>5. /\ ~keyMoved[g]
        /\ Sig(g).user \in User => row'[Sig(g).user] = row[Sig(g).user]
        /\ Sig(g).op = "send" /\ Sig(g).target \in User =>
              row'[Sig(g).target] = row[Sig(g).target]
    BY <1>1, <1>2, <2>1, HandleKeysOthers
  <2>6. QED
    BY <1>1, <2>1, <2>2, <2>4, <2>5 DEF KeyInv
<1>3. CASE g = h
  <2>1. /\ UNCHANGED <<row, keyMoved, req>> /\ Sig(h)' = Sig(h) /\ Moves(h)
        /\ pc[h] # "idle" /\ req[h] \in Request
    BY <1>1, <1>3, MoveSteps, HandleMoves DEF dbVars, history, Sig
  <2>2. KeyInv /\ ~keyMoved[h]
    BY <1>1, <1>3, <2>1
  <2>3. CASE Sig(h).op # "send"
    <3>1. Sig(h).user \in User
      BY <2>1, <2>3, RequestFields DEF Sig
    <3>2. CASE pc[h] = "auth"
      BY <1>1, <1>3, <2>1, <2>3, <3>2, MoveSteps
    <3>3. CASE pc[h] # "auth"
      BY <1>3, <2>1, <2>2, <2>3, <3>3 DEF KeyInv
    <3>4. QED
      BY <3>2, <3>3
  <2>4. CASE Sig(h).op = "send"
    <3>1. pc[h] \notin {"auth", "seen", "apply"}
      BY <2>4 DEF TypeInv, RouteInv
    <3>2. CASE pc[h] = "senderKeys"
      <4>1. pc'[h] = "recipientKeys" /\ senderKey'[h] \in KeysOf(Sig(h).user)
        BY <1>1, <1>3, <2>1, <3>2, MoveSteps DEF Moves
      <4>2. Sig(h).user \in User => senderKey'[h] = row[Sig(h).user]
        BY <4>1 DEF KeysOf
      <4>3. QED
        BY <1>3, <2>1, <2>4, <4>1, <4>2 DEF KnowsSender, Verified, KnowsRecipient
    <3>3. CASE pc[h] # "senderKeys"
      <4>1. UNCHANGED senderKey
        BY <1>1, <1>3, <3>3, MoveSteps
      <4>2. pc[h] \notin {"auth", "seen", "apply", "senderKeys"} => KnowsSender(h)
        BY <2>1 DEF Moves, KnowsSender
      <4>3. Verified(h)' => Verified(h) \/ pc[h] = "verify"
        BY <2>1, <3>1, <3>3 DEF Moves, Verified, AfterVerify, AfterDuplicate, AfterPayment
      <4>4. KnowsRecipient(h)' =>
              \/ KnowsRecipient(h) \/ pc[h] = "recheck" \/ pc[h] = "recipientKeys"
        BY <2>1, <3>1, <3>3, <4>3 DEF Moves, KnowsRecipient, Verified, AfterVerify,
           AfterDuplicate, AfterPayment
      <4>5. /\ pc[h] \in {"recheck", "recipientKeys"}
            /\ KnowsRecipient(h)'
            /\ Sig(h).target \in User
            => Sig(h).key = row[Sig(h).target]
        BY <1>1, <1>3, <2>1, MoveSteps DEF KeysOf
      <4>6. pc[h] = "verify" /\ Sig(h).user \in User => senderKey[h] = Sig(h).signer
        BY <1>1, <1>3, MoveSteps
      <4>7. /\ KnowsSender(h) /\ Sig(h).user \in User =>
                  row[Sig(h).user] = senderKey[h]
            /\ Verified(h) /\ Sig(h).user \in User =>
                  senderKey[h] = Sig(h).signer
            /\ KnowsRecipient(h) /\ Sig(h).target \in User =>
                  row[Sig(h).target] = Sig(h).key
        BY <2>1, <2>2, <2>4 DEF KeyInv
      <4>8. KnowsSender(h)
        BY <3>1, <3>3, <4>2
      <4>9. QED
        BY <1>3, <2>1, <2>4, <4>1, <4>3, <4>4, <4>5, <4>6, <4>7, <4>8
    <3>4. QED
      BY <3>2, <3>3
  <2>5. QED
    BY <2>3, <2>4
<1>4. QED
  BY <1>2, <1>3

LEMMA HandleReadable ==
    ASSUME TypeInv, KeyInv, NEW h \in Handler, Handle(h)
    PROVE  MailReadable'
<1>1. SUFFICES ASSUME NEW m \in mail', ~m.late
               PROVE  /\ m.recipient \in User => row'[m.recipient] = m.sig.key
                      /\ m.sender \in User => row'[m.sender] = m.sig.signer
  BY DEF MailReadable
<1>2. Sig(h).op # "send" => Sig(h).user \in User
  BY HandleMoves, RequestFields DEF Sig
<1>3. CASE m \in mail
  <2>1. /\ m.recipient \in User => row[m.recipient] = m.sig.key
        /\ m.sender \in User => row[m.sender] = m.sig.signer
        /\ m.sig.key \in Key /\ m.sig.signer \in Key
    <3>1. m.sig \in Payload
      BY <1>3, ServerAssumption DEF TypeInv, TypeOK, MailRow
    <3>2. QED
      BY <1>1, <1>3, <3>1 DEF KeyInv, MailReadable, Payload
  <2>2. CASE UNCHANGED row
    BY <2>1, <2>2
  <2>3. CASE /\ Applying(h, "register") /\ row[Sig(h).user] = Absent
             /\ row' = [row EXCEPT ![Sig(h).user] = Sig(h).key]
    <3>1. Sig(h).user \notin {m.recipient, m.sender}
      BY <1>2, <2>1, <2>3, ServerAssumption DEF Applying
    <3>2. QED
      BY <2>1, <2>3, <3>1 DEF TypeInv, TypeOK
  <2>4. CASE /\ Applying(h, "rotate") \/ Applying(h, "destroy")
             /\ \/ row' = [row EXCEPT ![Sig(h).user] = Sig(h).key]
                \/ row' = [row EXCEPT ![Sig(h).user] = Destroyed]
             /\ mail' = mail \ OfUser(Sig(h).user)
    <3>1. Sig(h).user \notin {m.recipient, m.sender}
      BY <1>1, <1>3, <2>4 DEF OfUser
    <3>2. QED
      BY <2>1, <2>4, <3>1 DEF TypeInv, TypeOK
  <2>5. QED
    BY <2>2, <2>3, <2>4, RowSteps
<1>4. CASE m \notin mail
  <2>1. /\ pc[h] = "insert" /\ m = NewMail(h) /\ pc[h] # "idle"
    BY <1>4, MailSteps DEF DeleteMail
  <2>2. /\ m.recipient = Sig(h).target /\ m.sender = Sig(h).user /\ m.sig = Sig(h)
        /\ ~keyMoved[h]
    BY <1>1, <2>1 DEF NewMail
  <2>3. Sig(h).op = "send" /\ KnowsSender(h) /\ Verified(h) /\ KnowsRecipient(h)
    BY <2>1 DEF TypeInv, RouteInv, SendSteps, KnowsSender, Verified, KnowsRecipient
  <2>4. UNCHANGED row
    BY <2>1, RowSteps DEF Applying
  <2>5. QED
    BY <2>1, <2>2, <2>3, <2>4 DEF KeyInv
<1>5. QED
  BY <1>3, <1>4

LEMMA KeyInductive == TypeInv /\ KeyInv /\ [Next]_vars => KeyInv'
<1>1. SUFFICES ASSUME TypeInv, KeyInv, [Next]_vars PROVE KeyInv'
  OBVIOUS
<1>2. ASSUME NEW h \in Handler, NEW r \in Request, Arrive(h, r) PROVE KeyInv'
  <2>1. /\ UNCHANGED <<row, mail, senderKey, keyMoved>>
        /\ pc'[h] = FirstStep(r.sig.op) /\ req'[h] = r
        /\ \A g \in Handler \ {h} : req'[g] = req[g] /\ pc'[g] = pc[g]
    BY <1>1, <1>2 DEF Arrive, GoTo, dbVars, TypeInv, TypeOK
  <2>2. /\ ~KnowsSender(h)' /\ ~Verified(h)' /\ ~KnowsRecipient(h)'
        /\ r.sig.op \notin {"send", "register"} => pc'[h] = "auth"
    BY <2>1 DEF KnowsSender, Verified, KnowsRecipient, FirstStep
  <2>3. \A g \in Handler \ {h} :
           /\ Sig(g)' = Sig(g) /\ KnowsSender(g)' = KnowsSender(g)
           /\ Verified(g)' = Verified(g) /\ KnowsRecipient(g)' = KnowsRecipient(g)
    BY <2>1 DEF Sig, KnowsSender, Verified, KnowsRecipient
  <2>4. Sig(h)' = r.sig
    BY <2>1 DEF Sig
  <2>5. MailReadable'
    BY <1>1, <2>1 DEF KeyInv, MailReadable
  <2>6. QED
    BY <1>1, <2>1, <2>2, <2>3, <2>4, <2>5 DEF KeyInv
<1>3. ASSUME NEW h \in Handler, Handle(h) PROVE KeyInv'
  BY <1>1, <1>3, HandleKeys, HandleReadable DEF KeyInv
<1>4. CASE Restart
  BY <1>1, <1>4 DEF Restart, KeyInv, MailReadable, dbVars
<1>5. CASE UNCHANGED vars
  <2>1. UNCHANGED <<pc, req, senderKey, row, mail, keyMoved>>
    BY <1>5 DEF vars, dbVars, handlerVars, history
  <2>2. QED
    BY <1>1, <2>1 DEF KeyInv, MailReadable, KnowsSender, Verified, KnowsRecipient, Sig
<1>6. QED
  BY <1>1, <1>2, <1>3, <1>4, <1>5 DEF Next

THEOREM KeyInvariance == Spec => []KeyInv
<1>1. Init => KeyInv
  BY DEF Init, KeyInv, MailReadable
<1>2. QED
  BY <1>1, KeyInductive, TypeInvariance, PTL DEF Spec

\* Mail that was not stored late is encrypted to the present keys of its local
\* recipient and signed with those of its local sender: the window between
\* keysOf and InsertMail in sendMail is the only way a row under dead keys gets
\* into the table.
THEOREM StoredMailReadable == Spec => []MailReadable
<1>1. KeyInv => MailReadable
  BY DEF KeyInv
<1>2. QED
  BY <1>1, KeyInvariance, PTL

\* A name gets keys when no name of its spelling has a row, and they change only
\* by a rotation or destruction that those keys signed, or that was authenticated
\* before the account changed.
THEOREM KeysChangeBySuccession == Spec => KeySuccession
<1> DEFINE Signed(u) ==
          \E h \in Handler :
             /\ pc[h] = "apply" /\ pc'[h] = "idle"
             /\ Sig(h).op \in {"rotate", "destroy"} /\ Sig(h).user = u
             /\ Sig(h).signer = row[u] \/ keyMoved[h]
           Alone(u) == \A v \in User \ {u} : Fold[v] = Fold[u] => row'[v] = Absent
           Step == \A u \in User :
              row'[u] # row[u] =>
                  /\ row'[u] # Absent
                  /\ row[u] = Absent => Alone(u)
                  /\ row[u] # Absent => Signed(u)
<1>1. ASSUME TypeInv, KeyInv, [Next]_vars PROVE [Step]_vars
  <2>1. SUFFICES ASSUME NEW u \in User, row'[u] # row[u]
                 PROVE  /\ row'[u] # Absent
                        /\ row[u] = Absent => Alone(u)
                        /\ row[u] # Absent => Signed(u)
    OBVIOUS
  <2>2. PICK h \in Handler : Handle(h)
    BY <1>1, <2>1 DEF Next, Arrive, Restart, vars, dbVars
  <2>3. pc[h] = "apply" /\ pc'[h] = "idle"
    <3>1. pc[h] = "apply"
      BY <1>1, <2>1, <2>2, RowSteps DEF Applying
    <3>2. pc'[h] = "idle"
      BY <1>1, <2>2, <3>1, HandleMoves, DoneTypes DEF Moves, TypeInv
    <3>3. QED
      BY <3>1, <3>2
  <2>4. Sig(h).op # "send" /\ Sig(h).user \in User /\ Sig(h).key \in Key
    BY <1>1, <2>2, <2>3, HandleMoves, RequestFields DEF TypeInv, RouteInv, Sig
  <2>5. Sig(h).user = u /\ row'[u] \in {Sig(h).key, Destroyed}
    BY <1>1, <2>1, <2>2, <2>4, RowSteps DEF Applying, TypeInv, TypeOK
  <2>6. row'[u] # Absent
    BY <2>4, <2>5, ServerAssumption
  <2>7. ASSUME row[u] = Absent PROVE Alone(u)
    <3>1. ~NameTaken(u) /\ row' = [row EXCEPT ![u] = Sig(h).key]
      BY <1>1, <2>1, <2>2, <2>5, <2>7, RowSteps DEF TypeInv, TypeOK
    <3>2. ASSUME NEW v \in User \ {u}, Fold[v] = Fold[u] PROVE row'[v] = Absent
      BY <1>1, <3>1, <3>2 DEF NameTaken, TypeInv, TypeOK
    <3>3. QED
      BY <3>2
  <2>8. ASSUME row[u] # Absent PROVE Signed(u)
    <3>1. Sig(h).op \in {"rotate", "destroy"}
      BY <1>1, <2>1, <2>2, <2>4, <2>5, <2>8, RowSteps DEF Applying, TypeInv, TypeOK
    <3>2. Sig(h).signer = row[u] \/ keyMoved[h]
      BY <1>1, <2>3, <2>5, <3>1 DEF KeyInv
    <3>3. QED
      BY <2>3, <2>5, <3>1, <3>2
  <2>9. QED
    BY <2>6, <2>7, <2>8
<1>2. QED
  BY <1>1, TypeInvariance, KeyInvariance, PTL DEF Spec, KeySuccession
-----------------------------------------------------------------------------
(***************************************************************************)
(* Limiter: the rate limit holds for every burst, rate, lag and period of  *)
(* sweeping, any number of clients, and whatever they write in             *)
(* X-Forwarded-For.                                                        *)
(***************************************************************************)

-----------------------------------------------------------------------------
\* The least and the greatest of what the code compares.

LEMMA MinOfTwo ==
    ASSUME NEW x \in Int, NEW y \in Int
    PROVE  Min({x, y}) = IF x <= y THEN x ELSE y
<1> DEFINE m == IF x <= y THEN x ELSE y
<1>1. m \in {x, y} /\ \A z \in {x, y} : m <= z
  OBVIOUS
<1>2. ASSUME NEW w \in {x, y}, \A z \in {x, y} : w <= z
      PROVE  w = m
  BY <1>2
<1>3. QED
  BY <1>1, <1>2 DEF Min

LEMMA MaxOfTwo ==
    ASSUME NEW x \in Int, NEW y \in Int
    PROVE  Max({x, y}) = IF x >= y THEN x ELSE y
<1> DEFINE m == IF x >= y THEN x ELSE y
<1>1. m \in {x, y} /\ \A z \in {x, y} : m >= z
  OBVIOUS
<1>2. ASSUME NEW w \in {x, y}, \A z \in {x, y} : w >= z
      PROVE  w = m
  BY <1>2
<1>3. QED
  BY <1>1, <1>2 DEF Max

-----------------------------------------------------------------------------
\* A request is charged to the client that sent it, whatever the client wrote
\* in X-Forwarded-For (server.go clientIP).
LEMMA Attribution ==
    ASSUME NEW c \in Client, NEW forged \in Forged, NEW route \in Routes(c, forged)
    PROVE  ClientIP(route.peer, route.hops) = c
<1> USE LimiterAssumption
<1>1. CASE route = [peer |-> c, hops |-> forged]
  BY <1>1 DEF ClientIP
<1>2. ASSUME NEW p \in Proxy, NEW chain \in Chains,
             route = [peer |-> p, hops |-> Append(forged, c) \o chain]
      PROVE  ClientIP(route.peer, route.hops) = c
  <2> DEFINE hops == Append(forged, c) \o chain
             n == Len(forged) + 1
             stops == {i \in DOMAIN hops : hops[i] \notin Proxy}
  <2>1. /\ forged \in Seq(Client \cup Proxy \cup {Junk})
        /\ chain \in Seq(Client \cup Proxy \cup {Junk})
        /\ chain \in Seq(Proxy)
        /\ Append(forged, c) \in Seq(Client \cup Proxy \cup {Junk})
        /\ Len(Append(forged, c)) = n
    OBVIOUS
  <2>2. /\ hops \in Seq(Client \cup Proxy \cup {Junk})
        /\ Len(hops) = n + Len(chain)
        /\ n \in Nat /\ Len(chain) \in Nat
    BY <2>1
  <2>3. hops[n] = c /\ n \in 1 .. Len(hops)
    BY <2>1, <2>2
  <2>4. \A i \in 1 .. Len(hops) : i > n => hops[i] = chain[i - n]
    BY <2>1, <2>2
  <2>5. \A i \in 1 .. Len(hops) : i > n => hops[i] \in Proxy
    BY <2>1, <2>2, <2>4
  <2>6. n \in stops /\ \A i \in stops : n >= i
    BY <2>2, <2>3, <2>5
  <2>7. Max(stops) = n
    <3>1. ASSUME NEW w \in stops, \A i \in stops : w >= i
          PROVE  w = n
      BY <2>2, <2>6, <3>1
    <3>2. QED
      BY <2>6, <3>1 DEF Max
  <2>8. hops[n] # Junk
    BY <2>3
  <2>9. SubSeq(hops, n, Len(hops)) # <<>> /\ Head(SubSeq(hops, n, Len(hops))) = c
    BY <2>2, <2>3, SMTT(30)
  <2>10. stops # {}
    BY <2>6
  <2>11. ClientIP(p, hops) = c
    <3> HIDE DEF hops, n
    <3>1. (IF stops = {} THEN hops
           ELSE SubSeq(hops, IF hops[Max(stops)] = Junk THEN Max(stops) + 1 ELSE Max(stops),
                       Len(hops)))
          = SubSeq(hops, n, Len(hops))
      BY <2>7, <2>8, <2>10
    <3>2. ClientIP(p, hops) =
          IF SubSeq(hops, n, Len(hops)) = <<>> THEN p ELSE Head(SubSeq(hops, n, Len(hops)))
      BY <3>1, Zenon DEF ClientIP
    <3>3. QED
      BY <2>9, <3>2
  <2>12. QED
    BY <1>2, <2>11
<1> HIDE LimiterAssumption
<1>3. \/ route = [peer |-> c, hops |-> forged]
      \/ \E p \in Proxy, chain \in Chains :
            route = [peer |-> p, hops |-> Append(forged, c) \o chain]
  BY SMTT(30) DEF Routes
<1>4. QED
  BY <1>1, <1>2, <1>3, Zenon

-----------------------------------------------------------------------------
\* The inductive invariant, by parts.

\* A pending call is charged to the client that makes it, and of now.
CallInv ==
    \A r \in Place : call[r] # NoCall =>
        /\ call[r].net = call[r].by
        /\ call[r].at <= clock
        /\ call[r].at + Lag >= clock

\* No bucket is ahead of the clock.  What a refused call notes in used may be
\* older than last, by a lag.
BucketInv ==
    \A n \in Net : bucket[n] # None =>
        /\ bucket[n].last <= clock
        /\ bucket[n].used <= clock
        /\ bucket[n].used + Lag >= bucket[n].last

\* The exact bucket, with what is allowed for on top of it.
Granted(n) == credit[n] + gifts[n] + Lag

\* It holds what the bucket may hold to a call of now or of a lag ago.
CreditInv ==
    \A n \in Net :
        \/ Granted(n) >= Full + Lag
        \/ /\ bucket[n] # None
           /\ Granted(n) >= bucket[n].level + (clock - bucket[n].last)

LimiterIInv == LimiterTypeOK /\ CallInv /\ BucketInv /\ CreditInv

-----------------------------------------------------------------------------
LEMMA Sizes ==
    /\ Full \in Nat /\ Full >= Cost /\ Cost \in Nat
    /\ Lag \in Nat /\ Idle \in Nat /\ SweepEvery \in Nat
    /\ Shortfall \in Nat /\ Shortfall >= Full + 2 * Lag - (Idle + 1)
<1>1. Burst >= 1 /\ Cost >= 1 /\ Burst \in Nat /\ Cost \in Nat
  BY LimiterAssumption
<1>2. Burst * Cost \in Nat /\ Burst * Cost >= 1 * Cost
  BY <1>1
<1>3. Lag \in Nat /\ Idle \in Nat /\ SweepEvery \in Nat
  BY LimiterAssumption
<1>4. Full \in Nat /\ Full >= Cost
  BY <1>1, <1>2 DEF Full
<1>5. Shortfall = IF 0 >= Full + 2 * Lag - (Idle + 1) THEN 0 ELSE Full + 2 * Lag - (Idle + 1)
  BY <1>3, <1>4, MaxOfTwo DEF Shortfall
<1>6. QED
  BY <1>1, <1>3, <1>4, <1>5

LEMMA LimiterInitEstablishes == LimiterInit => LimiterIInv
<1> SUFFICES ASSUME LimiterInit PROVE LimiterIInv
  OBVIOUS
<1> USE Sizes DEF LimiterInit
<1>1. LimiterTypeOK
  BY DEF LimiterTypeOK
<1>2. CallInv /\ BucketInv
  BY DEF CallInv, BucketInv
<1>3. ASSUME NEW n \in Net PROVE Granted(n) >= Full + Lag
  <2>1. gifts[n] = 0 /\ credit[n] = Full
    OBVIOUS
  <2>2. QED
    BY <2>1 DEF Granted
<1>4. QED
  BY <1>1, <1>2, <1>3 DEF LimiterIInv, CreditInv

\* A tick of the clock fills the exact bucket as it does the other
\* (rate.Limiter advance).
LEMMA TickKeeps == LimiterIInv /\ Tick => LimiterIInv'
<1> SUFFICES ASSUME LimiterIInv, Tick PROVE LimiterIInv'
  OBVIOUS
<1> USE Sizes
<1>1. /\ clock' = clock + 1
      /\ credit' = [n \in Net |-> Min({Full, credit[n] + 1})]
      /\ UNCHANGED <<bucket, sweptAt, call, gifts>>
      /\ \A r \in Place : call[r] # NoCall => call[r].at + Lag > clock
  BY DEF Tick
<1>2. ASSUME NEW n \in Net
      PROVE  /\ credit'[n] = IF Full <= credit[n] + 1 THEN Full ELSE credit[n] + 1
             /\ credit[n] \in Int
  BY <1>1, MinOfTwo DEF LimiterIInv, LimiterTypeOK
<1>3. LimiterTypeOK'
  BY <1>1, <1>2 DEF LimiterIInv, LimiterTypeOK
<1>4. CallInv'
  BY <1>1 DEF LimiterIInv, LimiterTypeOK, CallInv
<1>5. BucketInv'
  BY <1>1 DEF LimiterIInv, LimiterTypeOK, BucketInv, Bucket
<1>6. ASSUME NEW n \in Net
      PROVE  \/ credit'[n] + gifts[n] + Lag >= Full + Lag
             \/ /\ bucket[n] # None
                /\ credit'[n] + gifts[n] + Lag
                     >= bucket[n].level + (clock + 1 - bucket[n].last)
  <2> DEFINE extra == gifts[n]
  <2>1. /\ extra \in Nat /\ credit[n] \in Int /\ clock \in Nat
        /\ bucket[n] # None => bucket[n].level \in Nat /\ bucket[n].last \in Nat
    BY DEF LimiterIInv, LimiterTypeOK, Bucket
  <2>2. \/ credit[n] + extra + Lag >= Full + Lag
        \/ /\ bucket[n] # None
           /\ credit[n] + extra + Lag >= bucket[n].level + (clock - bucket[n].last)
    BY DEF LimiterIInv, CreditInv, Granted
  <2> HIDE DEF extra
  <2>3. CASE Full <= credit[n] + 1
    BY <1>2, <2>1, <2>3 DEF extra
  <2>4. CASE ~(Full <= credit[n] + 1)
    <3> DEFINE new == credit'[n]
    <3>1. new = credit[n] + 1
      BY <1>2, <2>4
    <3> HIDE DEF new
    <3>2. \/ new + extra + Lag >= Full + Lag
          \/ /\ bucket[n] # None
             /\ new + extra + Lag >= bucket[n].level + (clock + 1 - bucket[n].last)
      BY <2>1, <2>2, <3>1
    <3>3. QED
      BY <3>2 DEF new, extra
  <2>5. QED
    BY <2>3, <2>4
<1>7. ASSUME NEW n \in Net
      PROVE  \/ Granted(n)' >= Full + Lag
             \/ /\ bucket'[n] # None
                /\ Granted(n)' >= bucket'[n].level + (clock' - bucket'[n].last)
  <2> DEFINE g == credit'[n] + gifts[n] + Lag
  <2>1. Granted(n)' = g
    BY <1>1 DEF Granted
  <2>2. \/ g >= Full + Lag
        \/ bucket[n] # None /\ g >= bucket[n].level + (clock + 1 - bucket[n].last)
    BY <1>6
  <2>3. clock' = clock + 1 /\ bucket' = bucket /\ clock \in Nat
    BY <1>1 DEF LimiterIInv, LimiterTypeOK
  <2>4. g \in Int
    BY <1>2 DEF LimiterIInv, LimiterTypeOK
  <2> HIDE DEF g
  <2>5. CASE g >= Full + Lag
    BY <2>1, <2>5
  <2>6. CASE bucket[n] # None /\ g >= bucket[n].level + (clock + 1 - bucket[n].last)
    <3>1. bucket[n].level \in Nat /\ bucket[n].last \in Nat
      BY <2>6 DEF LimiterIInv, LimiterTypeOK, Bucket
    <3>2. QED
      BY <2>1, <2>3, <2>4, <2>6, <3>1
  <2>7. QED
    BY <2>2, <2>5, <2>6
<1>8. CreditInv'
  BY <1>7 DEF CreditInv
<1>9. QED
  BY <1>3, <1>4, <1>5, <1>8 DEF LimiterIInv

\* A request is charged to the client it comes from (server.go rateLimit).
LEMMA ArriveKeeps ==
    ASSUME LimiterIInv, NEW r \in Place, NEW c \in Client, NEW forged \in Forged,
           NEW route \in Routes(c, forged), ReadClock(r, c, route)
    PROVE  LimiterIInv'
<1> USE LimiterAssumption
<1>1. ClientIP(route.peer, route.hops) = c
  BY Attribution
<1>2. /\ call' = [call EXCEPT ![r] = [net |-> NetOf[c], by |-> NetOf[c], at |-> clock]]
      /\ UNCHANGED <<clock, bucket, sweptAt, credit, gifts>>
  BY <1>1 DEF ReadClock
<1>3. NetOf[c] \in Net
  BY DEF Net
<1>4. LimiterTypeOK' /\ CallInv'
  BY <1>2, <1>3 DEF LimiterIInv, LimiterTypeOK, CallInv
<1>5. BucketInv' /\ CreditInv'
  BY <1>2 DEF LimiterIInv, BucketInv, CreditInv, Granted
<1>6. QED
  BY <1>4, <1>5 DEF LimiterIInv

-----------------------------------------------------------------------------
\* What a call finds after the sweep it may begin with (server.go:187-200):
\* the bucket as it was, or none; in its place the gift of the sweep makes up
\* for what a full one may give to a call of a lag ago.
LEMMA SweptKeeps ==
    ASSUME LimiterIInv, NEW t \in Nat, t <= clock, t + Lag >= clock, NEW n \in Net
    PROVE  /\ Swept(t)[n] = None \/ Swept(t)[n] = bucket[n]
           /\ SweepGifts(t)[n] \in Nat
           /\ \/ credit[n] + SweepGifts(t)[n] + Lag >= Full + Lag
              \/ /\ Swept(t)[n] # None
                 /\ credit[n] + SweepGifts(t)[n] + Lag
                      >= Swept(t)[n].level + (clock - Swept(t)[n].last)
<1> USE Sizes
<1>1. /\ Swept(t)[n] = IF Sweeps(t) /\ t - bucket[n].used > Idle THEN None ELSE bucket[n]
      /\ SweepGifts(t)[n] = IF Swept(t)[n] = bucket[n] THEN gifts[n] ELSE gifts[n] + Shortfall
  BY DEF Swept, SweepGifts
<1>2. /\ clock \in Nat /\ credit[n] \in Int /\ gifts[n] \in Nat
      /\ bucket[n] \in Bucket \cup {None}
      /\ SweepGifts(t)[n] \in Nat
  BY <1>1 DEF LimiterIInv, LimiterTypeOK
<1>3. \/ credit[n] + gifts[n] + Lag >= Full + Lag
      \/ /\ bucket[n] # None
         /\ credit[n] + gifts[n] + Lag >= bucket[n].level + (clock - bucket[n].last)
  BY DEF LimiterIInv, CreditInv, Granted
<1>4. CASE Swept(t)[n] = bucket[n]
  BY <1>1, <1>2, <1>3, <1>4
<1>5. CASE Swept(t)[n] # bucket[n]
  <2>1. /\ bucket[n] # None /\ t - bucket[n].used > Idle
        /\ Swept(t)[n] = None /\ SweepGifts(t)[n] = gifts[n] + Shortfall
    BY <1>1, <1>5
  <2>2. /\ bucket[n].level \in Nat /\ bucket[n].last \in Nat /\ bucket[n].used \in Nat
        /\ bucket[n].used + Lag >= bucket[n].last
    BY <1>2, <2>1 DEF Bucket, LimiterIInv, BucketInv
  <2>3. clock - bucket[n].last >= Idle + 1 - Lag
    BY <1>2, <2>1, <2>2
  <2>4. credit[n] + gifts[n] + Shortfall + Lag >= Full + Lag
    BY <1>2, <1>3, <2>2, <2>3
  <2>5. QED
    BY <1>2, <2>1, <2>4
<1>6. QED
  BY <1>4, <1>5

\* The level of a bucket at the time of a call.
LEMMA LevelOf ==
    ASSUME NEW b \in Bucket \cup {None}, NEW t \in Nat
    PROVE  LevelAt(b, t) =
             IF b = None THEN Full
             ELSE IF t <= b.last THEN b.level
             ELSE IF Full <= b.level + (t - b.last) THEN Full ELSE b.level + (t - b.last)
<1> USE Sizes
<1>1. ASSUME b # None
      PROVE  Min({Full, b.level + Max({0, t - b.last})}) =
                IF t <= b.last THEN b.level
                ELSE IF Full <= b.level + (t - b.last) THEN Full ELSE b.level + (t - b.last)
  <2> DEFINE gain == Max({0, t - b.last})
  <2>1. b.level \in 0 .. Full /\ b.last \in Nat
    BY <1>1 DEF Bucket
  <2>2. gain = IF 0 >= t - b.last THEN 0 ELSE t - b.last
    BY <2>1, MaxOfTwo
  <2>3. gain \in Nat /\ b.level + gain \in Int
    BY <2>1, <2>2
  <2> HIDE DEF gain
  <2>4. Min({Full, b.level + gain}) = IF Full <= b.level + gain THEN Full ELSE b.level + gain
    BY <2>3, MinOfTwo
  <2>5. QED
    BY <2>1, <2>2, <2>3, <2>4 DEF gain
<1>2. QED
  BY <1>1 DEF LevelAt

-----------------------------------------------------------------------------
\* A call that is let in costs the exact bucket what it costs the other, and
\* one lag at most when it comes after one of a later time (rate.AllowN).
LEMMA LetInKeeps ==
    ASSUME NEW b \in Bucket \cup {None}, NEW t \in Nat, NEW now \in Nat,
           t <= now, t + Lag >= now, b # None => b.last <= now,
           NEW granted \in Int,
           \/ granted >= Full + Lag
           \/ b # None /\ granted >= b.level + (now - b.last)
    PROVE  /\ LevelAt(b, t) \in 0 .. Full
           /\ (IF t < b.last THEN granted + Lag ELSE granted) >= LevelAt(b, t) + (now - t)
<1> USE Sizes
<1>1. CASE b = None
  BY <1>1, LevelOf DEF None, Never
<1>2. CASE b # None
  <2>1. b.level \in 0 .. Full /\ b.last \in Nat
    BY <1>2 DEF Bucket
  <2>2. LevelAt(b, t) =
          IF t <= b.last THEN b.level
          ELSE IF Full <= b.level + (t - b.last) THEN Full ELSE b.level + (t - b.last)
    BY <1>2, LevelOf
  <2>3. LevelAt(b, t) \in 0 .. Full
    BY <2>1, <2>2
  <2>4. CASE t < b.last
    BY <1>2, <2>1, <2>2, <2>4
  <2>5. CASE ~(t < b.last)
    BY <1>2, <2>1, <2>2, <2>5
  <2>6. QED
    BY <2>3, <2>4, <2>5
<1>3. QED
  BY <1>1, <1>2

LEMMA AllowKeeps ==
    ASSUME LimiterIInv, NEW r \in Place, Allow(r)
    PROVE  LimiterIInv'
<1> USE Sizes
<1> DEFINE n == call[r].net
           t == call[r].at
           b == Swept(t)[n]
           level == LevelAt(b, t)
           fits == level >= Cost
<1>1. /\ call[r] # NoCall /\ call[r].by = n /\ n \in Net
      /\ t \in Nat /\ t <= clock /\ t + Lag >= clock /\ clock \in Nat
  BY DEF Allow, LimiterIInv, LimiterTypeOK, CallInv
<1>2. /\ sweptAt' = IF Sweeps(t) THEN t ELSE sweptAt
      /\ call' = [call EXCEPT ![r] = NoCall]
      /\ clock' = clock
  BY DEF Allow
<1>3. ASSUME NEW m \in Net
      PROVE  /\ Swept(t)[m] = None \/ Swept(t)[m] = bucket[m]
             /\ Swept(t)[m] \in Bucket \cup {None}
             /\ Swept(t)[m] # None =>
                   /\ Swept(t)[m].last \in Nat /\ Swept(t)[m].used \in Nat
                   /\ Swept(t)[m].level \in 0 .. Full
                   /\ Swept(t)[m].last <= clock /\ Swept(t)[m].used <= clock
                   /\ Swept(t)[m].used + Lag >= Swept(t)[m].last
  <2>1. Swept(t)[m] = None \/ Swept(t)[m] = bucket[m]
    BY <1>1, SweptKeeps
  <2>2. bucket[m] \in Bucket \cup {None}
    BY DEF LimiterIInv, LimiterTypeOK
  <2>3. QED
    BY <2>1, <2>2 DEF LimiterIInv, BucketInv, Bucket
<1>4. \/ /\ fits
         /\ bucket' = [Swept(t) EXCEPT ![n] = [level |-> level - Cost, last |-> t, used |-> t]]
         /\ credit' = [credit EXCEPT ![n] = @ - Cost]
         /\ gifts' = [SweepGifts(t) EXCEPT ![n] = IF t < b.last THEN @ + Lag ELSE @]
      \/ /\ ~fits
         /\ bucket' = [Swept(t) EXCEPT ![n].used = t]
         /\ credit' = credit /\ gifts' = SweepGifts(t)
  <2>1. \/ /\ fits
           /\ bucket' = [Swept(t) EXCEPT ![n] = [level |-> level - Cost, last |-> t, used |-> t]]
           /\ credit' = [credit EXCEPT ![call[r].by] = @ - Cost]
           /\ gifts' = [SweepGifts(t) EXCEPT ![n] = IF t < b.last THEN @ + Lag ELSE @]
        \/ /\ level < Cost
           /\ bucket' = [Swept(t) EXCEPT ![n].used = t]
           /\ credit' = credit /\ gifts' = SweepGifts(t)
    BY DEF Allow
  <2>2. level \in Int
    BY <1>1, <1>3, LevelOf DEF Bucket
  <2> HIDE DEF level, b
  <2>3. level < Cost => ~fits
    BY <2>2
  <2>4. QED
    BY <1>1, <2>1, <2>3
<1>5. ASSUME NEW m \in Net
      PROVE  /\ credit[m] \in Int /\ SweepGifts(t)[m] \in Nat
             /\ \/ credit[m] + SweepGifts(t)[m] + Lag >= Full + Lag
                \/ /\ Swept(t)[m] # None
                   /\ credit[m] + SweepGifts(t)[m] + Lag
                        >= Swept(t)[m].level + (clock - Swept(t)[m].last)
  <2>1. credit[m] \in Int
    BY DEF LimiterIInv, LimiterTypeOK
  <2>2. QED
    BY <1>1, <2>1, SweptKeeps
<1>6. level \in 0 .. Full /\ (b = None => level = Full)
  <2>1. b \in Bucket \cup {None} /\ (b # None => b.level \in 0 .. Full /\ b.last \in Nat)
    BY <1>1, <1>3
  <2> HIDE DEF b
  <2>2. level =
             IF b = None THEN Full
             ELSE IF t <= b.last THEN b.level
             ELSE IF Full <= b.level + (t - b.last) THEN Full ELSE b.level + (t - b.last)
    BY <1>1, <2>1, LevelOf
  <2> HIDE DEF level
  <2>3. QED
    BY <1>1, <2>1, <2>2
<1>7. ASSUME ~fits
      PROVE  /\ b # None
             /\ bucket'[n] = [level |-> b.level, last |-> b.last, used |-> t]
             /\ bucket'[n] # None
  <2>1. b # None
    <3> HIDE DEF level, b
    <3> QED
      BY <1>6, <1>7
  <2>2. b \in Bucket
    BY <1>1, <1>3, <2>1
  <2>3. bucket' = [Swept(t) EXCEPT ![n].used = t]
    BY <1>4, <1>7
  <2>4. bucket'[n] = [b EXCEPT !.used = t]
    BY <1>1, <2>3 DEF Swept
  <2>5. QED
    BY <1>1, <2>1, <2>2, <2>4 DEF Bucket, None, Never
<1>8. ASSUME NEW m \in Net, m # n
      PROVE  /\ bucket'[m] = Swept(t)[m]
             /\ credit'[m] = credit[m] /\ gifts'[m] = SweepGifts(t)[m]
  BY <1>1, <1>4, <1>8 DEF Swept, SweepGifts, LimiterIInv, LimiterTypeOK
<1>9. ASSUME fits
      PROVE  /\ bucket'[n] = [level |-> level - Cost, last |-> t, used |-> t]
             /\ credit'[n] = credit[n] - Cost
             /\ gifts'[n] = IF t < b.last THEN SweepGifts(t)[n] + Lag ELSE SweepGifts(t)[n]
  BY <1>1, <1>4, <1>9 DEF Swept, SweepGifts, LimiterIInv, LimiterTypeOK
<1>10. DOMAIN bucket' = Net /\ bucket' = [m \in Net |-> bucket'[m]]
  BY <1>4 DEF Swept
<1>11. ASSUME NEW m \in Net
       PROVE  /\ bucket'[m] \in Bucket \cup {None}
              /\ bucket'[m] # None =>
                    /\ bucket'[m].last <= clock
                    /\ bucket'[m].used <= clock
                    /\ bucket'[m].used + Lag >= bucket'[m].last
  <2>1. CASE m # n
    BY <1>3, <1>8, <2>1
  <2>2. CASE m = n /\ fits
    <3> HIDE DEF level, b
    <3>1. level - Cost \in 0 .. Full
      BY <1>6, <2>2
    <3>2. bucket'[m] \in Bucket
      BY <1>1, <1>9, <2>2, <3>1 DEF Bucket
    <3>3. QED
      BY <1>1, <1>9, <2>2, <3>2
  <2>3. CASE m = n /\ ~fits
    <3>1. b \in Bucket /\ b.last <= clock /\ b.last \in Nat /\ b.level \in 0 .. Full
      BY <1>1, <1>3, <1>7, <2>3
    <3> HIDE DEF level, b
    <3>2. bucket'[m] \in Bucket
      BY <1>1, <1>7, <2>3, <3>1 DEF Bucket
    <3>3. QED
      BY <1>1, <1>7, <2>3, <3>1, <3>2
  <2>4. QED
    BY <2>1, <2>2, <2>3
<1>12. LimiterTypeOK'
  <2>1. bucket' \in [Net -> Bucket \cup {None}]
    BY <1>10, <1>11
  <2>2. sweptAt' \in Nat \cup {Never} /\ clock' \in Nat
    BY <1>1, <1>2 DEF LimiterIInv, LimiterTypeOK
  <2>3. call' \in [Place -> [net : Net, by : Net, at : Nat] \cup {NoCall}]
    BY <1>2 DEF LimiterIInv, LimiterTypeOK
  <2>4. credit' \in [Net -> Int]
    BY <1>4 DEF LimiterIInv, LimiterTypeOK
  <2>5. gifts' \in [Net -> Nat]
    <3>1. DOMAIN gifts' = Net /\ gifts' = [m \in Net |-> gifts'[m]]
      BY <1>4 DEF SweepGifts
    <3>2. ASSUME NEW m \in Net PROVE gifts'[m] \in Nat
      <4>1. CASE m # n
        BY <1>5, <1>8, <4>1
      <4>2. CASE m = n /\ fits
        BY <1>5, <1>9, <4>2
      <4>3. CASE m = n /\ ~fits
        <5>1. gifts' = SweepGifts(t)
          BY <1>4, <4>3
        <5>2. QED
          BY <1>5, <5>1
      <4>4. QED
        BY <4>1, <4>2, <4>3
    <3>3. QED
      BY <3>1, <3>2
  <2>6. QED
    BY <2>1, <2>2, <2>3, <2>4, <2>5 DEF LimiterTypeOK
<1>13. CallInv'
  BY <1>2 DEF LimiterIInv, CallInv
<1>14. BucketInv'
  BY <1>2, <1>11 DEF BucketInv
<1> DEFINE grant(m) == credit[m] + SweepGifts(t)[m] + Lag
<1>15. ASSUME NEW m \in Net
       PROVE  /\ grant(m) \in Int
              /\ m # n => Granted(m)' = grant(m)
              /\ m = n /\ ~fits => Granted(m)' = grant(m)
              /\ m = n /\ fits => Granted(m)' =
                    (IF t < b.last THEN grant(m) + Lag ELSE grant(m)) - Cost
  <2>1. credit[m] \in Int /\ SweepGifts(t)[m] \in Nat
    BY <1>5
  <2>2. Granted(m)' = credit'[m] + gifts'[m] + Lag
    BY DEF Granted
  <2>3. m # n => Granted(m)' = grant(m)
    BY <1>8, <2>2
  <2>4. m = n /\ ~fits => Granted(m)' = grant(m)
    <3>1. ~fits => credit' = credit /\ gifts' = SweepGifts(t)
      BY <1>4
    <3> QED
      BY <2>2, <3>1
  <2>5. ASSUME m = n, fits
        PROVE  Granted(m)' = (IF t < b.last THEN grant(m) + Lag ELSE grant(m)) - Cost
    <3>1. /\ credit'[m] = credit[m] - Cost
          /\ gifts'[m] = IF t < b.last THEN SweepGifts(t)[m] + Lag ELSE SweepGifts(t)[m]
      BY <1>9, <2>5
    <3> HIDE DEF b
    <3>2. QED
      BY <2>1, <2>2, <3>1
  <2>6. QED
    BY <2>1, <2>3, <2>4, <2>5
<1>16. ASSUME NEW m \in Net
       PROVE  \/ Granted(m)' >= Full + Lag
              \/ /\ bucket'[m] # None
                 /\ Granted(m)' >= bucket'[m].level + (clock - bucket'[m].last)
  <2>1. \/ grant(m) >= Full + Lag
        \/ Swept(t)[m] # None /\ grant(m) >= Swept(t)[m].level + (clock - Swept(t)[m].last)
    BY <1>5
  <2> HIDE DEF grant
  <2>2. CASE m # n
    BY <1>8, <1>15, <2>1, <2>2
  <2>3. CASE m = n /\ fits
    <3>1. b \in Bucket \cup {None} /\ (b # None => b.last <= clock)
      BY <1>1, <1>3
    <3>2. \/ grant(m) >= Full + Lag
          \/ b # None /\ grant(m) >= b.level + (clock - b.last)
      BY <2>1, <2>3
    <3> DEFINE granted == IF t < b.last THEN grant(m) + Lag ELSE grant(m)
    <3>3. granted >= level + (clock - t)
      <4> HIDE DEF b
      <4> QED
        BY <1>1, <1>15, <3>1, <3>2, LetInKeeps
    <3>4. Granted(m)' = granted - Cost /\ granted \in Int
      BY <1>15, <2>3
    <3>5. bucket'[m] = [level |-> level - Cost, last |-> t, used |-> t]
      BY <1>9, <2>3
    <3> HIDE DEF b, level, granted
    <3>6. Granted(m)' >= (level - Cost) + (clock - t)
      BY <1>1, <1>6, <3>3, <3>4
    <3>7. bucket'[m] # None
      BY <1>1, <3>5 DEF None, Never
    <3>8. QED
      BY <3>5, <3>6, <3>7
  <2>4. CASE m = n /\ ~fits
    <3>1. bucket'[m].level = b.level /\ bucket'[m].last = b.last /\ bucket'[m] # None
      BY <1>7, <2>4
    <3>2. Granted(m)' = grant(m)
      BY <1>15, <2>4
    <3>3. QED
      BY <2>1, <2>4, <3>1, <3>2
  <2>5. QED
    BY <2>2, <2>3, <2>4
<1>17. CreditInv'
  BY <1>2, <1>16 DEF CreditInv
<1>18. QED
  BY <1>12, <1>13, <1>14, <1>17 DEF LimiterIInv

\* LimiterIInv is inductive.
THEOREM LimiterInvariance == LimiterSpec => []LimiterIInv
<1>1. LimiterIInv /\ [LimiterNext]_limiterVars => LimiterIInv'
  <2> SUFFICES ASSUME LimiterIInv, [LimiterNext]_limiterVars PROVE LimiterIInv'
    OBVIOUS
  <2>1. CASE Tick
    BY <2>1, TickKeeps
  <2>2. ASSUME NEW r \in Place, Allow(r) PROVE LimiterIInv'
    BY <2>2, AllowKeeps
  <2>3. ASSUME NEW r \in Place, NEW c \in Client, NEW forged \in Forged,
               NEW route \in Routes(c, forged), ReadClock(r, c, route)
        PROVE  LimiterIInv'
    BY <2>3, ArriveKeeps
  <2>4. CASE UNCHANGED limiterVars
    BY <2>4 DEF limiterVars, LimiterIInv, LimiterTypeOK, CallInv, BucketInv, CreditInv, Granted
  <2>5. QED
    BY <2>1, <2>2, <2>3, <2>4 DEF LimiterNext
<1>2. QED
  BY <1>1, LimiterInitEstablishes, PTL DEF LimiterSpec

-----------------------------------------------------------------------------
\* The limiter's variables keep their types (server.go limiter, bucket).
THEOREM LimiterTypeCorrect == LimiterSpec => []LimiterTypeOK
<1>1. LimiterIInv => LimiterTypeOK
  BY DEF LimiterIInv
<1>2. QED
  BY <1>1, LimiterInvariance, PTL

\* No client gets more than its limit (server.go allow), for any burst, rate,
\* times of a sweep and number of clients and proxies.
THEOREM LimitIsKept == LimiterSpec => []RateHolds
<1> USE Sizes
<1>1. LimiterIInv => RateHolds
  <2> SUFFICES ASSUME LimiterIInv, NEW n \in Net
               PROVE  Granted(n) >= 0
    BY DEF RateHolds, Granted
  <2>1. bucket[n] # None => /\ bucket[n].level \in Nat /\ bucket[n].last \in Nat
                            /\ bucket[n].last <= clock /\ clock \in Nat
    BY DEF LimiterIInv, LimiterTypeOK, BucketInv, Bucket
  <2>2. Granted(n) \in Int
    BY DEF Granted, LimiterIInv, LimiterTypeOK
  <2>3. QED
    BY <2>1, <2>2 DEF LimiterIInv, CreditInv
<1>2. QED
  BY <1>1, LimiterInvariance, PTL

-----------------------------------------------------------------------------
\* The last sweep left no bucket that was idle then.
SweepInv ==
    /\ sweptAt <= clock
    /\ \A n \in Net : bucket[n] # None =>
          sweptAt # Never /\ sweptAt - bucket[n].used <= Idle

\* What a call finds after the sweep it may begin with is recent.
LEMMA SweepStep ==
    ASSUME Lag <= Idle, LimiterIInv, SweepInv, NEW r \in Place, Allow(r)
    PROVE  /\ SweepInv'
           /\ \A n \in Net : bucket'[n] # None =>
                 call[r].at - bucket'[n].used <= Idle + SweepEvery
<1> USE Sizes
<1> DEFINE t == call[r].at
<1>1. /\ call[r] # NoCall /\ t \in Nat /\ t <= clock /\ t + Lag >= clock
      /\ clock \in Nat /\ sweptAt \in Nat \cup {Never}
      /\ bucket \in [Net -> Bucket \cup {None}]
  BY DEF Allow, LimiterIInv, LimiterTypeOK, CallInv
<1>2. sweptAt' = IF Sweeps(t) THEN t ELSE sweptAt
  BY DEF Allow
<1>3. clock' = clock
  BY DEF Allow
<1>4. ASSUME NEW n \in Net, bucket'[n] # None
      PROVE  \/ bucket'[n].used = t
             \/ /\ bucket'[n] = bucket[n] /\ bucket[n] # None
                /\ Sweeps(t) => t - bucket[n].used <= Idle
  <2>1. \/ bucket' = [Swept(t) EXCEPT ![call[r].net] =
                        [level |-> LevelAt(Swept(t)[call[r].net], t) - Cost,
                         last |-> t, used |-> t]]
        \/ bucket' = [Swept(t) EXCEPT ![call[r].net].used = t]
    BY DEF Allow
  <2>2. call[r].net = n \/ bucket'[n] = Swept(t)[n]
    BY <2>1 DEF Swept
  <2>3. CASE call[r].net = n
    <3>1. Swept(t)[n] \in Bucket \cup {None}
      BY <1>1 DEF Swept
    <3>2. bucket'[n].used = t
      BY <2>1, <2>3, <3>1 DEF Swept, Bucket, None
    <3>3. QED
      BY <3>2
  <2>4. CASE bucket'[n] = Swept(t)[n]
    <3>1. Swept(t)[n] = IF Sweeps(t) /\ t - bucket[n].used > Idle THEN None ELSE bucket[n]
      BY DEF Swept
    <3>2. bucket'[n] = bucket[n] /\ (Sweeps(t) => ~(t - bucket[n].used > Idle))
      BY <1>4, <2>4, <3>1
    <3>3. bucket[n] \in Bucket
      BY <1>1, <1>4, <3>2
    <3>4. QED
      BY <1>1, <1>4, <3>2, <3>3 DEF Bucket
  <2>5. QED
    BY <2>2, <2>3, <2>4
<1>5. sweptAt' \in Nat /\ sweptAt' <= clock /\ t - sweptAt' <= SweepEvery
      /\ sweptAt' - t <= Lag
  <2>1. CASE Sweeps(t)
    BY <1>1, <1>2, <2>1
  <2>2. CASE ~Sweeps(t)
    <3>1. sweptAt' = sweptAt /\ sweptAt \in Nat /\ t - sweptAt <= SweepEvery
      BY <1>1, <1>2, <2>2 DEF Sweeps
    <3>2. sweptAt <= clock
      BY DEF SweepInv
    <3>3. QED
      BY <1>1, <3>1, <3>2
  <2>3. QED
    BY <2>1, <2>2
<1>6. ASSUME NEW n \in Net, bucket'[n] # None
      PROVE  /\ sweptAt' - bucket'[n].used <= Idle
             /\ t - bucket'[n].used <= Idle + SweepEvery
  <2>1. CASE bucket'[n].used = t
    BY <1>1, <1>5, <2>1
  <2>2. CASE /\ bucket'[n] = bucket[n] /\ bucket[n] # None
             /\ Sweeps(t) => t - bucket[n].used <= Idle
    <3>1. bucket[n].used \in Nat
      BY <1>1, <2>2 DEF Bucket
    <3>2. sweptAt - bucket[n].used <= Idle /\ sweptAt # Never /\ sweptAt \in Nat
      BY <1>1, <2>2 DEF SweepInv
    <3>3. CASE Sweeps(t)
      BY <1>1, <1>2, <2>2, <3>1, <3>3
    <3>4. CASE ~Sweeps(t)
      BY <1>1, <1>2, <1>5, <2>2, <3>1, <3>2, <3>4
    <3>5. QED
      BY <3>3, <3>4
  <2>3. QED
    BY <1>4, <1>6, <2>1, <2>2
<1>7. SweepInv'
  BY <1>3, <1>5, <1>6 DEF SweepInv, Never
<1>8. QED
  BY <1>6, <1>7

\* A bucket does not outlive its client by more than ten minutes and a sweep
\* (server.go allow), for every period and any number of clients.
THEOREM ForgetsTheGone ==
    ASSUME Lag <= Idle
    PROVE  LimiterSpec => SweepsForget
<1> USE Sizes
<1>1. LimiterInit => SweepInv
  BY DEF LimiterInit, SweepInv, Never
<1>2. LimiterIInv /\ SweepInv /\ [LimiterNext]_limiterVars => SweepInv' /\ [AnsweredWithRecent]_limiterVars
  <2> SUFFICES ASSUME LimiterIInv, SweepInv, [LimiterNext]_limiterVars
               PROVE  SweepInv' /\ [AnsweredWithRecent]_limiterVars
    OBVIOUS
  <2>1. ASSUME NEW r \in Place, Allow(r)
        PROVE  SweepInv' /\ AnsweredWithRecent
    <3>1. /\ SweepInv'
          /\ \A n \in Net : bucket'[n] # None =>
                call[r].at - bucket'[n].used <= Idle + SweepEvery
      BY <2>1, SweepStep
    <3>2. \A q \in Place : call[q] # NoCall /\ call'[q] = NoCall => q = r
      BY <2>1 DEF Allow, LimiterIInv, LimiterTypeOK
    <3>3. QED
      BY <3>1, <3>2 DEF AnsweredWithRecent
  <2>2. CASE Tick
    <3>1. /\ clock' = clock + 1 /\ call' = call /\ sweptAt' = sweptAt /\ bucket' = bucket
      BY <2>2 DEF Tick
    <3>2. clock \in Nat /\ sweptAt \in Nat \cup {Never}
      BY DEF LimiterIInv, LimiterTypeOK
    <3>3. sweptAt <= clock + 1
      BY <3>2 DEF SweepInv, Never
    <3>4. SweepInv'
      BY <3>1, <3>3 DEF SweepInv
    <3>5. QED
      BY <3>1, <3>4 DEF AnsweredWithRecent
  <2>3. ASSUME NEW r \in Place, NEW c \in Client, NEW forged \in Forged,
               NEW route \in Routes(c, forged), ReadClock(r, c, route)
        PROVE  SweepInv' /\ AnsweredWithRecent
    <3>1. clock \in Nat
      BY DEF LimiterIInv, LimiterTypeOK
    <3>2. /\ clock' = clock /\ sweptAt' = sweptAt /\ bucket' = bucket
          /\ \A q \in Place : call'[q] = NoCall => call[q] = NoCall
      BY <2>3, <3>1 DEF ReadClock, LimiterIInv, LimiterTypeOK, NoCall, Never
    <3>3. QED
      BY <3>2 DEF SweepInv, AnsweredWithRecent
  <2>4. CASE UNCHANGED limiterVars
    BY <2>4 DEF limiterVars, SweepInv
  <2>5. QED
    BY <2>1, <2>2, <2>3, <2>4 DEF LimiterNext
<1>3. QED
  BY <1>1, <1>2, LimiterInvariance, PTL DEF LimiterSpec, SweepsForget
=============================================================================
