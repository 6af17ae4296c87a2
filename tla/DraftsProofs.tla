---------------------------- MODULE DraftsProofs ----------------------------
(***************************************************************************)
(* Proofs about Drafts, for any number of commands, users, mail and ids.   *)
(* The invariant says of each command what it holds (r) and how that       *)
(* relates to the files f, the ids x that two have had, and history; most  *)
(* steps change one command only (Quiet), the others one file too.         *)
(***************************************************************************)
EXTENDS Drafts, TLAPS

\* What a command holds, by its step.
StepOK(r) ==
    /\ r.step \in {"open", "write", "orphan", "ask", "reread", "delete"} => r.id \in Id
    /\ r.step \in {"idle", "edit", "seal", "submit"} => r.id \in 0 .. MaxId
    /\ r.step = "create" => r.id # 0
    /\ r.step \in {"seal", "scan", "create", "open", "write", "orphan", "submit"} =>
           r.text \in Command
    /\ r.step = "submit" => r.to \in User
    /\ r.ask => r.ref # NoMail
    /\ r.step \in {"ask", "reread"} => r.ask

\* A reply is addressed to its party; only what is read again after the question
\* may not be.
AddressOK(r, f, x) ==
    /\ r.ref # NoMail =>
          \/ r.to = Party[r.ref]
          \/ r.step \in {"submit", "delete", "done"} /\ r.id \in x
    /\ r.step \in {"ask", "reread"} /\ r.id \notin x /\ f[r.id] \notin {Absent, Torn} =>
          f[r.id].ref = r.ref

\* The file of a command that edits or sends it holds the text it read, and the
\* file of one that writes it is torn, unless another command has it too.
KnowOK(r, f, x) ==
    r.id \in Id \ x =>
        /\ (r.step \in {"edit", "seal", "open", "submit", "delete"}
            /\ f[r.id] \notin {Absent, Torn}) => f[r.id].text = r.base
        /\ r.step = "write" => f[r.id] = Torn

\* Where texts are: what a command read was saved there; what it is about to
\* write is new, or was read.
TextOK(c, r, s, o, a) ==
    /\ r.step \in {"idle", "edit"} => s[c] = 0
    /\ r.step = "idle" => o[c] = NoText
    /\ r.step # "done" /\ r.base # NoText => r.id \in Id /\ s[r.base] = r.id
    /\ r.step \in {"seal", "open", "write", "orphan"} =>
          \/ r.text = r.base
          \/ r.text = c /\ o[c] = r.base /\ s[c] = 0
    /\ r.step \in {"scan", "create"} =>
          r.text = c /\ s[c] = 0 /\ r.base = NoText /\ o[c] = NoText
    /\ r.step = "submit" =>
          IF r.id = 0 THEN r.text = c /\ s[c] = 0 /\ r.base = NoText /\ o[c] = NoText
                      ELSE r.text = r.base
    /\ r.step = "delete" => \E m \in a : m.text = r.base

CommandOK(c) ==
    /\ StepOK(command[c])
    /\ AddressOK(command[c], files, crossed)
    /\ KnowOK(command[c], files, crossed)
    /\ TextOK(c, command[c], saved, origin, accepted)

\* Ids that two commands have are known; a file is unlinked under a command that
\* writes only by another, or by the user.
CrossInv ==
    /\ Has2(command) \subseteq crossed
    /\ \A c \in Command : At(c, "orphan") => command[c].id \in crossed

HomeInv == \A i \in Id : Readable(i) => saved[files[i].text] = i

IInv ==
    /\ TypeOK /\ CrossInv /\ HomeInv
    /\ \A c \in Command : CommandOK(c)
    /\ TextsKept /\ RepliesGoHome /\ TornExplained

-----------------------------------------------------------------------------
\* A draft is neither of the two other things a file can be.
LEMMA DraftsAreReadable == \A d \in Draft : d \notin {Absent, Torn}
<1>1. SUFFICES ASSUME NEW d \in Draft, d \in {Absent, Torn} PROVE FALSE
  OBVIOUS
<1>2. "text" \in DOMAIN d
  BY DEF Draft
<1>3. DOMAIN d = {"state"}
  BY <1>1 DEF Absent, Torn
<1> QED
  BY <1>2, <1>3

LEMMA ReadableDraft ==
    ASSUME TypeOK, NEW i \in Id, Readable(i)
    PROVE  files[i] \in Draft
  BY DEF TypeOK, Readable

LEMMA AbsentIsNotTorn == Absent # Torn
<1>1. Absent.state # Torn.state
  BY DEF Absent, Torn
<1> QED
  BY <1>1

\* What two commands have is crossed.
LEMMA Shared ==
    ASSUME NEW cmds, NEW x, Has2(cmds) \subseteq x, NEW c \in Command, NEW d \in Command, c # d,
           NEW i \in Id, Has(cmds[c], i), Has(cmds[d], i)
    PROVE  i \in x
  BY DEF Has2

LEMMA Crossing ==
    ASSUME TypeOK, NEW cmds, Go(cmds)
    PROVE  crossed \subseteq crossed' /\ crossed' \subseteq Id /\ Has2(command') \subseteq crossed'
  BY DEF TypeOK, Go, Has2

\* A command that does not move is still all right when the file of an id
\* changes, if the id is crossed or not its own.
LEMMA Bystander ==
    ASSUME TypeOK, NEW r \in Holding, NEW x, AddressOK(r, files, x), KnowOK(r, files, x),
           NEW i \in Id, NEW e, NEW y, x \subseteq y, Has(r, i) => i \in y, StepOK(r)
    PROVE  /\ AddressOK(r, [files EXCEPT ![i] = e], y)
           /\ KnowOK(r, [files EXCEPT ![i] = e], y)
<1>1. CASE r.id = i /\ r.step \notin {"idle", "done", "scan", "create"}
  BY <1>1 DEF Has, AddressOK, KnowOK
<1>2. CASE r.step \in {"idle", "done", "scan", "create"}
  BY <1>2 DEF AddressOK, KnowOK
<1>3. CASE r.id # i
  BY <1>3 DEF AddressOK, KnowOK, TypeOK, Id, StepOK
<1> QED
  BY <1>1, <1>2, <1>3

LEMMA Wider ==
    ASSUME NEW r, NEW f, NEW x, NEW y, x \subseteq y, AddressOK(r, f, x), KnowOK(r, f, x)
    PROVE  AddressOK(r, f, y) /\ KnowOK(r, f, y)
  BY DEF AddressOK, KnowOK

-----------------------------------------------------------------------------
LEMMA InitInvariant == Init => IInv
<1> SUFFICES ASSUME Init PROVE IInv
  OBVIOUS
<1>1. TypeOK
  BY DraftsAssumption DEF Init, TypeOK, Idle, Holding, Absent
<1>2. CrossInv /\ HomeInv /\ TextsKept /\ RepliesGoHome /\ TornExplained
  BY AbsentIsNotTorn DEF Init, CrossInv, Has2, Has, Idle, At, HomeInv, Readable, TextsKept,
     RepliesGoHome, TornExplained
<1>3. ASSUME NEW c \in Command PROVE CommandOK(c)
  BY DraftsAssumption DEF Init, CommandOK, StepOK, AddressOK, KnowOK, TextOK, Idle, Id
<1> QED
  BY <1>1, <1>2, <1>3 DEF IInv

\* One command moves on, and nothing else changes.
LEMMA Quiet ==
    ASSUME IInv, NEW c \in Command, NEW r \in Holding, Advance(c, r),
           UNCHANGED <<files, accepted, saved, origin, removed, broken>>,
           ~At(c, "write"), r.step \notin {"write", "orphan"},
           StepOK(r), AddressOK(r, files, crossed), KnowOK(r, files, crossed),
           TextOK(c, r, saved, origin, accepted)
    PROVE  IInv'
<1>1. command' = [command EXCEPT ![c] = r] /\ command \in [Command -> Holding]
  BY DEF Advance, Go, IInv, TypeOK
<1>2. crossed \subseteq crossed' /\ crossed' \subseteq Id /\ Has2(command') \subseteq crossed'
  BY Crossing DEF Advance, IInv
<1>3. TypeOK'
  BY <1>1, <1>2 DEF IInv, TypeOK
<1>4. CrossInv'
  BY <1>1, <1>2 DEF IInv, CrossInv, At
<1>5. HomeInv' /\ RepliesGoHome'
  BY <1>2 DEF IInv, HomeInv, RepliesGoHome, Readable, TypeOK
<1>6. ASSUME NEW d \in Command PROVE CommandOK(d)'
  <2>1. CASE d = c
    BY <1>1, <1>2, <2>1, Wider DEF CommandOK
  <2>2. CASE d # c
    BY <1>1, <1>2, <2>2, Wider DEF CommandOK, IInv
  <2> QED
    BY <2>1, <2>2
<1>7. \A d \in Command : At(d, "write") => At(d, "write")' /\ command'[d] = command[d]
  BY <1>1 DEF At
<1>8. TextsKept'
  BY <1>2, <1>7 DEF IInv, TextsKept, Readable
<1>9. TornExplained'
  BY <1>7 DEF IInv, TornExplained
<1> QED
  BY <1>3, <1>4, <1>5, <1>6, <1>8, <1>9 DEF IInv

-----------------------------------------------------------------------------
\* Commands begin.

LEMMA BeginQuiet ==
    ASSUME IInv, NEW c \in Command, NEW r \in Holding, Begin(c, r),
           r.step \in {"edit", "seal", "submit"},
           StepOK(r), AddressOK(r, files, crossed), KnowOK(r, files, crossed),
           TextOK(c, r, saved, origin, accepted)
    PROVE  IInv'
  BY Quiet DEF Begin, At

\* The text of a command that is idle is not written yet.
LEMMA IdleText ==
    ASSUME IInv, NEW c \in Command, At(c, "idle")
    PROVE  saved[c] = 0 /\ origin[c] = NoText
  BY DEF IInv, CommandOK, TextOK, At

LEMMA IdleHolding ==
    /\ Idle \in Holding
    /\ Idle.id = 0 /\ Idle.base = NoText /\ Idle.text = NoText
    /\ Idle.ref = NoMail /\ Idle.to = Nobody /\ Idle.ask = FALSE
  BY DraftsAssumption DEF Idle, Holding

LEMMA HoldingDraftOK ==
    ASSUME IInv, NEW c \in Command, NEW i \in Id, Readable(i),
           NEW step \in {"edit", "seal", "submit"}
    PROVE  LET r == HoldingDraft(i, step) IN
           /\ r \in Holding /\ files[i] \in Draft
           /\ r.step = step /\ r.id = i /\ r.id # 0 /\ r.base = files[i].text /\ r.text = files[i].text
           /\ r.ref = files[i].ref /\ r.to = files[i].to /\ r.ask = FALSE
           /\ r.base \in Command /\ saved[r.base] = i
           /\ r.ref # NoMail => r.to = Party[r.ref] /\ r.to \in User
<1>1. files[i] \in Draft
  BY ReadableDraft DEF IInv
<1>2. saved[files[i].text] = i /\ (files[i].ref # NoMail => files[i].to = Party[files[i].ref])
  BY DEF IInv, HomeInv, RepliesGoHome
<1>3. i \in 0 .. MaxId + 1 /\ i # 0
  BY DraftsAssumption DEF Id
<1>4. files[i].text \in Command /\ files[i].ref \in Mail \cup {NoMail} /\ files[i].to \in User \cup {Nobody}
  BY <1>1 DEF Draft
<1>5. files[i].ref # NoMail => Party[files[i].ref] \in User
  BY <1>4, DraftsAssumption
<1> DEFINE r == HoldingDraft(i, step)
<1>6. /\ r \in Holding /\ r.step = step /\ r.id = i
      /\ r.base = files[i].text /\ r.text = files[i].text
      /\ r.ref = files[i].ref /\ r.to = files[i].to /\ r.ask = FALSE
  BY <1>3, <1>4, IdleHolding DEF HoldingDraft, Holding
<1> HIDE DEF r
<1> QED
  BY <1>1, <1>2, <1>3, <1>4, <1>5, <1>6 DEF r

LEMMA ComposeKeeps ==
    ASSUME IInv, NEW c \in Command, Compose(c)
    PROVE  IInv'
<1>0. At(c, "idle")
  BY DEF Compose, Begin
<1>1. CASE Begin(c, [Idle EXCEPT !.step = "edit"])
  <2> DEFINE r == [Idle EXCEPT !.step = "edit"]
  <2>1. r \in Holding /\ r.step = "edit" /\ r.id = 0 /\ r.base = NoText /\ r.ref = NoMail /\ r.ask = FALSE
    BY IdleHolding, DraftsAssumption DEF Holding
  <2>2. StepOK(r) /\ AddressOK(r, files, crossed) /\ KnowOK(r, files, crossed)
        /\ TextOK(c, r, saved, origin, accepted)
    BY <2>1, <1>0, IdleText, DraftsAssumption DEF StepOK, AddressOK, KnowOK, TextOK, Id
  <2> HIDE DEF r
  <2> QED
    BY <1>1, <2>1, <2>2, BeginQuiet DEF r
<1>2. ASSUME NEW i \in Id, Readable(i), Begin(c, HoldingDraft(i, "edit")) PROVE IInv'
  <2> DEFINE r == HoldingDraft(i, "edit")
  <2>1. /\ r \in Holding /\ r.step = "edit" /\ r.id = i /\ r.base = files[i].text /\ r.ask = FALSE
        /\ saved[r.base] = i /\ (r.ref # NoMail => r.to = Party[r.ref])
    BY <1>2, HoldingDraftOK
  <2> HIDE DEF r
  <2>2. StepOK(r) /\ AddressOK(r, files, crossed) /\ KnowOK(r, files, crossed)
        /\ TextOK(c, r, saved, origin, accepted)
    BY <2>1, <1>0, IdleText, DraftsAssumption DEF StepOK, AddressOK, KnowOK, TextOK, Id
  <2> QED
    BY <1>2, <2>1, <2>2, BeginQuiet DEF r
<1> QED
  BY <1>1, <1>2 DEF Compose

LEMMA ReplyKeeps ==
    ASSUME IInv, NEW c \in Command, Reply(c)
    PROVE  IInv'
<1>0. At(c, "idle")
  BY DEF Reply, Begin
<1>1. ASSUME NEW m \in Mail,
             Begin(c, [Idle EXCEPT !.step = "edit", !.ref = m, !.to = Party[m], !.ask = TRUE])
      PROVE  IInv'
  <2> DEFINE r == [Idle EXCEPT !.step = "edit", !.ref = m, !.to = Party[m], !.ask = TRUE]
  <2>1. /\ r \in Holding /\ r.step = "edit" /\ r.id = 0 /\ r.base = NoText
        /\ r.ref = m /\ r.to = Party[m]
    BY IdleHolding, DraftsAssumption DEF Holding
  <2> HIDE DEF r
  <2>2. StepOK(r) /\ AddressOK(r, files, crossed) /\ KnowOK(r, files, crossed)
        /\ TextOK(c, r, saved, origin, accepted)
    BY <2>1, <1>0, IdleText, DraftsAssumption DEF StepOK, AddressOK, KnowOK, TextOK, Id
  <2> QED
    BY <1>1, <2>1, <2>2, BeginQuiet DEF r
<1>2. ASSUME NEW m \in Mail, NEW i \in Id, Readable(i),
             Begin(c, [HoldingDraft(i, "seal") EXCEPT !.ref = m, !.to = Party[m], !.ask = TRUE])
      PROVE  IInv'
  <2> DEFINE h == HoldingDraft(i, "seal")
             r == [h EXCEPT !.ref = m, !.to = Party[m], !.ask = TRUE]
  <2>1. /\ h \in Holding /\ h.step = "seal" /\ h.id = i /\ h.base = files[i].text
        /\ h.text = files[i].text /\ h.base \in Command /\ saved[h.base] = i
    BY <1>2, HoldingDraftOK
  <2>2. r \in Holding /\ r.step = "seal" /\ r.id = i /\ r.base = h.base /\ r.text = h.text
        /\ r.ref = m /\ r.to = Party[m]
    <3> HIDE DEF h
    <3> QED
      BY <2>1, DraftsAssumption DEF Holding
  <2> HIDE DEF r, h
  <2>3. StepOK(r) /\ AddressOK(r, files, crossed) /\ KnowOK(r, files, crossed)
        /\ TextOK(c, r, saved, origin, accepted)
    BY <2>1, <2>2, DraftsAssumption DEF StepOK, AddressOK, KnowOK, TextOK, Id
  <2> QED
    BY <1>2, <2>2, <2>3, BeginQuiet DEF r, h
<1> QED
  BY <1>1, <1>2 DEF Reply

LEMMA SendTextKeeps ==
    ASSUME IInv, NEW c \in Command, SendText(c)
    PROVE  IInv'
<1>0. At(c, "idle")
  BY DEF SendText, Begin
<1> DEFINE h == [Idle EXCEPT !.step = "submit", !.text = c]
<1>1. /\ h \in Holding /\ h.step = "submit" /\ h.id = 0 /\ h.base = NoText /\ h.text = c
      /\ h.ref = NoMail /\ h.ask = FALSE
  BY IdleHolding, DraftsAssumption DEF Holding
<1>2. ASSUME NEW u \in User, Begin(c, [h EXCEPT !.to = u]) PROVE IInv'
  <2> HIDE DEF h
  <2> DEFINE r == [h EXCEPT !.to = u]
  <2>1. /\ r \in Holding /\ r.step = "submit" /\ r.id = 0 /\ r.base = NoText /\ r.text = c
        /\ r.ref = NoMail /\ r.ask = FALSE /\ r.to = u
    BY <1>1 DEF Holding
  <2> HIDE DEF r
  <2>2. StepOK(r) /\ AddressOK(r, files, crossed) /\ KnowOK(r, files, crossed)
        /\ TextOK(c, r, saved, origin, accepted)
    BY <2>1, <1>0, IdleText, DraftsAssumption DEF StepOK, AddressOK, KnowOK, TextOK, Id
  <2> QED
    BY <1>2, <2>1, <2>2, BeginQuiet DEF r
<1>3. ASSUME NEW m \in Mail, Begin(c, [h EXCEPT !.ref = m, !.to = Party[m]]) PROVE IInv'
  <2> HIDE DEF h
  <2> DEFINE r == [h EXCEPT !.ref = m, !.to = Party[m]]
  <2>1. /\ r \in Holding /\ r.step = "submit" /\ r.id = 0 /\ r.base = NoText /\ r.text = c
        /\ r.ref = m /\ r.ask = FALSE /\ r.to = Party[m] /\ r.to \in User
    BY <1>1, DraftsAssumption DEF Holding
  <2> HIDE DEF r
  <2>2. StepOK(r) /\ AddressOK(r, files, crossed) /\ KnowOK(r, files, crossed)
        /\ TextOK(c, r, saved, origin, accepted)
    BY <2>1, <1>0, IdleText, DraftsAssumption DEF StepOK, AddressOK, KnowOK, TextOK, Id
  <2> QED
    BY <1>3, <2>1, <2>2, BeginQuiet DEF r
<1> QED
  BY <1>2, <1>3 DEF SendText

LEMMA SendDraftKeeps ==
    ASSUME IInv, NEW c \in Command, SendDraft(c)
    PROVE  IInv'
<1>1. PICK i \in Id :
        /\ Readable(i)
        /\ \/ files[i].to # Nobody /\ Begin(c, HoldingDraft(i, "submit"))
           \/ \E u \in User : /\ files[i].ref # NoMail => u = files[i].to
                              /\ Begin(c, [HoldingDraft(i, "submit") EXCEPT !.to = u])
  BY DEF SendDraft
<1> DEFINE h == HoldingDraft(i, "submit")
<1>2. /\ h \in Holding /\ files[i] \in Draft
      /\ h.step = "submit" /\ h.id = i /\ h.id # 0 /\ h.base = files[i].text
      /\ h.text = files[i].text /\ h.ref = files[i].ref /\ h.to = files[i].to /\ h.ask = FALSE
      /\ h.base \in Command /\ saved[h.base] = i
      /\ h.ref # NoMail => h.to = Party[h.ref] /\ h.to \in User
  BY <1>1, HoldingDraftOK
<1> HIDE DEF h
<1>3. CASE files[i].to # Nobody /\ Begin(c, h)
  <2>1. h.to \in User
    BY <1>2, <1>3 DEF Draft
  <2>2. StepOK(h) /\ AddressOK(h, files, crossed) /\ KnowOK(h, files, crossed)
        /\ TextOK(c, h, saved, origin, accepted)
    BY <1>2, <2>1, DraftsAssumption DEF StepOK, AddressOK, KnowOK, TextOK, Id
  <2> QED
    BY <1>2, <1>3, <2>2, BeginQuiet
<1>4. ASSUME NEW u \in User, files[i].ref # NoMail => u = files[i].to,
             Begin(c, [h EXCEPT !.to = u])
      PROVE  IInv'
  <2> DEFINE r == [h EXCEPT !.to = u]
  <2>1. /\ r \in Holding /\ r.step = "submit" /\ r.id = i /\ r.id # 0 /\ r.base = h.base
        /\ r.text = h.text /\ r.ref = h.ref /\ r.to = u /\ r.ask = FALSE
    BY <1>2 DEF Holding
  <2> HIDE DEF r
  <2>2. StepOK(r) /\ AddressOK(r, files, crossed) /\ KnowOK(r, files, crossed)
        /\ TextOK(c, r, saved, origin, accepted)
    BY <1>2, <1>4, <2>1, DraftsAssumption DEF StepOK, AddressOK, KnowOK, TextOK, Id
  <2> QED
    BY <1>4, <2>1, <2>2, BeginQuiet DEF r
<1> QED
  BY <1>1, <1>3, <1>4 DEF h

-----------------------------------------------------------------------------
\* A command that ends.
LEMMA Ends ==
    ASSUME IInv, NEW c \in Command, GoTo(c, "done"),
           UNCHANGED <<files, accepted, saved, origin, removed, broken>>, ~At(c, "write")
    PROVE  IInv'
<1> DEFINE r == [command[c] EXCEPT !.step = "done"]
<1>1. command[c] \in Holding /\ CommandOK(c)
  BY DEF IInv, TypeOK
<1>2. /\ r \in Holding /\ r.step = "done" /\ r.id = command[c].id /\ r.ref = command[c].ref
      /\ r.to = command[c].to /\ r.ask = command[c].ask
  BY <1>1 DEF Holding
<1>3. Advance(c, r)
  BY DEF GoTo
<1> HIDE DEF r
<1>4. StepOK(r) /\ AddressOK(r, files, crossed) /\ KnowOK(r, files, crossed)
      /\ TextOK(c, r, saved, origin, accepted)
  BY <1>1, <1>2 DEF CommandOK, StepOK, AddressOK, KnowOK, TextOK
<1> QED
  BY <1>2, <1>3, <1>4, Quiet

LEMMA SealKeeps ==
    ASSUME IInv, NEW c \in Command, Seal(c)
    PROVE  IInv'
<1>0. /\ At(c, "seal") /\ ~At(c, "write") /\ command[c] \in Holding /\ CommandOK(c)
      /\ UNCHANGED <<files, accepted, saved, origin, removed, broken>>
  BY DEF Seal, IInv, TypeOK, At
<1>1. CASE GoTo(c, "done")
  BY <1>0, <1>1, Ends
<1>2. CASE command[c].id = 0 /\ GoTo(c, "scan")
  <2> DEFINE r == [command[c] EXCEPT !.step = "scan"]
  <2>1. /\ r \in Holding /\ r.step = "scan" /\ r.id = command[c].id /\ r.ref = command[c].ref
        /\ r.to = command[c].to /\ r.ask = command[c].ask /\ r.base = command[c].base
        /\ r.text = command[c].text /\ Advance(c, r)
    BY <1>0, <1>2 DEF Holding, GoTo
  <2> HIDE DEF r
  <2>2. StepOK(r) /\ AddressOK(r, files, crossed) /\ KnowOK(r, files, crossed)
        /\ TextOK(c, r, saved, origin, accepted)
    BY <1>0, <1>2, <2>1, DraftsAssumption
    DEF CommandOK, StepOK, AddressOK, KnowOK, TextOK, At, Id
  <2> QED
    BY <1>0, <2>1, <2>2, Quiet
<1>3. CASE command[c].id # 0 /\ GoTo(c, "open")
  <2> DEFINE r == [command[c] EXCEPT !.step = "open"]
  <2>1. /\ r \in Holding /\ r.step = "open" /\ r.id = command[c].id /\ r.ref = command[c].ref
        /\ r.to = command[c].to /\ r.ask = command[c].ask /\ r.base = command[c].base
        /\ r.text = command[c].text /\ Advance(c, r)
    BY <1>0, <1>3 DEF Holding, GoTo
  <2> HIDE DEF r
  <2>2. StepOK(r) /\ AddressOK(r, files, crossed) /\ KnowOK(r, files, crossed)
        /\ TextOK(c, r, saved, origin, accepted)
    BY <1>0, <1>3, <2>1, DraftsAssumption
    DEF CommandOK, StepOK, AddressOK, KnowOK, TextOK, At, Id
  <2> QED
    BY <1>0, <2>1, <2>2, Quiet
<1> QED
  BY <1>1, <1>2, <1>3 DEF Seal

LEMMA ScanKeeps ==
    ASSUME IInv, NEW c \in Command, Scan(c)
    PROVE  IInv'
<1>0. /\ At(c, "scan") /\ ~At(c, "write") /\ command[c] \in Holding /\ CommandOK(c)
      /\ UNCHANGED <<files, accepted, saved, origin, removed, broken>>
  BY DEF Scan, IInv, TypeOK, At
<1>1. PICK i \in 1 .. MaxId + 1 : Advance(c, [command[c] EXCEPT !.step = "create", !.id = i])
  BY DEF Scan
<1> DEFINE r == [command[c] EXCEPT !.step = "create", !.id = i]
<1>2. i \in 0 .. MaxId + 1 /\ i # 0
  BY DraftsAssumption
<1>3. /\ r \in Holding /\ r.step = "create" /\ r.id = i /\ r.ref = command[c].ref
      /\ r.to = command[c].to /\ r.ask = command[c].ask /\ r.base = command[c].base
      /\ r.text = command[c].text /\ Advance(c, r)
  BY <1>0, <1>1, <1>2 DEF Holding
<1> HIDE DEF r
<1>4. StepOK(r) /\ AddressOK(r, files, crossed) /\ KnowOK(r, files, crossed)
      /\ TextOK(c, r, saved, origin, accepted)
  BY <1>0, <1>2, <1>3 DEF CommandOK, StepOK, AddressOK, KnowOK, TextOK, At
<1> QED
  BY <1>0, <1>3, <1>4, Quiet

LEMMA AskKeeps ==
    ASSUME IInv, NEW c \in Command, Ask(c)
    PROVE  IInv'
<1>0. /\ At(c, "ask") /\ ~At(c, "write") /\ command[c] \in Holding /\ CommandOK(c)
      /\ UNCHANGED <<files, accepted, saved, origin, removed, broken>>
  BY DEF Ask, IInv, TypeOK, At
<1>1. CASE GoTo(c, "done")
  BY <1>0, <1>1, Ends
<1>2. CASE GoTo(c, "reread")
  <2> DEFINE r == [command[c] EXCEPT !.step = "reread"]
  <2>1. /\ r \in Holding /\ r.step = "reread" /\ r.id = command[c].id /\ r.ref = command[c].ref
        /\ r.to = command[c].to /\ r.ask = command[c].ask /\ r.base = command[c].base
        /\ r.text = command[c].text /\ Advance(c, r)
    BY <1>0, <1>2 DEF Holding, GoTo
  <2> HIDE DEF r
  <2>2. StepOK(r) /\ AddressOK(r, files, crossed) /\ KnowOK(r, files, crossed)
        /\ TextOK(c, r, saved, origin, accepted)
    BY <1>0, <2>1 DEF CommandOK, StepOK, AddressOK, KnowOK, TextOK, At
  <2> QED
    BY <1>0, <2>1, <2>2, Quiet
<1> QED
  BY <1>1, <1>2 DEF Ask

LEMMA RereadKeeps ==
    ASSUME IInv, NEW c \in Command, Reread(c)
    PROVE  IInv'
<1>0. /\ At(c, "reread") /\ ~At(c, "write") /\ command[c] \in Holding /\ CommandOK(c)
      /\ UNCHANGED <<files, accepted, saved, origin, removed, broken>>
  BY DEF Reread, IInv, TypeOK, At
<1>1. CASE GoTo(c, "done")
  BY <1>0, <1>1, Ends
<1> DEFINE i == command[c].id
           h == HoldingDraft(i, "submit")
           r == [h EXCEPT !.to = command[c].to]
<1>2. CASE Readable(i) /\ files[i].ref # NoMail /\ Advance(c, r)
  <2>1. /\ i \in Id /\ command[c].ref # NoMail /\ command[c].to = Party[command[c].ref]
        /\ (i \notin crossed => files[i].ref = command[c].ref)
    BY <1>0, <1>2 DEF CommandOK, StepOK, AddressOK, At, Readable
  <2>2. command[c].to \in User
    BY <1>0, <2>1, DraftsAssumption DEF Holding
  <2>3. /\ h \in Holding /\ h.step = "submit" /\ h.id = i /\ h.id # 0 /\ h.base = files[i].text
        /\ h.text = files[i].text /\ h.ref = files[i].ref /\ h.ask = FALSE
        /\ h.base \in Command /\ saved[h.base] = i
    BY <1>2, <2>1, HoldingDraftOK
  <2> HIDE DEF h
  <2>4. /\ r \in Holding /\ r.step = "submit" /\ r.id = i /\ r.id # 0 /\ r.base = h.base
        /\ r.text = h.text /\ r.ref = h.ref /\ r.to = command[c].to /\ r.ask = FALSE
    BY <2>2, <2>3 DEF Holding
  <2> HIDE DEF r
  <2>5. StepOK(r) /\ AddressOK(r, files, crossed) /\ KnowOK(r, files, crossed)
        /\ TextOK(c, r, saved, origin, accepted)
    BY <2>1, <2>2, <2>3, <2>4, DraftsAssumption DEF StepOK, AddressOK, KnowOK, TextOK, Id
  <2> QED
    BY <1>0, <1>2, <2>4, <2>5, Quiet
<1> QED
  BY <1>1, <1>2 DEF Reread

-----------------------------------------------------------------------------
\* Steps that change history or what was accepted, but no file.

LEMMA EditKeeps ==
    ASSUME IInv, NEW c \in Command, Edit(c)
    PROVE  IInv'
<1>0. /\ At(c, "edit") /\ ~At(c, "write") /\ command[c] \in Holding /\ CommandOK(c)
      /\ UNCHANGED <<files, accepted, saved, removed, broken>>
  BY DEF Edit, IInv, TypeOK, At
<1>1. CASE GoTo(c, "done") /\ UNCHANGED origin
  BY <1>0, <1>1, Ends
<1>2. ASSUME NEW u \in User \cup {Nobody},
             command[c].ref # NoMail => u = command[c].to,
             Advance(c, [command[c] EXCEPT !.step = "seal", !.text = c, !.to = u]),
             origin' = [origin EXCEPT ![c] = command[c].base]
      PROVE  IInv'
  <2> DEFINE r == [command[c] EXCEPT !.step = "seal", !.text = c, !.to = u]
  <2>1. /\ r \in Holding /\ r.step = "seal" /\ r.id = command[c].id /\ r.ref = command[c].ref
        /\ r.to = u /\ r.ask = command[c].ask /\ r.base = command[c].base
        /\ r.text = c /\ Advance(c, r)
    BY <1>0, <1>2 DEF Holding
  <2> HIDE DEF r
  <2>2. saved[c] = 0 /\ origin'[c] = r.base /\ command[c].base \in Command \cup {NoText}
    BY <1>0, <1>2, <2>1 DEF CommandOK, TextOK, At, Holding, IInv, TypeOK
  <2>3. StepOK(r) /\ AddressOK(r, files, crossed) /\ KnowOK(r, files, crossed)
        /\ TextOK(c, r, saved, origin', accepted)
    BY <1>0, <1>2, <2>1, <2>2 DEF CommandOK, StepOK, AddressOK, KnowOK, TextOK, At
  <2>4. command' = [command EXCEPT ![c] = r] /\ command \in [Command -> Holding]
    BY <2>1 DEF Advance, Go, IInv, TypeOK
  <2>5. crossed \subseteq crossed' /\ crossed' \subseteq Id /\ Has2(command') \subseteq crossed'
    BY <2>1, Crossing DEF Advance, IInv
  <2>6. TypeOK'
    BY <1>0, <1>2, <2>1, <2>2, <2>4, <2>5 DEF IInv, TypeOK
  <2>7. CrossInv'
    BY <2>1, <2>4, <2>5 DEF IInv, CrossInv, At
  <2>8. HomeInv' /\ RepliesGoHome'
    BY <1>0, <2>5 DEF IInv, HomeInv, RepliesGoHome, Readable
  <2>9. ASSUME NEW d \in Command PROVE CommandOK(d)'
    <3>1. CASE d = c
      BY <1>0, <2>3, <2>4, <2>5, <3>1, Wider DEF CommandOK
    <3>2. CASE d # c
      <4>1. command'[d] = command[d] /\ origin'[d] = origin[d] /\ CommandOK(d)
        BY <1>2, <2>4, <3>2 DEF IInv, TypeOK
      <4>2. TextOK(d, command[d], saved, origin', accepted)
        BY <4>1 DEF CommandOK, TextOK
      <4> QED
        BY <1>0, <2>5, <4>1, <4>2, Wider DEF CommandOK
    <3> QED
      BY <3>1, <3>2
  <2>10. \A d \in Command : At(d, "write") => At(d, "write")' /\ command'[d] = command[d]
    BY <1>0, <2>4 DEF At
  <2>11. \A u2 \in Command : saved[u2] # 0 => origin'[u2] = origin[u2]
    BY <1>2, <2>2 DEF IInv, TypeOK
  <2>12. TextsKept'
    BY <1>0, <2>5, <2>10, <2>11 DEF IInv, TextsKept, Readable
  <2>13. TornExplained'
    BY <1>0, <2>10 DEF IInv, TornExplained
  <2> QED
    BY <2>6, <2>7, <2>8, <2>9, <2>12, <2>13 DEF IInv
<1> QED
  BY <1>1, <1>2 DEF Edit

LEMMA SubmitKeeps ==
    ASSUME IInv, NEW c \in Command, Submit(c)
    PROVE  IInv'
<1>0. /\ At(c, "submit") /\ ~At(c, "write") /\ command[c] \in Holding /\ CommandOK(c)
      /\ UNCHANGED <<files, saved, origin, removed, broken>>
  BY DEF Submit, IInv, TypeOK, At
<1>1. /\ command[c].text \in Command /\ command[c].to \in User /\ command[c].id \in 0 .. MaxId
      /\ command[c].ref \in Mail \cup {NoMail}
  BY <1>0 DEF CommandOK, StepOK, At, Holding
<1>2. Submission(c) \in Sent /\ Submission(c).text = command[c].text
  BY <1>1 DEF Submission, Sent
<1>3. crossed \subseteq Id /\ 0 \notin crossed
  BY DraftsAssumption DEF IInv, TypeOK, Id
<1>4. Submission(c).ref # NoMail /\ Submission(c).id \notin crossed =>
        Submission(c).to = Party[Submission(c).ref]
  BY <1>0 DEF CommandOK, AddressOK, At, Submission
<1>5. accepted \subseteq accepted' /\ accepted' \subseteq accepted \cup {Submission(c)}
  BY DEF Submit
<1>6. PICK step \in {"delete", "done", "seal"} :
        /\ GoTo(c, step)
        /\ step = "delete" => command[c].id # 0 /\ Submission(c) \in accepted'
        /\ step = "seal" => command[c].id = 0
  BY DEF Submit
<1> DEFINE r == [command[c] EXCEPT !.step = step]
<1>7. /\ r \in Holding /\ r.step = step /\ r.id = command[c].id /\ r.ref = command[c].ref
      /\ r.to = command[c].to /\ r.ask = command[c].ask /\ r.base = command[c].base
      /\ r.text = command[c].text /\ Advance(c, r)
  BY <1>0, <1>6 DEF Holding, GoTo
<1> HIDE DEF r
<1>8. StepOK(r) /\ AddressOK(r, files, crossed) /\ KnowOK(r, files, crossed)
  BY <1>0, <1>1, <1>3, <1>6, <1>7, DraftsAssumption
  DEF CommandOK, StepOK, AddressOK, KnowOK, At, Id
<1>9. TextOK(c, r, saved, origin, accepted')
  BY <1>0, <1>2, <1>6, <1>7 DEF CommandOK, TextOK, At
<1>10. command' = [command EXCEPT ![c] = r] /\ command \in [Command -> Holding]
  BY <1>7 DEF Advance, Go, IInv, TypeOK
<1>11. crossed \subseteq crossed' /\ crossed' \subseteq Id /\ Has2(command') \subseteq crossed'
  BY <1>7, Crossing DEF Advance, IInv
<1>12. TypeOK'
  BY <1>0, <1>2, <1>5, <1>7, <1>10, <1>11 DEF IInv, TypeOK
<1>13. CrossInv'
  BY <1>6, <1>7, <1>10, <1>11 DEF IInv, CrossInv, At
<1>14. HomeInv' /\ RepliesGoHome'
  BY <1>0, <1>4, <1>5, <1>11 DEF IInv, HomeInv, RepliesGoHome, Readable
<1>15. ASSUME NEW d \in Command PROVE CommandOK(d)'
  <2>1. CASE d = c
    BY <1>0, <1>8, <1>9, <1>10, <1>11, <2>1, Wider DEF CommandOK
  <2>2. CASE d # c
    <3>1. command'[d] = command[d] /\ CommandOK(d)
      BY <1>10, <2>2 DEF IInv
    <3>2. TextOK(d, command[d], saved, origin, accepted')
      BY <1>5, <3>1 DEF CommandOK, TextOK
    <3> QED
      BY <1>0, <1>11, <3>1, <3>2, Wider DEF CommandOK
  <2> QED
    BY <2>1, <2>2
<1>16. \A d \in Command : At(d, "write") => At(d, "write")' /\ command'[d] = command[d]
  BY <1>0, <1>10 DEF At
<1>17. TextsKept'
  BY <1>0, <1>5, <1>11, <1>16 DEF IInv, TextsKept, Readable
<1>18. TornExplained'
  BY <1>0, <1>16 DEF IInv, TornExplained
<1> QED
  BY <1>12, <1>13, <1>14, <1>15, <1>17, <1>18 DEF IInv

LEMMA KillKeeps ==
    ASSUME IInv, NEW c \in Command, Kill(c)
    PROVE  IInv'
<1>0. /\ command[c] \in Holding /\ CommandOK(c) /\ GoTo(c, "done") /\ broken \subseteq broken'
      /\ (At(c, "write") => command[c].id \in broken' /\ command[c].id \in Id)
      /\ broken' \subseteq Id
      /\ UNCHANGED <<files, accepted, saved, origin, removed>>
  BY DEF Kill, IInv, TypeOK, At, CommandOK, StepOK
<1> DEFINE r == [command[c] EXCEPT !.step = "done"]
<1>1. /\ r \in Holding /\ r.step = "done" /\ r.id = command[c].id /\ r.ref = command[c].ref
      /\ r.to = command[c].to /\ r.ask = command[c].ask /\ Advance(c, r)
  BY <1>0 DEF Holding, GoTo
<1> HIDE DEF r
<1>2. StepOK(r) /\ AddressOK(r, files, crossed) /\ KnowOK(r, files, crossed)
      /\ TextOK(c, r, saved, origin, accepted)
  BY <1>0, <1>1 DEF CommandOK, StepOK, AddressOK, KnowOK, TextOK
<1>3. command' = [command EXCEPT ![c] = r] /\ command \in [Command -> Holding]
  BY <1>1 DEF Advance, Go, IInv, TypeOK
<1>4. crossed \subseteq crossed' /\ crossed' \subseteq Id /\ Has2(command') \subseteq crossed'
  BY <1>1, Crossing DEF Advance, IInv
<1>5. TypeOK'
  BY <1>0, <1>1, <1>3, <1>4 DEF IInv, TypeOK
<1>6. CrossInv'
  BY <1>1, <1>3, <1>4 DEF IInv, CrossInv, At
<1>7. HomeInv' /\ RepliesGoHome'
  BY <1>0, <1>4 DEF IInv, HomeInv, RepliesGoHome, Readable
<1>8. ASSUME NEW d \in Command PROVE CommandOK(d)'
  <2>1. CASE d = c
    BY <1>0, <1>2, <1>3, <1>4, <2>1, Wider DEF CommandOK
  <2>2. CASE d # c
    BY <1>0, <1>3, <1>4, <2>2, Wider DEF CommandOK, IInv
  <2> QED
    BY <2>1, <2>2
<1>9. \A d \in Command : At(d, "write") =>
        (At(d, "write")' /\ command'[d] = command[d]) \/ command[d].id \in broken'
  BY <1>0, <1>3 DEF At
<1>10. TextsKept'
  BY <1>0, <1>4, <1>9 DEF IInv, TextsKept, Readable
<1>11. TornExplained'
  BY <1>0, <1>9 DEF IInv, TornExplained
<1> QED
  BY <1>5, <1>6, <1>7, <1>8, <1>10, <1>11 DEF IInv

-----------------------------------------------------------------------------
\* Steps that change a file.

\* A command opens a file to write it; it had read the text that is lost.
LEMMA Tears ==
    ASSUME IInv, NEW c \in Command, NEW i \in Id, GoTo(c, "write"), command[c].id = i,
           files' = [files EXCEPT ![i] = Torn],
           UNCHANGED <<accepted, saved, origin, removed, broken>>,
           At(c, "create") \/ At(c, "open"),
           Readable(i) /\ i \notin crossed => files[i].text = command[c].base
    PROVE  IInv'
<1>0. command[c] \in Holding /\ CommandOK(c) /\ command \in [Command -> Holding]
  BY DEF IInv, TypeOK
<1> DEFINE r == [command[c] EXCEPT !.step = "write"]
<1>1. /\ r \in Holding /\ r.step = "write" /\ r.id = i /\ r.ref = command[c].ref
      /\ r.to = command[c].to /\ r.ask = command[c].ask /\ r.base = command[c].base
      /\ r.text = command[c].text /\ Advance(c, r)
  BY <1>0 DEF Holding, GoTo
<1> HIDE DEF r
<1>2. command' = [command EXCEPT ![c] = r] /\ command'[c] = r
  BY <1>0, <1>1 DEF Advance, Go
<1>3. crossed \subseteq crossed' /\ crossed' \subseteq Id /\ Has2(command') \subseteq crossed'
  BY <1>1, Crossing DEF Advance, IInv
<1>4. files'[i] = Torn /\ \A j \in Id \ {i} : files'[j] = files[j]
  BY DEF IInv, TypeOK
<1>5. TypeOK'
  BY <1>1, <1>2, <1>3 DEF IInv, TypeOK
<1>6. CrossInv'
  BY <1>0, <1>1, <1>2, <1>3 DEF IInv, CrossInv, At
<1>7. HomeInv' /\ RepliesGoHome'
  BY <1>3, <1>4 DEF IInv, HomeInv, RepliesGoHome, Readable
<1>8. CommandOK(c)'
  <2>1. StepOK(r)
    BY <1>0, <1>1 DEF CommandOK, StepOK, At
  <2>2. AddressOK(r, files', crossed') /\ KnowOK(r, files', crossed')
    BY <1>0, <1>1, <1>4 DEF CommandOK, AddressOK, KnowOK, At
  <2>3. TextOK(c, r, saved, origin, accepted)
    BY <1>0, <1>1 DEF CommandOK, TextOK, At
  <2> QED
    BY <1>2, <2>1, <2>2, <2>3 DEF CommandOK
<1>9. ASSUME NEW d \in Command, d # c PROVE CommandOK(d)'
  <2>1. command'[d] = command[d] /\ command[d] \in Holding /\ CommandOK(d)
    BY <1>0, <1>2, <1>9 DEF IInv
  <2>2. Has(command'[c], i)
    BY <1>1, <1>2 DEF Has
  <2>3. Has(command[d], i) => i \in crossed'
    BY <1>3, <1>9, <2>1, <2>2, Shared
  <2>4. AddressOK(command[d], files', crossed') /\ KnowOK(command[d], files', crossed')
    BY <1>3, <2>1, <2>3, Bystander DEF CommandOK, IInv
  <2> QED
    BY <2>1, <2>4 DEF CommandOK
<1>10. \A d \in Command : At(d, "write") => At(d, "write")' /\ command'[d] = command[d]
  BY <1>0, <1>2 DEF At
<1>11. At(c, "write")' /\ command'[c].id = i /\ command'[c].base = command[c].base
  BY <1>1, <1>2 DEF At
<1>12. TextsKept'
  <2> SUFFICES ASSUME NEW t \in Command, saved[t] # 0, saved[t] \notin broken \cup crossed'
               PROVE  TextsKept!(t)!2'
    BY DEF TextsKept
  <2>1. TextsKept!(t)!2
    BY <1>3 DEF IInv, TextsKept
  <2>2. saved[t] \in Id
    BY DEF IInv, TypeOK, Id
  <2>3. CASE saved[t] = i /\ Readable(i) /\ files[i].text = t
    BY <1>3, <1>11, <2>3
  <2>4. CASE saved[t] # i /\ Readable(saved[t]) /\ files[saved[t]].text = t
    BY <1>4, <2>2, <2>4 DEF Readable
  <2> QED
    BY <1>10, <2>1, <2>3, <2>4
<1>13. TornExplained'
  BY <1>4, <1>10, <1>11 DEF IInv, TornExplained
<1> QED
  BY <1>5, <1>6, <1>7, <1>8, <1>9, <1>12, <1>13 DEF IInv

LEMMA CreateKeeps ==
    ASSUME IInv, NEW c \in Command, Create(c)
    PROVE  IInv'
<1>0. /\ At(c, "create") /\ ~At(c, "write") /\ command[c] \in Holding /\ CommandOK(c)
      /\ UNCHANGED <<accepted, saved, origin, removed, broken>>
  BY DEF Create, IInv, TypeOK, At
<1> DEFINE i == command[c].id
<1>1. CASE GoTo(c, "done") /\ UNCHANGED files
  BY <1>0, <1>1, Ends
<1>2. CASE /\ i \in Id /\ files[i] = Absent /\ GoTo(c, "write")
           /\ files' = [files EXCEPT ![i] = Torn]
  BY <1>0, <1>2, Tears DEF Readable
<1>3. CASE i \in Id /\ Advance(c, [command[c] EXCEPT !.id = i + 1]) /\ UNCHANGED files
  <2> DEFINE r == [command[c] EXCEPT !.id = i + 1]
  <2>1. i + 1 \in 0 .. MaxId + 1 /\ i + 1 # 0
    BY <1>3, DraftsAssumption DEF Id
  <2>2. /\ r \in Holding /\ r.step = "create" /\ r.id = i + 1 /\ r.ref = command[c].ref
        /\ r.to = command[c].to /\ r.ask = command[c].ask /\ r.base = command[c].base
        /\ r.text = command[c].text /\ Advance(c, r)
    BY <1>0, <1>3, <2>1 DEF Holding, At
  <2> HIDE DEF r
  <2>3. StepOK(r) /\ AddressOK(r, files, crossed) /\ KnowOK(r, files, crossed)
        /\ TextOK(c, r, saved, origin, accepted)
    BY <1>0, <2>1, <2>2 DEF CommandOK, StepOK, AddressOK, KnowOK, TextOK, At
  <2> QED
    BY <1>0, <1>3, <2>2, <2>3, Quiet
<1> QED
  BY <1>1, <1>2, <1>3 DEF Create

LEMMA OpenKeeps ==
    ASSUME IInv, NEW c \in Command, Open(c)
    PROVE  IInv'
<1>0. /\ At(c, "open") /\ ~At(c, "write") /\ command[c] \in Holding /\ CommandOK(c)
      /\ UNCHANGED <<accepted, saved, origin, removed, broken>>
  BY DEF Open, IInv, TypeOK, At
<1> DEFINE i == command[c].id
<1>1. CASE GoTo(c, "done") /\ UNCHANGED files
  BY <1>0, <1>1, Ends
<1>2. CASE GoTo(c, "write") /\ files' = [files EXCEPT ![i] = Torn]
  <2>1. i \in Id
    BY <1>0 DEF CommandOK, StepOK, At
  <2>2. Readable(i) /\ i \notin crossed => files[i].text = command[c].base
    BY <1>0, <2>1 DEF CommandOK, KnowOK, At, Readable
  <2> QED
    BY <1>0, <1>2, <2>1, <2>2, Tears
<1> QED
  BY <1>1, <1>2 DEF Open

LEMMA WriteKeeps ==
    ASSUME IInv, NEW c \in Command, Write(c)
    PROVE  IInv'
<1> DEFINE i == command[c].id
           r == [command[c] EXCEPT !.step = IF command[c].ask THEN "ask" ELSE "done"]
           e == [text |-> command[c].text, ref |-> command[c].ref, to |-> command[c].to]
<1>0. /\ At(c, "write") \/ At(c, "orphan")
      /\ command[c] \in Holding /\ CommandOK(c) /\ command \in [Command -> Holding]
      /\ UNCHANGED <<accepted, origin, removed>>
      /\ saved' = [saved EXCEPT ![command[c].text] = i]
      /\ saved \in [Command -> 0 .. MaxId]
  BY DEF Write, IInv, TypeOK, At
<1>1. /\ r \in Holding /\ r.step \in {"ask", "done"} /\ r.id = i /\ r.ref = command[c].ref
      /\ r.to = command[c].to /\ r.ask = command[c].ask /\ r.base = command[c].base
      /\ r.step = "ask" => r.ask
  BY <1>0 DEF Holding
<1>2. Advance(c, r)
  BY DEF Write, GoTo
<1>3. /\ i \in Id /\ i # 0 /\ i \in 0 .. MaxId /\ command[c].text \in Command
      /\ (command[c].ref # NoMail => command[c].to = Party[command[c].ref])
      /\ command[c].ask => command[c].ref # NoMail
  BY <1>0, DraftsAssumption DEF CommandOK, StepOK, AddressOK, At, Id
<1>4. e \in Draft /\ e \notin {Absent, Torn} /\ e.text = command[c].text
      /\ e.ref = command[c].ref /\ e.to = command[c].to
  <2>1. e \in Draft
    BY <1>0, <1>3 DEF Draft, Holding
  <2> QED
    BY <2>1, DraftsAreReadable
<1>5. \/ At(c, "write") /\ files' = [files EXCEPT ![i] = e] /\ broken' = broken
      \/ At(c, "write") /\ files' = [files EXCEPT ![i] = Torn] /\ broken' = broken \cup {i}
      \/ At(c, "orphan") /\ files' = files /\ broken' = broken
  BY DEF Write
<1> HIDE DEF e, r, i
<1>6. command' = [command EXCEPT ![c] = r] /\ command'[c] = r
  BY <1>0, <1>2 DEF Advance, Go
<1>7. crossed \subseteq crossed' /\ crossed' \subseteq Id /\ Has2(command') \subseteq crossed'
  BY <1>2, Crossing DEF Advance, IInv
<1>8. /\ broken \subseteq broken' /\ broken' \subseteq Id
      /\ \A j \in Id \ {i} : files'[j] = files[j]
      /\ files'[i] \in {e, Torn, files[i]}
      /\ files' \in [Id -> Draft \cup {Absent, Torn}]
  BY <1>3, <1>4, <1>5 DEF IInv, TypeOK
<1>9. At(c, "orphan") => i \in crossed
  BY DEF IInv, CrossInv, i
<1>10. \/ command[c].text = command[c].base
       \/ command[c].text = c /\ origin[c] = command[c].base /\ saved[c] = 0
  BY <1>0 DEF CommandOK, TextOK, At
<1>11. command[c].base # NoText => saved[command[c].base] = i
  BY <1>0 DEF CommandOK, TextOK, At, i
<1>12. command[c].text = command[c].base => saved' = saved
  BY <1>0, <1>3, <1>11, DraftsAssumption
<1>13. /\ saved'[command[c].text] = i
       /\ \A t \in Command \ {command[c].text} : saved'[t] = saved[t]
  BY <1>0, <1>3
<1>14. command[c].text # command[c].base =>
         command[c].text = c /\ origin[c] = command[c].base /\ saved[c] = 0
  BY <1>10
<1>15. \A t \in Command : saved[t] # 0 => saved'[t] = saved[t]
  BY <1>12, <1>13, <1>14
<1>16. TypeOK'
  <2>1. saved' \in [Command -> 0 .. MaxId]
    BY <1>0, <1>3
  <2> QED
    BY <1>0, <1>1, <1>6, <1>7, <1>8, <2>1 DEF IInv, TypeOK
<1>17. CrossInv'
  BY <1>0, <1>1, <1>6, <1>7 DEF IInv, CrossInv, At
<1>18. ASSUME NEW d \in Command, d # c PROVE CommandOK(d)'
  <2>1. command'[d] = command[d] /\ command[d] \in Holding /\ CommandOK(d)
    BY <1>0, <1>6, <1>18 DEF IInv
  <2>2. Has(command[c], i)
    BY <1>0 DEF Has, At, i
  <2>3. Has(command[d], i) => i \in crossed
    BY <1>3, <1>18, <2>2, Shared DEF IInv, CrossInv
  <2>4. AddressOK(command[d], files', crossed') /\ KnowOK(command[d], files', crossed')
    <3>1. CASE files' = files
      BY <1>7, <2>1, <3>1, Wider DEF CommandOK
    <3>2. ASSUME NEW x, files' = [files EXCEPT ![i] = x]
          PROVE  AddressOK(command[d], files', crossed') /\ KnowOK(command[d], files', crossed')
      <4>1. Has(command[d], i) => i \in crossed'
        BY <1>7, <2>3
      <4>2. TypeOK /\ AddressOK(command[d], files, crossed) /\ KnowOK(command[d], files, crossed)
            /\ StepOK(command[d])
        BY <2>1 DEF CommandOK, IInv
      <4> QED
        BY <1>3, <1>7, <2>1, <3>2, <4>1, <4>2, Bystander
    <3> QED
      BY <1>5, <3>1, <3>2
  <2>5. saved[d] = 0 => saved'[d] = 0
    BY <1>12, <1>13, <1>14, <1>18
  <2>6. TextOK(d, command[d], saved', origin, accepted)
    BY <1>15, <2>1, <2>5, DraftsAssumption DEF CommandOK, TextOK, Holding, Id
  <2> QED
    BY <1>0, <2>1, <2>4, <2>6 DEF CommandOK
<1>19. CommandOK(c)'
  <2>1. StepOK(r)
    BY <1>1, <1>3 DEF StepOK
  <2>2. KnowOK(r, files', crossed')
    BY <1>1 DEF KnowOK
  <2>3. AddressOK(r, files', crossed')
    <3>1. i \notin crossed' /\ files'[i] \notin {Absent, Torn} => files'[i].ref = r.ref
      BY <1>1, <1>3, <1>4, <1>5, <1>7, <1>9 DEF IInv, TypeOK
    <3> QED
      BY <1>1, <1>3, <3>1 DEF AddressOK
  <2>4. TextOK(c, r, saved', origin, accepted)
    BY <1>0, <1>1, <1>3, <1>11, <1>15 DEF TextOK, Holding
  <2> QED
    BY <1>0, <1>6, <2>1, <2>2, <2>3, <2>4 DEF CommandOK
<1>20. HomeInv'
  <2> SUFFICES ASSUME NEW j \in Id, Readable(j)' PROVE saved'[files'[j].text] = j
    BY DEF HomeInv
  <2>1. CASE files'[j] = files[j]
    <3>1. saved[files[j].text] = j /\ files[j].text \in Command /\ j # 0
      BY <2>1, ReadableDraft DEF IInv, HomeInv, Readable, Draft, Id
    <3> QED
      BY <1>15, <2>1, <3>1
  <2>2. CASE j = i /\ files'[i] \in {e, Torn}
    BY <1>4, <1>13, <2>2 DEF Readable
  <2> QED
    BY <1>8, <2>1, <2>2
<1>21. RepliesGoHome'
  BY <1>0, <1>3, <1>4, <1>7, <1>8, ZenonT(40) DEF IInv, RepliesGoHome, Readable
<1>22. \A d \in Command \ {c} : At(d, "write") => At(d, "write")' /\ command'[d] = command[d]
  BY <1>0, <1>6 DEF At
<1>23. TextsKept'
  <2> SUFFICES ASSUME NEW t \in Command, saved'[t] # 0, saved'[t] \notin broken' \cup crossed'
               PROVE  TextsKept!(t)!2'
    BY DEF TextsKept
  <2>1. CASE t = command[c].text
    <3>1. At(c, "write") /\ files' = [files EXCEPT ![i] = e]
      BY <1>5, <1>7, <1>9, <1>13, <2>1
    <3>2. files'[i] = e
      BY <1>3, <3>1 DEF IInv, TypeOK
    <3> QED
      BY <1>4, <1>13, <2>1, <3>2 DEF Readable
  <2>2. CASE t # command[c].text
    <3>1. saved'[t] = saved[t] /\ TextsKept!(t)!2 /\ saved[t] \in Id
      BY <1>0, <1>7, <1>8, <1>13, <2>2 DEF IInv, TextsKept, Id
    <3>2. CASE t \in removed \/ \E s \in accepted : s.text = t
      BY <1>0, <3>2
    <3>3. ASSUME NEW u \in Command, origin[u] = t, saved[u] = saved[t] PROVE TextsKept!(t)!2'
      BY <1>0, <1>15, <3>1, <3>3
    <3>4. CASE Readable(saved[t]) /\ files[saved[t]].text = t
      <4>1. saved[t] # i
        <5> SUFFICES ASSUME saved[t] = i PROVE FALSE
          OBVIOUS
        <5>1. i \notin crossed /\ At(c, "write")
          BY <1>0, <1>7, <1>9, <3>1
        <5>2. files[i] = Torn
          BY <1>0, <1>3, <5>1 DEF CommandOK, KnowOK, At, i
        <5> QED
          BY <3>4, <5>2 DEF Readable
      <4> QED
        BY <1>8, <3>1, <3>4, <4>1 DEF Readable
    <3>5. ASSUME NEW d \in Command, At(d, "write"), command[d].id = saved[t], command[d].base = t
          PROVE  TextsKept!(t)!2'
      <4>1. CASE d = c
        BY <1>0, <1>13, <1>14, <2>2, <3>1, <3>5, <4>1 DEF i
      <4>2. CASE d # c
        BY <1>22, <3>1, <3>5, <4>2
      <4> QED
        BY <4>1, <4>2
    <3> QED
      BY <3>1, <3>2, <3>3, <3>4, <3>5
  <2> QED
    BY <2>1, <2>2
<1>24. TornExplained'
  <2> SUFFICES ASSUME NEW j \in Id, files'[j] = Torn
               PROVE  j \in broken' \/ \E d \in Command : At(d, "write")' /\ command'[d].id = j
    BY DEF TornExplained
  <2>1. CASE files'[j] # files[j] \/ (j = i /\ At(c, "write"))
    BY <1>0, <1>3, <1>4, <1>5, <1>8, <2>1 DEF IInv, TypeOK, At
  <2>2. CASE files'[j] = files[j] /\ ~(j = i /\ At(c, "write"))
    BY <1>8, <1>22, <2>2 DEF IInv, TornExplained, i
  <2> QED
    BY <2>1, <2>2
<1> QED
  BY <1>16, <1>17, <1>18, <1>19, <1>20, <1>21, <1>23, <1>24 DEF IInv

\* A file is unlinked.  Who has it is left with a crossed id, or ends.
LEMMA Unlinks ==
    ASSUME IInv, NEW i \in Id,
           files' = [files EXCEPT ![i] = Absent],
           UNCHANGED <<accepted, saved, origin, broken>>,
           command' \in [Command -> Holding],
           \A d \in Command : \/ command'[d] = Unlinked(i)[d]
                              \/ At(d, "delete") /\ command'[d] = [command[d] EXCEPT !.step = "done"],
           crossed \subseteq crossed', crossed' \subseteq Id, Has2(command') \subseteq crossed',
           \A d \in Command : Has(command[d], i) => i \in crossed' \/ command'[d].step = "done",
           removed \subseteq removed', removed' \subseteq Command,
           Readable(i) => \/ files[i].text \in removed' \/ i \in crossed'
                          \/ \E s \in accepted : s.text = files[i].text
    PROVE  IInv'
<1>0. command \in [Command -> Holding]
  BY DEF IInv, TypeOK
<1>1. files'[i] = Absent /\ \A j \in Id \ {i} : files'[j] = files[j]
  BY DEF IInv, TypeOK
<1>2. ASSUME NEW d \in Command
      PROVE  \/ command'[d] = command[d] /\ ~(At(d, "write") /\ command[d].id = i)
             \/ At(d, "delete") /\ command'[d] = [command[d] EXCEPT !.step = "done"]
             \/ /\ At(d, "write") /\ command[d].id = i
                /\ command'[d] = [command[d] EXCEPT !.step = "orphan"]
  BY <1>2 DEF Unlinked, At
<1>3. ASSUME NEW d \in Command, At(d, "write"), command[d].id = i PROVE i \in crossed'
  <2>1. command[d] \in Holding /\ Has(command[d], i)
    BY <1>0, <1>3 DEF Has, At
  <2>2. command'[d] = [command[d] EXCEPT !.step = "orphan"]
    BY <1>2, <1>3 DEF At
  <2>3. command'[d].step # "done"
    BY <2>1, <2>2 DEF Holding
  <2> QED
    BY <2>1, <2>3
<1>4. TypeOK'
  BY DEF IInv, TypeOK
<1>5. CrossInv'
  <2> SUFFICES ASSUME NEW d \in Command, At(d, "orphan")' PROVE command'[d].id \in crossed'
    BY DEF CrossInv
  <2>1. command[d] \in Holding
    BY <1>0
  <2> QED
    BY <1>2, <1>3, <2>1 DEF Holding, At, IInv, CrossInv
<1>6. HomeInv' /\ RepliesGoHome'
  BY <1>1 DEF IInv, HomeInv, RepliesGoHome, Readable
<1>7. ASSUME NEW d \in Command PROVE CommandOK(d)'
  <2>0. command[d] \in Holding /\ CommandOK(d)
    BY <1>0 DEF IInv
  <2>1. CASE command'[d] = command[d]
    <3>1. Has(command[d], i) => i \in crossed' \/ command[d].step = "done"
      BY <2>1
    <3>2. Has(command[d], i) => i \in crossed'
      BY <3>1 DEF Has
    <3>3. TypeOK /\ AddressOK(command[d], files, crossed) /\ KnowOK(command[d], files, crossed)
          /\ StepOK(command[d])
      BY <2>0 DEF CommandOK, IInv
    <3>4. AddressOK(command[d], files', crossed') /\ KnowOK(command[d], files', crossed')
      BY <2>0, <3>2, <3>3, Bystander
    <3> QED
      BY <2>0, <2>1, <3>4 DEF CommandOK
  <2>2. CASE At(d, "delete") /\ command'[d] = [command[d] EXCEPT !.step = "done"]
    <3> DEFINE r == [command[d] EXCEPT !.step = "done"]
    <3>1. /\ r.step = "done" /\ r.id = command[d].id /\ r.ref = command[d].ref
          /\ r.to = command[d].to /\ r.ask = command[d].ask
      BY <2>0 DEF Holding
    <3> HIDE DEF r
    <3>2. StepOK(r) /\ AddressOK(r, files', crossed') /\ KnowOK(r, files', crossed')
          /\ TextOK(d, r, saved, origin, accepted)
      BY <2>0, <3>1 DEF CommandOK, StepOK, AddressOK, KnowOK, TextOK
    <3> QED
      BY <2>2, <3>2 DEF CommandOK, r
  <2>3. CASE /\ At(d, "write") /\ command[d].id = i
             /\ command'[d] = [command[d] EXCEPT !.step = "orphan"]
    <3> DEFINE r == [command[d] EXCEPT !.step = "orphan"]
    <3>1. /\ r.step = "orphan" /\ r.id = i /\ r.ref = command[d].ref
          /\ r.to = command[d].to /\ r.ask = command[d].ask
          /\ r.base = command[d].base /\ r.text = command[d].text
      BY <2>0, <2>3 DEF Holding
    <3> HIDE DEF r
    <3>2. StepOK(r) /\ AddressOK(r, files', crossed') /\ KnowOK(r, files', crossed')
          /\ TextOK(d, r, saved, origin, accepted)
      BY <2>0, <2>3, <3>1 DEF CommandOK, StepOK, AddressOK, KnowOK, TextOK, At
    <3> QED
      BY <2>3, <3>2 DEF CommandOK, r
  <2> QED
    BY <1>2, <2>1, <2>2, <2>3
<1>8. ASSUME NEW d \in Command, At(d, "write"), command[d].id # i
      PROVE  At(d, "write")' /\ command'[d] = command[d]
  BY <1>2, <1>8 DEF At
<1>9. TextsKept'
  <2> SUFFICES ASSUME NEW t \in Command, saved[t] # 0, saved[t] \notin broken \cup crossed'
               PROVE  TextsKept!(t)!2'
    BY DEF TextsKept
  <2>1. TextsKept!(t)!2 /\ saved[t] \in Id
    BY DEF IInv, TextsKept, TypeOK, Id
  <2>2. CASE Readable(saved[t]) /\ files[saved[t]].text = t
    BY <1>1, <2>1, <2>2 DEF Readable
  <2>3. ASSUME NEW d \in Command, At(d, "write"), command[d].id = saved[t], command[d].base = t
        PROVE  TextsKept!(t)!2'
    BY <1>3, <1>8, <2>3
  <2> QED
    BY <2>1, <2>2, <2>3
<1>10. TornExplained'
  BY <1>1, <1>8, AbsentIsNotTorn DEF IInv, TornExplained
<1> QED
  BY <1>4, <1>5, <1>6, <1>7, <1>9, <1>10 DEF IInv

LEMMA DeleteKeeps ==
    ASSUME IInv, NEW c \in Command, Delete(c)
    PROVE  IInv'
<1> DEFINE i == command[c].id
           u == Unlinked(i)
           n == [u EXCEPT ![c].step = "done"]
<1>0. /\ At(c, "delete") /\ ~At(c, "write") /\ command[c] \in Holding /\ CommandOK(c)
      /\ command \in [Command -> Holding] /\ UNCHANGED <<accepted, saved, origin, removed, broken>>
  BY DEF Delete, IInv, TypeOK, At
<1>1. CASE GoTo(c, "done") /\ UNCHANGED files
  BY <1>0, <1>1, Ends
<1>2. CASE files' = [files EXCEPT ![i] = Absent] /\ Go(n)
  <2>1. i \in Id /\ \E s \in accepted : s.text = command[c].base
    BY <1>0 DEF CommandOK, StepOK, TextOK, At
  <2>2. u \in [Command -> Holding] /\ u[c] = command[c]
    <3>1. \A d \in Command : [command[d] EXCEPT !.step = "orphan"] \in Holding
      BY <1>0 DEF Holding
    <3> QED
      BY <1>0, <3>1 DEF Unlinked
  <2>3. /\ command' = [u EXCEPT ![c] = [command[c] EXCEPT !.step = "done"]]
        /\ [command[c] EXCEPT !.step = "done"] \in Holding
    BY <1>0, <1>2, <2>2 DEF Go, Holding
  <2>4. /\ command' \in [Command -> Holding] /\ command'[c].step = "done"
        /\ command'[c] = [command[c] EXCEPT !.step = "done"]
        /\ \A d \in Command \ {c} : command'[d] = Unlinked(i)[d]
    <3> HIDE DEF u
    <3>1. /\ command' \in [Command -> Holding]
          /\ command'[c] = [command[c] EXCEPT !.step = "done"]
          /\ \A d \in Command \ {c} : command'[d] = u[d]
      BY <2>2, <2>3
    <3>2. [command[c] EXCEPT !.step = "done"].step = "done"
      BY <1>0 DEF Holding
    <3> QED
      BY <3>1, <3>2 DEF u
  <2>5. crossed \subseteq crossed' /\ crossed' \subseteq Id /\ Has2(command') \subseteq crossed'
    BY <1>2, Crossing DEF IInv
  <2>6. Has(command[c], i)
    BY <1>0 DEF Has, At
  <2>7. ASSUME NEW d \in Command, d # c, Has(command[d], i) PROVE i \in crossed
    BY <2>1, <2>6, <2>7, Shared DEF IInv, CrossInv
  <2>8. Readable(i) /\ i \notin crossed => files[i].text = command[c].base
    BY <1>0, <2>1 DEF CommandOK, KnowOK, At, Readable
  <2>9. \A d \in Command : \/ command'[d] = Unlinked(i)[d]
                           \/ At(d, "delete") /\ command'[d] = [command[d] EXCEPT !.step = "done"]
    BY <1>0, <2>4
  <2>10. \A d \in Command : Has(command[d], i) => i \in crossed' \/ command'[d].step = "done"
    BY <2>4, <2>5, <2>7
  <2>11. removed \subseteq removed' /\ removed' \subseteq Command
    BY <1>0 DEF IInv, TypeOK
  <2>12. Readable(i) => i \in crossed' \/ \E s \in accepted : s.text = files[i].text
    BY <2>1, <2>5, <2>8
  <2> HIDE DEF u, n, i
  <2> QED
    BY <1>0, <1>2, <2>1, <2>4, <2>5, <2>9, <2>10, <2>11, <2>12, Unlinks
<1> QED
  BY <1>1, <1>2 DEF Delete

LEMMA RemoveKeeps ==
    ASSUME IInv, NEW i \in Id, Remove(i)
    PROVE  IInv'
<1>0. /\ command' = Unlinked(i) /\ files' = [files EXCEPT ![i] = Absent]
      /\ command \in [Command -> Holding] /\ UNCHANGED <<accepted, saved, origin, broken>>
  BY DEF Remove, IInv, TypeOK
<1>1. command' \in [Command -> Holding]
  <2>1. \A d \in Command : [command[d] EXCEPT !.step = "orphan"] \in Holding
    BY <1>0 DEF Holding
  <2> QED
    BY <1>0, <2>1 DEF Unlinked
<1>2. /\ crossed \subseteq crossed' /\ crossed' \subseteq Id
      /\ \A d \in Command : Has(command[d], i) => i \in crossed'
  BY DEF Remove, IInv, TypeOK
<1>3. ASSUME NEW d \in Command, NEW j \in Id, Has(command'[d], j) PROVE Has(command[d], j)
  <2>1. command[d] \in Holding /\ command'[d] = Unlinked(i)[d]
    BY <1>0
  <2> QED
    BY <1>3, <2>1 DEF Has, Unlinked, At, Holding
<1>4. Has2(command') \subseteq crossed'
  BY <1>2, <1>3 DEF Has2, IInv, CrossInv
<1>5. /\ removed \subseteq removed' /\ removed' \subseteq Command
      /\ Readable(i) => files[i].text \in removed'
  BY ReadableDraft DEF Remove, IInv, TypeOK, Draft
<1> QED
  BY <1>0, <1>1, <1>2, <1>4, <1>5, Unlinks

-----------------------------------------------------------------------------
LEMMA NextInvariant == IInv /\ [Next]_vars => IInv'
<1> SUFFICES ASSUME IInv, [Next]_vars PROVE IInv'
  OBVIOUS
<1>1. ASSUME NEW c \in Command, Step(c) PROVE IInv'
  BY <1>1, ComposeKeeps, ReplyKeeps, SendTextKeeps, SendDraftKeeps, EditKeeps, SealKeeps,
     ScanKeeps, CreateKeeps, OpenKeeps, WriteKeeps, AskKeeps, RereadKeeps, SubmitKeeps,
     DeleteKeeps, KillKeeps DEF Step
<1>2. ASSUME NEW i \in Id, Remove(i) PROVE IInv'
  BY <1>2, RemoveKeeps
<1>3. CASE UNCHANGED vars
  BY <1>3 DEF vars, history, IInv, TypeOK, CrossInv, HomeInv, CommandOK, TextsKept, RepliesGoHome,
              TornExplained, Readable, At
<1> QED
  BY <1>1, <1>2, <1>3 DEF Next

\* A command changes the file that it has.
LEMMA CommandChanges ==
    ASSUME IInv, NEW c \in Command, Step(c), NEW i \in Id, Readable(i), files'[i] # files[i]
    PROVE  Has(command[c], i) /\ (command[c].base = files[i].text \/ i \in crossed)
<1>0. command[c] \in Holding /\ CommandOK(c) /\ files \in [Id -> Draft \cup {Absent, Torn}]
  BY DEF IInv, TypeOK
<1>1. CASE Create(c)
  BY <1>0, <1>1 DEF Create, Readable
<1>2. CASE Open(c) \/ Delete(c)
  <2>1. command[c].id = i /\ Has(command[c], i)
    BY <1>0, <1>2 DEF Open, Delete, At, Has
  <2> QED
    BY <1>0, <1>2, <2>1 DEF CommandOK, KnowOK, Open, Delete, At, Readable
<1>3. CASE Write(c)
  <2>1. At(c, "write") /\ command[c].id = i /\ Has(command[c], i)
    BY <1>0, <1>3 DEF Write, At, Has
  <2> QED
    BY <1>0, <2>1 DEF CommandOK, KnowOK, At, Readable
<1>4. CASE ~(Create(c) \/ Open(c) \/ Delete(c) \/ Write(c))
  BY <1>4 DEF Step, Compose, Reply, SendText, SendDraft, Begin, Edit, Seal, Scan, Ask, Reread,
              Submit, Kill
<1> QED
  BY <1>1, <1>2, <1>3, <1>4

-----------------------------------------------------------------------------
\* In every reachable state of any number of commands the inductive invariant
\* holds: what the steps of cli/main.c and cli/drafts.c leave behind.
THEOREM Invariance == Spec => []IInv
<1>1. Init => IInv
  BY InitInvariant
<1>2. IInv /\ [Next]_vars => IInv'
  BY NextInvariant
<1> QED
  BY <1>1, <1>2, PTL DEF Spec

\* Files, commands and submissions keep the shapes cli_save_draft and
\* cli_read_draft give them.
THEOREM TypeCorrect == Spec => []TypeOK
<1>1. IInv => TypeOK
  BY DEF IInv
<1> QED
  BY <1>1, Invariance, PTL

\* However many commands run at once, a text that cli_save_draft reported as
\* saved is on file until it is accepted, removed or replaced by its own edit.
THEOREM SavedTextsStay == Spec => []TextsKept
<1>1. IInv => TextsKept
  BY DEF IInv
<1> QED
  BY <1>1, Invariance, PTL

\* A reply goes to the other party of the mail it answers, by any sequence of
\* compose, reply and send, unless two commands had its draft at once.
THEOREM RepliesAreAddressed == Spec => []RepliesGoHome
<1>1. IInv => RepliesGoHome
  BY DEF IInv
<1> QED
  BY <1>1, Invariance, PTL

\* A torn file is being written or its write was cut off: cli_save_draft seals
\* the text before it opens the file.
THEOREM TornFilesExplained == Spec => []TornExplained
<1>1. IInv => TornExplained
  BY DEF IInv
<1> QED
  BY <1>1, Invariance, PTL

\* No command overwrites or deletes a draft whose text it did not read, but one
\* that two commands have.
THEOREM NoDraftLostUnknowingly == Spec => ChangedKnowingly
<1> DEFINE Knowingly ==
        \A i \in Id : Readable(i) /\ files'[i] # files[i] =>
          \/ files[i].text \in removed'
          \/ \E c \in Command : /\ Has(command[c], i)
                                /\ command[c].base = files[i].text \/ i \in crossed
<1>1. IInv /\ [Next]_vars => [Knowingly]_vars
  <2> SUFFICES ASSUME IInv, Next, NEW i \in Id, Readable(i), files'[i] # files[i]
               PROVE  \/ files[i].text \in removed'
                      \/ \E c \in Command : /\ Has(command[c], i)
                                            /\ command[c].base = files[i].text \/ i \in crossed
    OBVIOUS
  <2>1. ASSUME NEW j \in Id, Remove(j) PROVE files[i].text \in removed'
    BY <2>1 DEF Remove, IInv, TypeOK
  <2> QED
    BY <2>1, CommandChanges DEF Next
<1>2. [][Knowingly]_vars => ChangedKnowingly
  BY PTL DEF ChangedKnowingly
<1> QED
  BY <1>1, <1>2, Invariance, PTL DEF Spec
=============================================================================
