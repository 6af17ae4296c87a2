--------------------------- MODULE ClientKeysProofs ---------------------------
(***************************************************************************)
(* Proofs about ClientKeys, for any number of commands, names and          *)
(* passphrases.  The inductive invariant comes in layers: types; what a    *)
(* run, its request and its keys know of each other; what holds as long as *)
(* commands do not overlap; what holds as long as no rotation was cut off; *)
(* what holds when nothing went wrong; and what is sealed to which key.    *)
(***************************************************************************)
EXTENDS ClientKeys, TLAPS

-----------------------------------------------------------------------------
\* Where a command can be, and what its request can have come to.
StepInv(c) ==
    LET r == command[c] IN
    /\ r.op = "none" => r.step = "new" /\ request[c] = "none"
    /\ r.step = "new" => r.op = "none"
    /\ r.op = "init" =>
          /\ r.step \in {"kem", "sig", "done"} \cup File
          /\ request[c] = "none" /\ r.kem = c /\ r.sig = c
    /\ r.op = "register" =>
          /\ r.step \in {"wait", "name", "done"}
          /\ request[c] # "none" /\ r.name \in Name /\ r.kem \in Run /\ r.sig \in Run
          /\ r.step = "name" => request[c] = "ok"
          /\ request[c] \in {"checked", "ok"} => r.signer = r.sig
    /\ r.op = "rotate" =>
          /\ r.step \in {"wait", "done"} \cup File
          /\ request[c] # "none" /\ r.name \in Name /\ r.kem = c /\ r.sig = c
          /\ r.step \in File => request[c] = "ok"
    /\ r.op = "destroy" =>
          /\ r.step \in {"wait", "wipe", "done"}
          /\ request[c] # "none" /\ r.name \in Name
          /\ r.step = "wipe" => request[c] = "ok"

\* A key is on disk only when the command that made it has saved it, and the
\* instance has it too when a rotation made it.
KeyInv(c) ==
    /\ \A f \in File : file[f].key = c =>
          /\ command[c].op \in {"init", "rotate"}
          /\ command[c].op = "rotate" => request[c] = "ok"
    /\ file["kem_sk"].key = c => command[c].step \notin {"kem", "wait", "kem_pk", "kem_sk"}
    /\ file["sig_sk"].key = c => command[c].step = "done"

\* A name that was taken is never free again.
TakenInv ==
    /\ \A c \in Run : request[c] = "ok" => account[command[c].name] # Free
    /\ config # NoName => account[config] # Free

\* A rotation that may still take effect when nobody listens is trouble.
LateInv ==
    \A c \in Run :
        (command[c].op = "rotate" /\ At(c, "done") /\ request[c] \in {"sent", "checked"})
        => "rotate" \in trouble

RunInv == (\A c \in Run : StepInv(c) /\ KeyInv(c)) /\ TakenInv /\ LateInv

-----------------------------------------------------------------------------
\* Commands do not overlap.
Clean == "overlap" \notin trouble

Alone == \A c, d \in Run : Running(c) /\ Running(d) => c = d

\* A rotation or a destruction that took effect: a key it will overwrite or
\* remove is not the account's any more.
ObsoleteInv(c) ==
    (command[c].op \in {"rotate", "destroy"} /\ request[c] = "ok" /\ account[config].state = "live") =>
        /\ command[c].step \in {"wait", "wipe", "kem_pk", "kem_sk"} =>
              file["kem_sk"].key # account[config].kem
        /\ command[c].step \in {"wait", "wipe"} \cup File =>
              file["sig_sk"].key # account[config].sig

HoldInv(c) ==
    /\ command[c].op = "init" /\ command[c].step \in File => config = NoName
    /\ command[c].op = "register" =>
          /\ file["kem_pk"].key # Absent /\ file["sig_pk"].key # Absent
          /\ file["sig_sk"].key = command[c].signer
    /\ command[c].op \in {"rotate", "destroy"} => config = command[c].name
    /\ ObsoleteInv(c)

CleanInv ==
    Clean =>
        /\ Alone
        /\ config # NoName => file["kem_pk"].key # Absent /\ file["sig_pk"].key # Absent
        /\ \A c \in Run : Running(c) => HoldInv(c)

-----------------------------------------------------------------------------
\* Neither overlapping commands nor a rotation that was cut off.
Heard == trouble \cap {"rotate", "overlap"} = {}

\* What took effect is what the account has, until the command is done.
EffectInv(c) ==
    (request[c] = "ok" /\ command[c].op \in {"register", "rotate"}
     /\ account[command[c].name].state = "live") =>
        /\ account[command[c].name].kem = command[c].kem
        /\ account[command[c].name].sig = command[c].sig

SignInv == (Heard => \A c \in Run : Running(c) => EffectInv(c)) /\ SignerKept

-----------------------------------------------------------------------------
\* Nothing went wrong: the files are all there, or none is.
NoFile == \A f \in File : file[f].key = Absent

Whole ==
    /\ Holds("kem_pk") /\ file["kem_sk"].key = file["kem_pk"].key
    /\ Holds("sig_pk") /\ file["sig_sk"].key = file["sig_pk"].key
    /\ file["kem_sk"].lock = file["sig_sk"].lock

NoSig == file["sig_pk"].key = Absent /\ file["sig_sk"].key = Absent

KemSaved(c) ==
    /\ file["kem_pk"].key = c /\ file["kem_sk"].key = c
    /\ file["kem_sk"].lock = command[c].lock

\* How far a command that writes has come.
WriteInv(c) ==
    /\ At(c, "kem") => NoFile \/ Whole
    /\ At(c, "kem_pk") => (command[c].op = "init" => NoFile)
    /\ At(c, "kem_sk") => file["kem_pk"].key = c /\ (command[c].op = "init" => NoSig)
    /\ At(c, "sig") => Whole \/ (KemSaved(c) /\ NoSig)
    /\ At(c, "sig_pk") => KemSaved(c) /\ (command[c].op = "init" => NoSig)
    /\ At(c, "sig_sk") => KemSaved(c) /\ file["sig_pk"].key = c
    /\ command[c].op = "register" => file["kem_sk"].key = command[c].kem

Writing(c) == command[c].step \in File \cup {"sig"}

WholeInv ==
    /\ trouble = {} =>
          /\ (\A c \in Run : ~Writing(c)) => NoFile \/ Whole
          /\ \A c \in Run : Running(c) => WriteInv(c)
    /\ ReaderKept

-----------------------------------------------------------------------------
\* What is sealed is sealed to the public key on disk, also while init writes the
\* secret one, until the account gets new keys.
Rotated == \E c \in Run : command[c].op = "rotate" /\ request[c] = "ok"

PaperInv == trouble = {} /\ ~Rotated => papers \subseteq {file["kem_pk"].key}

IInv == TypeOK /\ RunInv /\ CleanInv /\ SignInv /\ WholeInv /\ PaperInv

-----------------------------------------------------------------------------
\* Types.

LEMMA InitTypes == Init => TypeOK
  BY KeysAssumption DEF Init, TypeOK, File, Lock, Content, Command, New, RequestSteps, Account, Free

\* A command begins: only it changes, and no other is running unless that is
\* trouble.
StartOf(c) == StartInit(c) \/ StartRegister(c) \/ StartRotate(c) \/ StartDestroy(c)

LEMMA Started ==
  ASSUME TypeOK, NEW c \in Run, StartOf(c)
  PROVE  /\ UNCHANGED <<files, account>>
         /\ command[c].step = "new"
         /\ command' \in [Run -> Command]
         /\ \A d \in Run : d # c => command'[d] = command[d] /\ request'[d] = request[d]
         /\ request' \in [Run -> RequestSteps]
         /\ trouble' = trouble \cup {"overlap"}
               \/ (trouble' = trouble /\ \A d \in Run : ~Running(d))
         /\ \/ /\ command'[c].op = "init" /\ command'[c].step = "kem"
               /\ command'[c].kem = c /\ command'[c].sig = c
               /\ request' = request
            \/ /\ command'[c].op \in {"register", "rotate", "destroy"}
               /\ command'[c].step = "wait" /\ request'[c] = "sent"
               /\ command'[c].name \in Name
         /\ command'[c].op = "register" =>
               /\ command'[c].kem = file["kem_pk"].key /\ command'[c].kem \in Run
               /\ command'[c].sig = file["sig_pk"].key /\ command'[c].sig \in Run
               /\ command'[c].signer = file["sig_sk"].key
         /\ command'[c].op \in {"rotate", "destroy"} => command'[c].name = config
         /\ command'[c].op = "rotate" => command'[c].kem = c /\ command'[c].sig = c
<1>1. CASE StartInit(c)
  BY <1>1 DEF StartInit, Begin, At, files, server, TypeOK, Command, Lock
<1>2. CASE StartRegister(c)
  BY <1>2 DEF StartRegister, Begin, At, Sends, Holds, CanSign, files, TypeOK, Command, Lock, RequestSteps, File, Content
<1>3. CASE StartRotate(c)
  BY <1>3 DEF StartRotate, Begin, At, Sends, Holds, CanSign, files, TypeOK, Command, Lock, RequestSteps, File, Content
<1>4. CASE StartDestroy(c)
  BY <1>4 DEF StartDestroy, Begin, At, Sends, Holds, CanSign, files, TypeOK, Command, Lock, RequestSteps, File, Content
<1> QED BY <1>1, <1>2, <1>3, <1>4 DEF StartOf

\* What a write can leave of a file is a file's content.
LEMMA BrokenContent ==
  ASSUME TypeOK, NEW c \in Run, NEW f \in File, f = command[c].step
  PROVE  /\ Broken(c, f) \subseteq Content
         /\ \A b \in Broken(c, f) : b = file[f] \/ b.key = Torn
  BY DEF TypeOK, Broken, Saved, Content, Command, Lock

LEMMA SavedContent ==
  ASSUME TypeOK, RunInv, NEW c \in Run, NEW f \in File, f = command[c].step
  PROVE  /\ Saved(c, f) \in Content
         /\ Saved(c, f).key = c
         /\ Saved(c, f).lock = IF f \in Secret THEN command[c].lock ELSE Plain
         /\ command[c].op \in {"init", "rotate"}
         /\ AfterSave(c, f) \in {"kem_sk", "sig", "sig_pk", "sig_sk", "done"}
<1>1. command[c].op \in {"init", "rotate"} /\ command[c].kem = c /\ command[c].sig = c
  BY DEF TypeOK, RunInv, StepInv, Command, File
<1> QED BY <1>1 DEF TypeOK, Saved, Content, Command, Lock, AfterSave, File

LEMMA TypeStep ==
  ASSUME TypeOK, RunInv, [Next]_vars
  PROVE  TypeOK'
<1> USE DEF TypeOK
<1>1. ASSUME NEW c \in Run, StartOf(c) PROVE TypeOK'
  BY <1>1, Started DEF files
<1>2. ASSUME NEW c \in Run, Look(c) PROVE TypeOK'
  BY <1>2 DEF Look, At, GoTo, Command, File, files, server
<1>3. ASSUME NEW c \in Run, Save(c) PROVE TypeOK'
  BY <1>3, BrokenContent, SavedContent, SMTT(30) DEF Save, GoTo, Command, File, server
<1>4. ASSUME NEW c \in Run, Answer(c) PROVE TypeOK'
  <2>1. At(c, "wait") => AfterAnswer(c) \in {"name", "kem_pk", "wipe"}
    BY DEF RunInv, StepInv, At, AfterAnswer, Command, File
  <2> QED BY <1>4, <2>1 DEF Answer, At, GoTo, Command, File, files, server
<1>5. ASSUME NEW c \in Run, NoReply(c) PROVE TypeOK'
  BY <1>5 DEF NoReply, GoTo, Unheard, Command, File, files, server
<1>6. ASSUME NEW c \in Run, WriteConfig(c) PROVE TypeOK'
  BY <1>6 DEF WriteConfig, GoTo, Command, File, server
<1>7. ASSUME NEW c \in Run, Wipe(c) PROVE TypeOK'
  <2>1. \A n \in 0 .. 4 : Without(n) \in [File -> Content]
    BY DEF Without, Content, Lock
  <2> QED BY <1>7, <2>1 DEF Wipe, GoTo, Command, File, server
<1>8. ASSUME NEW c \in Run, Kill(c) PROVE TypeOK'
  <2>1. command' \in [Run -> Command]
    BY <1>8 DEF Kill, GoTo, Command, File
  <2>2. trouble' \subseteq {"overlap", "init", "rotate", "destroy"}
    <3>1. command[c].step \in File => command[c].op \in {"init", "rotate"}
      BY SavedContent
    <3>2. Unheard(c) \subseteq {"rotate"} /\ {"init"} \cap {command[c].op} \subseteq {"init"}
      BY DEF Unheard
    <3> QED BY <1>8, <3>1, <3>2 DEF Kill
  <2>3. file' \in [File -> Content]
    BY <1>8, BrokenContent DEF Kill
  <2> QED BY <1>8, <2>1, <2>2, <2>3 DEF Kill, server
<1>9. ASSUME NEW c \in Run, ServerStep(c) PROVE TypeOK'
  <2>1. ASSUME request[c] = "checked" PROVE Becomes(c) \in Account /\ command[c].name \in Name
    <3>1. command[c].op \in {"register", "rotate", "destroy"}
      BY <2>1 DEF RunInv, StepInv, Command
    <3>2. /\ command[c].name \in Name
          /\ command[c].op # "destroy" => command[c].kem \in Run /\ command[c].sig \in Run
      BY <3>1 DEF RunInv, StepInv
    <3> QED BY <3>1, <3>2 DEF Becomes, Destroyed, Live, Account
  <2>2. CASE Check(c) \/ Refuse(c)
    BY <2>2 DEF Check, Refuse, RequestSteps, files
  <2>3. CASE Apply(c)
    <3>1. request' \in [Run -> RequestSteps]
      BY <2>3 DEF Apply, RequestSteps
    <3>2. account' \in [Name -> Account]
      BY <2>3, <2>1 DEF Apply
    <3> QED BY <2>3, <3>1, <3>2 DEF Apply, files
  <2> QED BY <1>9, <2>2, <2>3 DEF ServerStep
<1>10. ASSUME KeepDraft \/ SaveMail PROVE TypeOK'
  <2>1. ASSUME NEW n \in Name, account[n].state = "live" PROVE account[n].kem \in Run
    BY <2>1 DEF Account, Free, Destroyed
  <2> QED BY <1>10, <2>1 DEF KeepDraft, SaveMail, Holds, server
<1>11. CASE UNCHANGED vars
  BY <1>11 DEF vars, files, server
<1> QED BY <1>1, <1>2, <1>3, <1>4, <1>5, <1>6, <1>7, <1>8, <1>9, <1>10, <1>11
        DEF Next, ClientStep, StartOf

-----------------------------------------------------------------------------
\* Runs, requests and keys.

LEMMA InitRuns == Init => RunInv
  BY KeysAssumption DEF Init, RunInv, StepInv, KeyInv, TakenInv, LateInv, New, File, At

\* A command goes on: only its step changes.
LEMMA Went ==
  ASSUME TypeOK, NEW c \in Run, NEW step, GoTo(c, step)
  PROVE  \A d \in Run :
            /\ command'[d].step = IF d = c THEN step ELSE command[d].step
            /\ command'[d].op = command[d].op /\ command'[d].name = command[d].name
            /\ command'[d].lock = command[d].lock /\ command'[d].signer = command[d].signer
            /\ command'[d].kem = command[d].kem /\ command'[d].sig = command[d].sig
  BY DEF GoTo, TypeOK, Command

LEMMA RunStep ==
  ASSUME TypeOK, TypeOK', RunInv, [Next]_vars
  PROVE  RunInv'
<1> USE DEF RunInv
<1>1. ASSUME NEW c \in Run, StartOf(c) PROVE RunInv'
  <2> USE Started, <1>1
  <2>0. StepInv(c) /\ KeyInv(c)
    OBVIOUS
  <2>1. ASSUME NEW d \in Run PROVE StepInv(d)'
    <3>1. CASE d # c
      <4>1. command'[d] = command[d] /\ request'[d] = request[d] /\ StepInv(d)
        BY <3>1
      <4> QED BY <4>1 DEF StepInv
    <3>2. CASE d = c
      <4>1. CASE command'[c].op = "init"
        BY <2>0, <3>2, <4>1 DEF StepInv
      <4>2. CASE command'[c].op # "init"
        <5>1. /\ command'[c].op \in {"register", "rotate", "destroy"}
              /\ command'[c].step = "wait" /\ request'[c] = "sent" /\ command'[c].name \in Name
          BY <4>2
        <5>2. command'[c].op = "register" => command'[c].kem \in Run /\ command'[c].sig \in Run
          OBVIOUS
        <5>3. command'[c].op = "rotate" => command'[c].kem = c /\ command'[c].sig = c
          OBVIOUS
        <5> HIDE Started
        <5> QED BY <3>2, <5>1, <5>2, <5>3 DEF StepInv, File
      <4> QED BY <4>1, <4>2
    <3> QED BY <3>1, <3>2
  <2>2. ASSUME NEW d \in Run PROVE KeyInv(d)'
    <3>1. CASE d # c
      <4>1. command'[d] = command[d] /\ request'[d] = request[d] /\ KeyInv(d)
        BY <3>1
      <4> QED BY <4>1 DEF KeyInv, files
    <3>2. CASE d = c
      BY <2>0, <3>2 DEF KeyInv, StepInv, files, File
    <3> QED BY <3>1, <3>2
  <2>3. TakenInv'
    <3>1. \A d \in Run : request'[d] = "ok" => request[d] = "ok" /\ command'[d] = command[d]
      BY <2>0 DEF StepInv
    <3> QED BY <3>1 DEF TakenInv, files
  <2>4. LateInv'
    BY DEF LateInv, At
  <2> QED BY <2>1, <2>2, <2>3, <2>4
<1>2. ASSUME NEW c \in Run, Look(c) PROVE RunInv'
  <2>0. /\ UNCHANGED <<files, server, trouble>>
        /\ \/ At(c, "kem") /\ \E step \in {"kem_pk", "sig"} : GoTo(c, step)
           \/ At(c, "sig") /\ \E step \in {"sig_pk", "done"} : GoTo(c, step)
        /\ command[c].op = "init"
    BY <1>2 DEF Look, At, StepInv, TypeOK, Command, File
  <2>1. ASSUME NEW d \in Run PROVE StepInv(d)'
    BY <2>0, Went DEF At, StepInv, server, File
  <2>2. ASSUME NEW d \in Run PROVE KeyInv(d)'
    BY <2>0, Went DEF At, KeyInv, server, files, File
  <2>3. TakenInv' /\ LateInv'
    BY <2>0, Went DEF At, TakenInv, LateInv, server, files
  <2> QED BY <2>1, <2>2, <2>3
<1>3. ASSUME NEW c \in Run, Save(c) PROVE RunInv'
  <2> DEFINE f == command[c].step
  <2>0. /\ f \in File /\ GoTo(c, AfterSave(c, f))
        /\ \/ file' = [file EXCEPT ![f] = Saved(c, f)]
           \/ \E b \in Broken(c, f) : file' = [file EXCEPT ![f] = b]
        /\ trouble \subseteq trouble'
        /\ UNCHANGED <<config, papers, server>>
    BY <1>3 DEF Save
  <2>a. /\ Saved(c, f).key = c /\ command[c].op \in {"init", "rotate"}
        /\ \A b \in Broken(c, f) : b = file[f] \/ b.key \notin Run
        /\ command[c].op = "rotate" => request[c] = "ok"
    BY <2>0, SavedContent, BrokenContent, KeysAssumption DEF StepInv
  <2>1. \A d \in Run : StepInv(d)'
    BY <2>0, <2>a DEF GoTo, AfterSave, StepInv, TypeOK, server, File
  <2>2. ASSUME NEW d \in Run PROVE KeyInv(d)'
    <3>1. \A g \in File : file'[g].key = d => file[g].key = d \/ (d = c /\ g = f)
      BY <2>0, <2>a DEF TypeOK
    <3>2. command'[d].op = command[d].op /\ request'[d] = request[d]
      BY <2>0 DEF GoTo, TypeOK, server
    <3>3. d # c => command'[d] = command[d]
      BY <2>0 DEF GoTo, TypeOK
    <3>4. command'[c].step = AfterSave(c, f)
      BY <2>0 DEF GoTo, TypeOK
    <3> QED BY <2>0, <2>a, <3>1, <3>2, <3>3, <3>4 DEF KeyInv, AfterSave, File
  <2>3. TakenInv' /\ LateInv'
    BY <2>0, <2>a DEF GoTo, At, TakenInv, LateInv, TypeOK, server
  <2> QED BY <2>1, <2>2, <2>3
<1>4. ASSUME NEW c \in Run, Answer(c) PROVE RunInv'
  <2>0. /\ UNCHANGED <<files, server, trouble>>
        /\ At(c, "wait") /\ command[c].op \in {"register", "rotate", "destroy"}
        /\ \/ request[c] = "ok" /\ GoTo(c, AfterAnswer(c))
           \/ request[c] = "refused" /\ GoTo(c, "done")
    BY <1>4 DEF Answer, At, StepInv, TypeOK, Command, File
  <2>1. ASSUME NEW d \in Run PROVE StepInv(d)'
    BY <2>0, Went DEF At, AfterAnswer, StepInv, server, File
  <2>2. ASSUME NEW d \in Run PROVE KeyInv(d)'
    BY <2>0, Went DEF At, AfterAnswer, KeyInv, server, files, File
  <2>3. TakenInv' /\ LateInv'
    BY <2>0, Went DEF At, TakenInv, LateInv, server, files
  <2> QED BY <2>1, <2>2, <2>3
<1>5. ASSUME NEW c \in Run, NoReply(c) PROVE RunInv'
  <2>1. \A d \in Run : StepInv(d)'
    BY <1>5 DEF NoReply, At, GoTo, StepInv, TypeOK, server, File
  <2>2. \A d \in Run : KeyInv(d)'
    BY <1>5 DEF NoReply, At, GoTo, KeyInv, TypeOK, server, files
  <2>3. TakenInv' /\ LateInv'
    BY <1>5, Went DEF NoReply, At, Unheard, TakenInv, LateInv, server, files
  <2> QED BY <2>1, <2>2, <2>3
<1>6. ASSUME NEW c \in Run, WriteConfig(c) PROVE RunInv'
  <2>1. \A d \in Run : StepInv(d)'
    BY <1>6 DEF WriteConfig, At, GoTo, StepInv, TypeOK, server, File
  <2>2. \A d \in Run : KeyInv(d)'
    BY <1>6 DEF WriteConfig, At, GoTo, KeyInv, TypeOK, server
  <2>3. command[c].op = "register" /\ request[c] = "ok"
    BY <1>6 DEF WriteConfig, At, StepInv, TypeOK, Command, File
  <2>4. TakenInv' /\ LateInv'
    BY <1>6, <2>3 DEF WriteConfig, At, GoTo, TakenInv, LateInv, TypeOK, server
  <2> QED BY <2>1, <2>2, <2>4
<1>7. ASSUME NEW c \in Run, Wipe(c) PROVE RunInv'
  <2>1. \A d \in Run : StepInv(d)'
    BY <1>7 DEF Wipe, At, GoTo, StepInv, TypeOK, server, File
  <2>2. \A d \in Run : KeyInv(d)'
    <3>1. \A g \in File, d \in Run : file'[g].key = d => file[g].key = d
      BY <1>7, KeysAssumption DEF Wipe, Without
    <3> QED BY <1>7, <3>1 DEF Wipe, At, GoTo, KeyInv, TypeOK, server, File
  <2>3. TakenInv' /\ LateInv'
    BY <1>7 DEF Wipe, At, GoTo, TakenInv, LateInv, StepInv, TypeOK, server, File
  <2> QED BY <2>1, <2>2, <2>3
<1>8. ASSUME NEW c \in Run, Kill(c) PROVE RunInv'
  <2>0. /\ GoTo(c, "done") /\ UNCHANGED <<papers, server>>
        /\ config' = config \/ config' = NoName
        /\ trouble \cup Unheard(c) \subseteq trouble' \/ command[c].step \in File
        /\ trouble \subseteq trouble'
    BY <1>8 DEF Kill
  <2>1. \A d \in Run : StepInv(d)'
    BY <1>8, <2>0 DEF Kill, Running, GoTo, StepInv, TypeOK, server, File
  <2>2. ASSUME NEW d \in Run PROVE KeyInv(d)'
    <3>1. \A g \in File : file'[g].key = d => file[g].key = d
      BY <1>8, BrokenContent, KeysAssumption DEF Kill, TypeOK
    <3>2. command'[d].op = command[d].op /\ request'[d] = request[d]
          /\ command'[d].step \in {command[d].step, "done"}
      BY <2>0 DEF GoTo, TypeOK, server, Command
    <3> QED BY <3>1, <3>2 DEF KeyInv, File
  <2>3. TakenInv'
    BY <2>0 DEF GoTo, TakenInv, TypeOK, server
  <2>4. LateInv'
    BY <2>0, <1>8 DEF Kill, Running, GoTo, Unheard, At, LateInv, StepInv, TypeOK, server
  <2> QED BY <2>1, <2>2, <2>3, <2>4
<1>9. ASSUME NEW c \in Run, Check(c) PROVE RunInv'
  <2>1. \A d \in Run : StepInv(d)'
    BY <1>9 DEF Check, Genuine, StepInv, TypeOK, files
  <2>2. \A d \in Run : KeyInv(d)'
    BY <1>9 DEF Check, KeyInv, TypeOK, files
  <2>3. TakenInv' /\ LateInv'
    BY <1>9 DEF Check, At, TakenInv, LateInv, TypeOK, files
  <2> QED BY <2>1, <2>2, <2>3
<1>10. ASSUME NEW c \in Run, Apply(c) PROVE RunInv'
  <2>0. /\ UNCHANGED <<files, command, trouble>>
        /\ request[c] = "checked" /\ request'[c] \in {"ok", "refused"}
        /\ \A d \in Run : d # c => request'[d] = request[d]
        /\ request'[c] = "ok" => account' = [account EXCEPT ![command[c].name] = Becomes(c)]
        /\ request'[c] = "refused" => UNCHANGED account
        /\ Becomes(c) # Free
    BY <1>10 DEF Apply, TypeOK, Becomes, Destroyed, Live, Free
  <2>1. \A d \in Run : StepInv(d)'
    BY <2>0 DEF StepInv, files
  <2>2. \A d \in Run : KeyInv(d)'
    BY <2>0 DEF KeyInv, files
  <2>3. command[c].name \in Name
    BY <2>0 DEF StepInv, TypeOK, Command
  <2>4. \A n \in Name : account[n] # Free => account'[n] # Free
    BY <2>0, <2>3 DEF TypeOK
  <2>5. \A d \in Run : request[d] = "ok" => command[d].name \in Name
    BY DEF StepInv, TypeOK, Command
  <2>6. request'[c] = "ok" => account'[command[c].name] # Free
    BY <2>0, <2>3 DEF TypeOK
  <2>7. TakenInv'
    BY <2>0, <2>4, <2>5, <2>6 DEF TakenInv, TypeOK, files
  <2>8. LateInv'
    BY <2>0 DEF At, LateInv
  <2> QED BY <2>1, <2>2, <2>7, <2>8
<1>11. ASSUME NEW c \in Run, Refuse(c) PROVE RunInv'
  <2>1. \A d \in Run : StepInv(d)'
    BY <1>11 DEF Refuse, StepInv, TypeOK, files
  <2>2. \A d \in Run : KeyInv(d)'
    BY <1>11 DEF Refuse, KeyInv, TypeOK, files
  <2>3. TakenInv' /\ LateInv'
    BY <1>11 DEF Refuse, At, TakenInv, LateInv, TypeOK, files
  <2> QED BY <2>1, <2>2, <2>3
<1>12. CASE KeepDraft \/ SaveMail \/ UNCHANGED vars
  BY <1>12 DEF KeepDraft, SaveMail, vars, server, files, StepInv, KeyInv, TakenInv, LateInv, At
<1> QED BY <1>1, <1>2, <1>3, <1>4, <1>5, <1>6, <1>7, <1>8, <1>9, <1>10, <1>11, <1>12
        DEF Next, ClientStep, ServerStep, StartOf

-----------------------------------------------------------------------------
\* Without overlap.

LEMMA TroubleGrows ==
  ASSUME TypeOK, [Next]_vars
  PROVE  trouble \subseteq trouble'
<1>1. ASSUME NEW c \in Run, StartOf(c) PROVE trouble \subseteq trouble'
  BY <1>1, Started
<1>2. ASSUME NEW c \in Run, Look(c) \/ Save(c) \/ Answer(c) \/ NoReply(c) \/ WriteConfig(c)
             \/ Wipe(c) \/ Kill(c)
      PROVE  trouble \subseteq trouble'
  BY <1>2 DEF Look, Save, Answer, NoReply, WriteConfig, Wipe, Kill
<1>3. ASSUME NEW c \in Run, ServerStep(c) PROVE trouble \subseteq trouble'
  BY <1>3 DEF ServerStep, Check, Apply, Refuse
<1>4. CASE KeepDraft \/ SaveMail \/ UNCHANGED vars
  BY <1>4 DEF KeepDraft, SaveMail, vars
<1> QED BY <1>1, <1>2, <1>3, <1>4 DEF Next, ClientStep, StartOf

\* A step of a running command leaves at most that command running.
LEMMA StillAlone ==
  ASSUME TypeOK, Clean, CleanInv, NEW c \in Run, Running(c), NEW step, GoTo(c, step)
  PROVE  /\ \A d \in Run : Running(d)' => d = c
         /\ step = "done" => \A d \in Run : ~Running(d)'
  BY Went DEF CleanInv, Alone, Running

\* What a write, or the attempt of one, does to the files.
LEMMA Written ==
  ASSUME TypeOK, RunInv, NEW c \in Run, Save(c) \/ Kill(c)
  PROVE  \A g \in File :
            /\ file'[g] # file[g] => command[c].step = g /\ file'[g].key # Absent
            /\ file'[g].key = c \/ file'[g].key = file[g].key \/ file'[g].key = Torn
<1>1. CASE Save(c)
  BY <1>1, SavedContent, BrokenContent, KeysAssumption DEF Save, TypeOK
<1>2. CASE Kill(c)
  BY <1>2, BrokenContent, KeysAssumption DEF Kill, TypeOK
<1> QED BY <1>1, <1>2

LEMMA InitClean == Init => CleanInv
  BY DEF Init, CleanInv, Alone, Running, New

LEMMA CleanStep ==
  ASSUME TypeOK, TypeOK', RunInv, CleanInv, [Next]_vars
  PROVE  CleanInv'
<1> SUFFICES ASSUME Clean'
             PROVE  /\ Alone'
                    /\ config' # NoName => file'["kem_pk"].key # Absent /\ file'["sig_pk"].key # Absent
                    /\ \A c \in Run : Running(c)' => HoldInv(c)'
  BY DEF CleanInv
<1>0. /\ Clean
      /\ Alone
      /\ config # NoName => file["kem_pk"].key # Absent /\ file["sig_pk"].key # Absent
      /\ \A c \in Run : Running(c) => HoldInv(c)
  BY TroubleGrows DEF Clean, CleanInv
<1>1. ASSUME NEW c \in Run, StartOf(c) PROVE CleanInv'
  <2>1. \A d \in Run : ~Running(d)
    BY <1>1, Started DEF Clean
  <2>2. \A d \in Run : Running(d)' => d = c
    BY <1>1, <2>1, Started DEF Running
  <2>3. HoldInv(c)'
    BY <1>1, Started, KeysAssumption DEF HoldInv, ObsoleteInv, files, File, StepInv, RunInv
  <2>4. UNCHANGED files
    BY <1>1, Started
  <2> QED BY <1>0, <2>2, <2>3, <2>4 DEF CleanInv, Alone, files
<1>2. ASSUME NEW c \in Run, Look(c) PROVE CleanInv'
  <2>1. Running(c) /\ command[c].op = "init" /\ \E step : GoTo(c, step)
    BY <1>2 DEF Look, At, Running, RunInv, StepInv, TypeOK, Command, File
  <2>2. \A d \in Run : Running(d)' => d = c
    BY <1>0, <2>1, StillAlone
  <2>3. command'[c].op = "init" /\ (command'[c].step \in File => config = NoName)
    BY <1>0, <1>2, <2>1, Went DEF Look, At, File
  <2>4. HoldInv(c)'
    BY <1>2, <2>3 DEF Look, HoldInv, ObsoleteInv, files
  <2> QED BY <1>0, <1>2, <2>2, <2>4 DEF CleanInv, Alone, Look, files
<1>3. ASSUME NEW c \in Run, Save(c) PROVE CleanInv'
  <2> DEFINE f == command[c].step
  <2>1. /\ f \in File /\ GoTo(c, AfterSave(c, f)) /\ Running(c)
        /\ command[c].op \in {"init", "rotate"}
        /\ UNCHANGED <<config, request, account>>
    BY <1>3, SavedContent DEF Save, Running, File, server
  <2>2. \A d \in Run : Running(d)' => d = c
    BY <1>0, <2>1, StillAlone
  <2>3. /\ command'[c].op = command[c].op /\ command'[c].name = command[c].name
        /\ command'[c].step = AfterSave(c, f)
    BY <2>1, Went
  <2>4. config # NoName => file'["kem_pk"].key # Absent /\ file'["sig_pk"].key # Absent
    BY <1>0, <1>3, Written DEF File
  <2>5. ASSUME Running(c)' PROVE HoldInv(c)'
    <3>1. HoldInv(c)
      BY <1>0, <2>1
    <3>2. CASE command[c].op = "init"
      BY <2>1, <2>3, <3>1, <3>2 DEF HoldInv, ObsoleteInv
    <3>3. CASE command[c].op = "rotate"
      <4>1. config' = command'[c].name
        BY <2>1, <2>3, <3>1, <3>3 DEF HoldInv
      <4>2. CASE f = "kem_pk"
        <5>1. file'["kem_sk"] = file["kem_sk"] /\ file'["sig_sk"] = file["sig_sk"]
          BY <1>3, <4>2, Written DEF File
        <5> QED BY <2>1, <2>3, <3>1, <3>3, <4>1, <4>2, <5>1 DEF HoldInv, ObsoleteInv, File
      <4>3. CASE f \in {"kem_sk", "sig_pk"}
        <5>1. file'["sig_sk"] = file["sig_sk"]
          BY <1>3, <4>3, Written DEF File
        <5>2. command'[c].step \in {"sig_pk", "sig_sk"}
          BY <2>3, <3>3, <4>3 DEF AfterSave
        <5> QED BY <2>1, <2>3, <3>1, <3>3, <4>1, <4>3, <5>1, <5>2 DEF HoldInv, ObsoleteInv, File
      <4>4. CASE f = "sig_sk"
        BY <2>3, <2>5, <4>4 DEF AfterSave, Running
      <4> QED BY <2>1, <4>2, <4>3, <4>4 DEF File
    <3> QED BY <2>1, <3>2, <3>3
  <2> QED BY <2>1, <2>2, <2>4, <2>5 DEF CleanInv, Alone
<1>4. ASSUME NEW c \in Run, Answer(c) PROVE CleanInv'
  <2>1. Running(c) /\ (\E step : GoTo(c, step)) /\ command[c].op \in {"register", "rotate", "destroy"}
    BY <1>4 DEF Answer, At, Running, RunInv, StepInv, TypeOK, Command, File
  <2>2. \A d \in Run : Running(d)' => d = c
    BY <1>0, <2>1, StillAlone
  <2>3. ASSUME Running(c)' PROVE HoldInv(c)'
    <3>1. GoTo(c, AfterAnswer(c))
      BY <1>4, <2>3, Went DEF Answer, Running
    <3>2. /\ command'[c].op = command[c].op /\ command'[c].name = command[c].name
          /\ command'[c].signer = command[c].signer
          /\ command'[c].step = AfterAnswer(c) /\ command[c].step = "wait"
      BY <1>4, <3>1, Went DEF Answer, At
    <3>3. UNCHANGED <<files, server>> /\ HoldInv(c)
      BY <1>0, <1>4, <2>1 DEF Answer
    <3> QED BY <2>1, <3>2, <3>3 DEF HoldInv, ObsoleteInv, AfterAnswer, files, server, File
  <2> QED BY <1>0, <1>4, <2>2, <2>3 DEF CleanInv, Alone, Answer, files
<1>5. ASSUME NEW c \in Run, NoReply(c) PROVE CleanInv'
  <2>1. Running(c) /\ GoTo(c, "done")
    BY <1>5 DEF NoReply, At, Running
  <2>2. \A d \in Run : ~Running(d)'
    BY <1>0, <2>1, StillAlone
  <2> QED BY <1>0, <1>5, <2>2 DEF CleanInv, Alone, NoReply, files
<1>6. ASSUME NEW c \in Run, WriteConfig(c) PROVE CleanInv'
  <2>1. Running(c) /\ GoTo(c, "done") /\ command[c].op = "register"
    BY <1>6 DEF WriteConfig, At, Running, RunInv, StepInv, TypeOK, Command, File
  <2>2. \A d \in Run : ~Running(d)'
    BY <1>0, <2>1, StillAlone
  <2>3. file["kem_pk"].key # Absent /\ file["sig_pk"].key # Absent
    BY <1>0, <2>1 DEF HoldInv
  <2> QED BY <1>6, <2>2, <2>3 DEF CleanInv, Alone, WriteConfig
<1>7. ASSUME NEW c \in Run, Wipe(c) PROVE CleanInv'
  <2>1. Running(c) /\ GoTo(c, "done") /\ config' = NoName
    BY <1>7 DEF Wipe, At, Running
  <2>2. \A d \in Run : ~Running(d)'
    BY <1>0, <2>1, StillAlone
  <2> QED BY <2>1, <2>2 DEF CleanInv, Alone
<1>8. ASSUME NEW c \in Run, Kill(c) PROVE CleanInv'
  <2>1. Running(c) /\ GoTo(c, "done") /\ config' \in {config, NoName}
    BY <1>8 DEF Kill
  <2>2. \A d \in Run : ~Running(d)'
    BY <1>0, <2>1, StillAlone
  <2>3. config # NoName => file'["kem_pk"].key # Absent /\ file'["sig_pk"].key # Absent
    BY <1>0, <1>8, Written DEF File
  <2> QED BY <2>1, <2>2, <2>3 DEF CleanInv, Alone
<1>9. ASSUME NEW c \in Run, Check(c) \/ Refuse(c) PROVE CleanInv'
  <2>1. /\ UNCHANGED <<files, command, account>>
        /\ \A d \in Run : request'[d] = "ok" => request[d] = "ok"
    BY <1>9 DEF Check, Refuse, TypeOK
  <2>2. \A d \in Run : HoldInv(d) => HoldInv(d)'
    BY <2>1 DEF HoldInv, ObsoleteInv, files
  <2>3. \A d \in Run : Running(d)' <=> Running(d)
    BY <2>1 DEF Running
  <2> QED BY <1>0, <2>1, <2>2, <2>3 DEF CleanInv, Alone, files
<1>10. ASSUME NEW c \in Run, Apply(c) PROVE CleanInv'
  <2>0. /\ UNCHANGED <<files, command>>
        /\ request[c] = "checked" /\ request'[c] \in {"ok", "refused"}
        /\ \A d \in Run : d # c => request'[d] = request[d]
        /\ request'[c] = "ok" =>
              /\ account' = [account EXCEPT ![command[c].name] = Becomes(c)]
              /\ command[c].op = "register" => account[command[c].name] = Free
        /\ request'[c] = "refused" => UNCHANGED account
    BY <1>10 DEF Apply, TypeOK
  <2>1. ASSUME NEW d \in Run, HoldInv(d), Running(d) PROVE HoldInv(d)'
    <3> SUFFICES ASSUME command[d].op \in {"rotate", "destroy"}, request'[d] = "ok",
                        account'[config].state = "live"
                 PROVE  ObsoleteInv(d)'
      BY <2>0, <2>1 DEF HoldInv, ObsoleteInv, files
    <3>1. config = command[d].name /\ config \in Name /\ config # NoName /\ account[config] # Free
      BY <2>1, KeysAssumption DEF HoldInv, RunInv, StepInv, TakenInv
    <3>2. command[c].name \in Name /\ command[c].op \in {"register", "rotate", "destroy"}
      BY <2>0 DEF RunInv, StepInv, TypeOK, Command
    <3>3. CASE account'[config] = account[config]
      <4>1. request[d] = "ok" \/ d = c
        BY <2>0
      <4>2. CASE request[d] = "ok"
        BY <2>0, <2>1, <3>3, <4>2 DEF HoldInv, ObsoleteInv, files
      <4>3. CASE d = c
        <5>1. account[config] = Becomes(c) /\ account[config].state = "live"
          BY <2>0, <3>1, <3>3, <4>3 DEF TypeOK
        <5>2. command[c].op = "rotate" /\ account[config].kem = c /\ account[config].sig = c
          BY <3>2, <4>3, <5>1 DEF Becomes, Destroyed, Live, RunInv, StepInv
        <5>3. \A g \in File : file[g].key # c
          BY <2>0, <5>2 DEF RunInv, KeyInv
        <5> QED BY <2>0, <3>3, <4>3, <5>2, <5>3 DEF ObsoleteInv, files, File
      <4> QED BY <4>1, <4>2, <4>3
    <3>4. CASE account'[config] # account[config]
      <4>1. request'[c] = "ok" /\ command[c].name = config /\ account'[config] = Becomes(c)
        BY <2>0, <3>1, <3>2, <3>4 DEF TypeOK
      <4>2. command[c].op = "rotate"
        BY <2>0, <3>1, <3>2, <4>1 DEF Becomes, Destroyed
      <4>3. account'[config].kem = c /\ account'[config].sig = c
        BY <4>1, <4>2 DEF Becomes, Live, RunInv, StepInv
      <4>4. \A g \in File : file[g].key # c
        BY <2>0, <4>2 DEF RunInv, KeyInv
      <4> QED BY <2>0, <4>3, <4>4 DEF ObsoleteInv, files, File
    <3> QED BY <3>3, <3>4
  <2>2. \A d \in Run : Running(d)' <=> Running(d)
    BY <2>0 DEF Running
  <2> QED BY <1>0, <2>0, <2>1, <2>2 DEF CleanInv, Alone, files
<1>11. CASE KeepDraft \/ SaveMail \/ UNCHANGED vars
  <2>1. UNCHANGED <<file, config, command, request, account>>
    BY <1>11 DEF KeepDraft, SaveMail, vars, files, server
  <2> QED BY <1>0, <2>1 DEF CleanInv, Alone, Running, HoldInv, ObsoleteInv
<1> QED BY <1>1, <1>2, <1>3, <1>4, <1>5, <1>6, <1>7, <1>8, <1>9, <1>10, <1>11
        DEF Next, ClientStep, ServerStep, StartOf, CleanInv

-----------------------------------------------------------------------------
\* Keys the account has now.

LEMMA LiveKeyStep ==
  ASSUME TypeOK, RunInv, CleanInv, [Next]_vars, Clean', Mine.state = "live"
  PROVE  /\ file["kem_sk"].key = Mine.kem => file'["kem_sk"].key = Mine.kem
         /\ file["sig_sk"].key = Mine.sig => file'["sig_sk"].key = Mine.sig
<1>0. /\ Clean /\ config # NoName /\ Mine = account[config]
      /\ \A c \in Run : Running(c) => HoldInv(c)
  BY TroubleGrows DEF Clean, CleanInv, Mine, Free
<1>1. ASSUME NEW c \in Run, Save(c) \/ Kill(c)
      PROVE  /\ file["kem_sk"].key = Mine.kem => file'["kem_sk"].key = Mine.kem
             /\ file["sig_sk"].key = Mine.sig => file'["sig_sk"].key = Mine.sig
  <2>1. CASE command[c].step \notin {"kem_sk", "sig_sk"}
    BY <1>1, <2>1, Written DEF File
  <2>2. CASE command[c].step \in {"kem_sk", "sig_sk"}
    <3>1. Running(c) /\ command[c].step \in File
      BY <2>2 DEF Running, File
    <3>2. command[c].op = "rotate" /\ request[c] = "ok"
      BY <1>0, <2>2, <3>1 DEF HoldInv, RunInv, StepInv, TypeOK, Command, File
    <3>3. ObsoleteInv(c)
      BY <1>0, <3>1 DEF HoldInv
    <3>4. /\ command[c].step = "kem_sk" => file["kem_sk"].key # Mine.kem
          /\ file["sig_sk"].key # Mine.sig
      BY <1>0, <2>2, <3>1, <3>2, <3>3 DEF ObsoleteInv
    <3> QED BY <1>1, <2>2, <3>4, Written DEF File
  <2> QED BY <2>1, <2>2
<1>2. ASSUME NEW c \in Run, Wipe(c)
      PROVE  file["kem_sk"].key # Mine.kem /\ file["sig_sk"].key # Mine.sig
  <2>1. Running(c) /\ command[c].step = "wipe"
    BY <1>2 DEF Wipe, At, Running
  <2>2. command[c].op = "destroy" /\ request[c] = "ok"
    BY <2>1 DEF RunInv, StepInv, TypeOK, Command, File
  <2> QED BY <1>0, <2>1, <2>2 DEF HoldInv, ObsoleteInv
<1>3. ASSUME NEW c \in Run, \/ StartOf(c) \/ Look(c) \/ Answer(c) \/ NoReply(c)
                            \/ WriteConfig(c) \/ ServerStep(c)
      PROVE  UNCHANGED file
  BY <1>3, Started DEF Look, Answer, NoReply, WriteConfig, ServerStep, Check, Apply, Refuse, files
<1>4. CASE KeepDraft \/ SaveMail \/ UNCHANGED vars
  BY <1>4 DEF KeepDraft, SaveMail, vars, files
<1> QED BY <1>1, <1>2, <1>3, <1>4 DEF Next, ClientStep, StartOf

\* A command's own steps keep a rotation that took effect a rotation.
LEMMA RotationEnds ==
  ASSUME TypeOK, RunInv, NEW c \in Run, NEW step, GoTo(c, step), UNCHANGED request,
         ~Rotating', Rotating, step # "new"
  PROVE  command[c].op = "rotate" /\ request[c] = "ok" /\ step = "done"
<1>1. PICK d \in Run : Running(d) /\ command[d].op = "rotate" /\ request[d] = "ok"
  BY DEF Rotating
<1>2. /\ command'[d].step = IF d = c THEN step ELSE command[d].step
      /\ command'[d].op = "rotate" /\ request'[d] = "ok"
  BY <1>1, Went
<1>3. command'[d].step \in {"new", "done"}
  BY <1>2 DEF Rotating, Running
<1> QED BY <1>1, <1>2, <1>3 DEF Running

\* How the account this client goes by can have changed, when no rotation is
\* under way and none was cut off.
LEMMA AccountStep ==
  ASSUME TypeOK, TypeOK', RunInv, CleanInv, [Next]_vars, Heard', Mine'.state = "live", ~Rotating'
  PROVE  \/ Mine' = Mine /\ ~Rotating
         \/ \E c \in Run :
               /\ Save(c) /\ Running(c) /\ command[c].op = "rotate" /\ command[c].step = "sig_sk"
               /\ request[c] = "ok" /\ Mine' = account[command[c].name]
               /\ file'["sig_sk"].key = c /\ UNCHANGED file["kem_sk"]
         \/ \E c \in Run :
               /\ Running(c) /\ command[c].op = "register" /\ request[c] = "ok"
               /\ Mine' = account[command[c].name] /\ UNCHANGED file
<1>0. /\ Clean /\ Heard /\ config' # NoName
      /\ Alone
      /\ \A c \in Run : Running(c) => HoldInv(c)
  BY TroubleGrows DEF Clean, CleanInv, Heard, Mine, Free
<1>1. ASSUME NEW c \in Run, StartOf(c) PROVE Mine' = Mine /\ ~Rotating
  <2>1. \A d \in Run : Running(d) => d # c /\ command'[d] = command[d] /\ request'[d] = request[d]
    BY <1>1, Started DEF Running
  <2> QED BY <1>1, <2>1, Started DEF Rotating, Running, Mine, files
<1>2. ASSUME NEW c \in Run, Look(c) PROVE Mine' = Mine /\ ~Rotating
  <2>1. /\ \E step \in {"kem_pk", "sig", "sig_pk", "done"} : GoTo(c, step)
        /\ command[c].op = "init"
    BY <1>2 DEF Look, At, RunInv, StepInv, TypeOK, Command, File
  <2> QED BY <1>2, <2>1, RotationEnds DEF Look, Mine, files, server
<1>3. ASSUME NEW c \in Run, Save(c)
      PROVE  \/ Mine' = Mine /\ ~Rotating
             \/ /\ Running(c) /\ command[c].op = "rotate" /\ command[c].step = "sig_sk"
                /\ request[c] = "ok" /\ Mine' = account[command[c].name]
                /\ file'["sig_sk"].key = c /\ UNCHANGED file["kem_sk"]
  <2> DEFINE f == command[c].step
  <2>1. /\ f \in File /\ GoTo(c, AfterSave(c, f)) /\ Running(c)
        /\ UNCHANGED <<config, request, account>>
        /\ file' = [file EXCEPT ![f] = Saved(c, f)] \/ command[c].op \in trouble'
    BY <1>3 DEF Save, Running, File, server
  <2>2. Mine' = Mine
    BY <2>1 DEF Mine
  <2>3. CASE Rotating
    <3>1. command[c].op = "rotate" /\ request[c] = "ok" /\ AfterSave(c, f) = "done"
      BY <2>1, <2>3, RotationEnds, SavedContent
    <3>2. f = "sig_sk"
      BY <2>1, <3>1 DEF AfterSave, File
    <3>3. file' = [file EXCEPT !["sig_sk"] = Saved(c, f)]
      BY <2>1, <3>1, <3>2 DEF Heard
    <3>4. file'["sig_sk"].key = c /\ file'["kem_sk"] = file["kem_sk"]
      BY <2>1, <3>2, <3>3, SavedContent DEF TypeOK, File
    <3>5. config = command[c].name
      BY <1>0, <2>1, <3>1 DEF HoldInv
    <3>6. Mine' = account[command[c].name]
      BY <1>0, <2>1, <3>5 DEF Mine
    <3> QED BY <2>1, <3>1, <3>2, <3>4, <3>6
  <2> QED BY <2>2, <2>3
<1>4. ASSUME NEW c \in Run, Answer(c) PROVE Mine' = Mine /\ ~Rotating
  <2>1. CASE request[c] = "ok" /\ GoTo(c, AfterAnswer(c))
    <3>1. AfterAnswer(c) \notin {"new", "done"}
      BY <1>4 DEF Answer, At, AfterAnswer, RunInv, StepInv, TypeOK, Command, File
    <3> QED BY <1>4, <2>1, <3>1, RotationEnds DEF Answer, Mine, files, server
  <2>2. CASE request[c] = "refused" /\ GoTo(c, "done")
    BY <1>4, <2>2, RotationEnds DEF Answer, Mine, files, server
  <2> QED BY <1>4, <2>1, <2>2 DEF Answer
<1>5. ASSUME NEW c \in Run, NoReply(c) PROVE Mine' = Mine /\ ~Rotating
  <2>1. ~(command[c].op = "rotate" /\ request[c] = "ok")
    BY <1>5 DEF NoReply, Unheard, Heard
  <2> QED BY <1>5, <2>1, RotationEnds DEF NoReply, Mine, files, server
<1>6. ASSUME NEW c \in Run, WriteConfig(c)
      PROVE  \/ Mine' = Mine /\ ~Rotating
             \/ /\ Running(c) /\ command[c].op = "register" /\ request[c] = "ok"
                /\ Mine' = account[command[c].name] /\ UNCHANGED file
  <2>1. command[c].op = "register" /\ request[c] = "ok" /\ Running(c)
    BY <1>6 DEF WriteConfig, At, Running, RunInv, StepInv, TypeOK, Command, File
  <2>2. ~Rotating
    BY <1>6, <2>1, RotationEnds DEF WriteConfig, server
  <2>3. config' = config \/ config' = command[c].name
    BY <1>0, <1>6 DEF WriteConfig
  <2>4. Mine' = Mine \/ Mine' = account[command[c].name]
    BY <1>0, <1>6, <2>3 DEF WriteConfig, Mine, server
  <2> QED BY <1>6, <2>1, <2>2, <2>4 DEF WriteConfig
<1>7. ASSUME NEW c \in Run, Wipe(c) PROVE FALSE
  BY <1>0, <1>7 DEF Wipe
<1>8. ASSUME NEW c \in Run, Kill(c) PROVE Mine' = Mine /\ ~Rotating
  <2>1. ~(command[c].op = "rotate" /\ request[c] = "ok")
    BY <1>8 DEF Kill, Unheard, Heard
  <2>2. config' = config
    BY <1>0, <1>8 DEF Kill
  <2> QED BY <1>8, <2>1, <2>2, RotationEnds DEF Kill, Mine, server
<1>9. ASSUME NEW c \in Run, Check(c) \/ Refuse(c) PROVE Mine' = Mine /\ ~Rotating
  <2>1. \A d \in Run : request[d] = "ok" => request'[d] = "ok"
    BY <1>9 DEF Check, Refuse, TypeOK
  <2> QED BY <1>9, <2>1 DEF Check, Refuse, Rotating, Running, Mine, files
<1>10. ASSUME NEW c \in Run, Apply(c) PROVE Mine' = Mine /\ ~Rotating
  <2>0. /\ UNCHANGED <<files, command, trouble>> /\ request[c] = "checked"
        /\ \A d \in Run : d # c => request'[d] = request[d]
    BY <1>10 DEF Apply, TypeOK
  <2>1. ~Rotating
    BY <2>0 DEF Rotating, Running
  <2>2. CASE UNCHANGED account
    BY <2>0, <2>1, <2>2 DEF Mine, files
  <2>3. CASE /\ account' = [account EXCEPT ![command[c].name] = Becomes(c)]
             /\ request' = [request EXCEPT ![c] = "ok"]
             /\ command[c].op = "register" => account[command[c].name] = Free
    <3>1. command[c].name \in Name /\ command[c].op \in {"register", "rotate", "destroy"}
      BY <2>0 DEF RunInv, StepInv, TypeOK, Command
    <3>2. config = config' /\ config \in Name /\ account[config] # Free
      BY <1>0, <2>0 DEF RunInv, TakenInv, TypeOK, files
    <3>3. CASE command[c].name # config
      BY <1>0, <2>1, <2>3, <3>1, <3>2, <3>3 DEF Mine, TypeOK
    <3>4. CASE command[c].name = config
      <4>1. Mine' = Becomes(c)
        BY <1>0, <2>3, <3>1, <3>2, <3>4 DEF Mine, TypeOK
      <4>2. command[c].op = "rotate"
        BY <2>3, <3>1, <3>2, <3>4, <4>1 DEF Becomes, Destroyed
      <4>3. request'[c] = "ok"
        BY <2>3 DEF TypeOK
      <4>4. ~Running(c)
        BY <2>0, <4>2, <4>3 DEF Rotating, Running
      <4>5. At(c, "done")
        BY <4>2, <4>4 DEF Running, At, RunInv, StepInv
      <4> QED BY <1>0, <2>0, <4>2, <4>5 DEF RunInv, LateInv, Heard
    <3> QED BY <3>3, <3>4
  <2> QED BY <1>10, <2>2, <2>3 DEF Apply
<1>11. CASE KeepDraft \/ SaveMail \/ UNCHANGED vars
  BY <1>11 DEF KeepDraft, SaveMail, vars, files, server, Mine, Rotating, Running
<1> QED BY <1>1, <1>2, <1>3, <1>4, <1>5, <1>6, <1>7, <1>8, <1>9, <1>10, <1>11
        DEF Next, ClientStep, ServerStep, StartOf

-----------------------------------------------------------------------------
\* The account has what took effect, and the client the key that signs for it.

LEMMA EffectStep ==
  ASSUME TypeOK, RunInv, CleanInv, SignInv, [Next]_vars, Heard',
         NEW d \in Run, Running(d)'
  PROVE  EffectInv(d)'
<1>0. Clean /\ Heard /\ Alone /\ \A e \in Run : Running(e) => EffectInv(e)
  BY TroubleGrows DEF Clean, CleanInv, Heard, SignInv
<1>1. ASSUME NEW c \in Run, StartOf(c) PROVE EffectInv(d)'
  <2>1. request[c] = "none"
    BY <1>1, Started DEF RunInv, StepInv
  <2>2. request'[d] = "ok" => command'[d] = command[d] /\ request[d] = "ok" /\ Running(d)
    BY <1>1, <2>1, Started DEF Running
  <2> QED BY <1>0, <1>1, <2>2, Started DEF EffectInv
<1>2. ASSUME NEW c \in Run, NEW step, GoTo(c, step), Running(c), UNCHANGED server PROVE EffectInv(d)'
  BY <1>0, <1>2, Went DEF EffectInv, Running, server
<1>3. ASSUME NEW c \in Run, Check(c) \/ Refuse(c) PROVE EffectInv(d)'
  <2>1. UNCHANGED <<command, account>> /\ (request'[d] = "ok" => request[d] = "ok")
    BY <1>3 DEF Check, Refuse, TypeOK
  <2> QED BY <1>0, <2>1 DEF EffectInv, Running
<1>4. ASSUME NEW c \in Run, Apply(c) PROVE EffectInv(d)'
  <2>0. /\ UNCHANGED <<command, trouble>> /\ request[c] = "checked" /\ Running(d)
        /\ d # c => request'[d] = request[d]
    BY <1>4 DEF Apply, TypeOK, Running
  <2>1. CASE request'[c] = "refused" /\ UNCHANGED account
    BY <1>0, <2>0, <2>1 DEF EffectInv
  <2>2. CASE /\ account' = [account EXCEPT ![command[c].name] = Becomes(c)]
             /\ command[c].op = "register" => account[command[c].name] = Free
    <3>1. command[c].name \in Name /\ command[c].op \in {"register", "rotate", "destroy"}
      BY <2>0 DEF RunInv, StepInv, TypeOK, Command
    <3>2. CASE d = c
      BY <2>0, <2>2, <3>1, <3>2 DEF EffectInv, Becomes, Live, TypeOK
    <3>3. CASE d # c /\ command[d].name # command[c].name
      BY <1>0, <2>0, <2>2, <3>3 DEF EffectInv, TypeOK
    <3>4. CASE d # c /\ command[d].name = command[c].name
      <4> SUFFICES ASSUME request[d] = "ok", account'[command[c].name].state = "live"
                   PROVE  FALSE
        BY <2>0, <3>4 DEF EffectInv
      <4>1. command[c].op = "rotate"
        BY <2>2, <3>1, <3>4 DEF RunInv, TakenInv, TypeOK, Becomes, Destroyed
      <4>2. At(c, "done")
        BY <1>0, <2>0, <3>4, <4>1 DEF Alone, Running, At, RunInv, StepInv
      <4> QED BY <1>0, <2>0, <4>1, <4>2 DEF RunInv, LateInv, Heard
    <3> QED BY <3>2, <3>3, <3>4
  <2> QED BY <1>4, <2>1, <2>2 DEF Apply, TypeOK
<1>5. CASE KeepDraft \/ SaveMail \/ UNCHANGED vars
  BY <1>0, <1>5 DEF KeepDraft, SaveMail, vars, server, EffectInv, Running
<1>6. ASSUME NEW c \in Run,
             \/ Look(c) \/ Save(c) \/ Answer(c) \/ NoReply(c) \/ WriteConfig(c)
             \/ Wipe(c) \/ Kill(c)
      PROVE  EffectInv(d)'
  <2>1. (\E step : GoTo(c, step)) /\ Running(c) /\ UNCHANGED server
    BY <1>6 DEF Look, Save, Answer, NoReply, WriteConfig, Wipe, Kill, At, Running, File
  <2> QED BY <1>2, <2>1
<1> QED BY <1>1, <1>3, <1>4, <1>5, <1>6 DEF Next, ClientStep, ServerStep, StartOf

LEMMA SignStep ==
  ASSUME TypeOK, TypeOK', RunInv, CleanInv, SignInv, [Next]_vars
  PROVE  SignInv'
<1>1. Heard' => \A d \in Run : Running(d)' => EffectInv(d)'
  BY EffectStep
<1>2. ASSUME Heard', Mine'.state = "live", ~Rotating'
      PROVE  file'["sig_sk"].key = Mine'.sig
  <2>0. /\ Heard /\ Clean /\ Clean'
        /\ \A c \in Run : Running(c) => EffectInv(c) /\ HoldInv(c)
    BY <1>2, TroubleGrows DEF Clean, CleanInv, Heard, SignInv
  <2>1. CASE Mine' = Mine /\ ~Rotating
    <3>1. file["sig_sk"].key = Mine.sig
      BY <1>2, <2>0, <2>1 DEF SignInv, SignerKept, Heard
    <3> QED BY <1>2, <2>0, <2>1, <3>1, LiveKeyStep
  <2>2. ASSUME NEW c \in Run, Running(c), command[c].op = "rotate", request[c] = "ok",
               Mine' = account[command[c].name], file'["sig_sk"].key = c
        PROVE  file'["sig_sk"].key = Mine'.sig
    BY <1>2, <2>0, <2>2 DEF EffectInv, RunInv, StepInv
  <2>3. ASSUME NEW c \in Run, Running(c), command[c].op = "register", request[c] = "ok",
               Mine' = account[command[c].name], UNCHANGED file
        PROVE  file'["sig_sk"].key = Mine'.sig
    BY <1>2, <2>0, <2>3 DEF EffectInv, HoldInv, RunInv, StepInv
  <2> QED BY <1>2, <2>1, <2>2, <2>3, AccountStep
<1> QED BY <1>1, <1>2 DEF SignInv, SignerKept, Heard

-----------------------------------------------------------------------------
\* Nothing went wrong: the files match.

LEMMA InitWhole == Init => SignInv /\ WholeInv
  BY DEF Init, SignInv, WholeInv, SignerKept, ReaderKept, NoFile, Mine, Free, Running, New

\* The steps that write, when all goes well.
LEMMA SaveWhole ==
  ASSUME TypeOK, RunInv, CleanInv, WholeInv, trouble = {}, trouble' = {}, NEW c \in Run, Save(c)
  PROVE  /\ Running(c)' => WriteInv(c)'
         /\ ~Writing(c)' => Whole'
<1> DEFINE f == command[c].step
<1>1. /\ f \in File /\ file' = [file EXCEPT ![f] = Saved(c, f)] /\ GoTo(c, AfterSave(c, f))
      /\ Running(c)
  BY DEF Save, Running, File
<1>2. /\ \A g \in File : file'[g] = IF g = f THEN Saved(c, f) ELSE file[g]
      /\ Saved(c, f).key = c
      /\ Saved(c, f).lock = IF f \in Secret THEN command[c].lock ELSE Plain
      /\ command[c].op \in {"init", "rotate"}
  BY <1>1, SavedContent DEF TypeOK
<1>3. /\ command'[c].step = AfterSave(c, f)
      /\ command'[c].op = command[c].op /\ command'[c].lock = command[c].lock
  BY <1>1, Went
<1>4. WriteInv(c)
  BY <1>1 DEF WholeInv
<1>5. CASE f = "kem_pk"
  BY <1>2, <1>3, <1>4, <1>5 DEF AfterSave, WriteInv, Writing, At, NoFile, NoSig, File
<1>6. CASE f = "kem_sk"
  BY <1>2, <1>3, <1>4, <1>6 DEF AfterSave, WriteInv, Writing, At, KemSaved, NoSig, File, Secret
<1>7. CASE f = "sig_pk"
  BY <1>2, <1>3, <1>4, <1>7 DEF AfterSave, WriteInv, Writing, At, KemSaved, File
<1>8. CASE f = "sig_sk"
  BY <1>2, <1>3, <1>4, <1>8 DEF AfterSave, WriteInv, Running, At, KemSaved, Whole, Holds, File, Secret
<1> QED BY <1>1, <1>5, <1>6, <1>7, <1>8 DEF File

LEMMA FilesStep ==
  ASSUME TypeOK, RunInv, CleanInv, WholeInv, [Next]_vars, trouble' = {}
  PROVE  /\ (\A c \in Run : ~Writing(c)') => NoFile' \/ Whole'
         /\ \A c \in Run : Running(c)' => WriteInv(c)'
<1> DEFINE Good == /\ (\A c \in Run : ~Writing(c)') => NoFile' \/ Whole'
                   /\ \A c \in Run : Running(c)' => WriteInv(c)'
<1>0. /\ trouble = {} /\ Clean /\ Alone
      /\ (\A c \in Run : ~Writing(c)) => NoFile \/ Whole
      /\ \A c \in Run : Running(c) => WriteInv(c)
      /\ \A c \in Run : Writing(c) => Running(c)
  BY TroubleGrows DEF Clean, CleanInv, WholeInv, Writing, Running, File
<1>a. ASSUME UNCHANGED file PROVE (NoFile \/ Whole) => NoFile' \/ Whole'
  BY <1>a DEF NoFile, Whole, Holds
<1>1. ASSUME NEW c \in Run, StartOf(c) PROVE Good
  <2>1. NoFile \/ Whole
    BY <1>0, <1>1, Started
  <2>2. \A d \in Run : Running(d)' => d = c
    BY <1>0, <1>1, Started DEF Running
  <2>3. WriteInv(c)'
    <3>1. CASE command'[c].step = "kem" /\ command'[c].op = "init"
      BY <1>1, <2>1, <3>1, Started DEF WriteInv, At, NoFile, Whole, Holds, files
    <3>2. CASE command'[c].step = "wait"
      <4>1. command'[c].op = "register" => file'["kem_sk"].key = command'[c].kem
        BY <1>1, <2>1, Started, KeysAssumption DEF NoFile, Whole, files, File
      <4> QED BY <3>2, <4>1 DEF WriteInv, At
    <3> QED BY <1>1, <3>1, <3>2, Started
  <2> QED BY <1>1, <1>a, <2>1, <2>2, <2>3, Started DEF files
<1>2. ASSUME NEW c \in Run, Look(c) PROVE Good
  <2>1. /\ Running(c) /\ UNCHANGED file /\ WriteInv(c)
        /\ \E step : GoTo(c, step)
    BY <1>0, <1>2 DEF Look, At, Running, files
  <2>2. \A d \in Run : Running(d)' => d = c
    BY <1>0, <2>1, StillAlone
  <2>3. command'[c].op = command[c].op /\ command'[c].lock = command[c].lock /\ command[c].op = "init"
    BY <1>2, <2>1, Went DEF Look, At, RunInv, StepInv, TypeOK, Command, File
  <2>4. CASE At(c, "kem")
    <3>1. command'[c].step = IF file["kem_pk"].key = Absent THEN "kem_pk" ELSE "sig"
      BY <1>2, <2>4, Went DEF Look, At
    <3>2. NoFile \/ Whole
      BY <2>1, <2>4 DEF WriteInv
    <3>3. WriteInv(c)' /\ Writing(c)'
      BY <2>1, <2>3, <3>1, <3>2, KeysAssumption
         DEF WriteInv, Writing, At, NoFile, Whole, Holds, File
    <3> QED BY <2>2, <3>3
  <2>5. CASE At(c, "sig")
    <3>1. command'[c].step = IF file["sig_pk"].key = Absent THEN "sig_pk" ELSE "done"
      BY <1>2, <2>5, Went DEF Look, At
    <3>2. Whole \/ (KemSaved(c) /\ NoSig)
      BY <2>1, <2>5 DEF WriteInv
    <3>3. CASE file["sig_pk"].key = Absent
      <4>1. KemSaved(c) /\ NoSig
        BY <3>2, <3>3, KeysAssumption DEF Whole, Holds
      <4>2. WriteInv(c)' /\ Writing(c)'
        BY <2>1, <2>3, <3>1, <3>3, <4>1 DEF WriteInv, Writing, At, KemSaved, NoSig, File
      <4> QED BY <2>2, <4>2
    <3>4. CASE file["sig_pk"].key # Absent
      <4>1. Whole /\ ~Running(c)'
        BY <3>1, <3>2, <3>4 DEF NoSig, Running
      <4> QED BY <1>a, <2>1, <2>2, <4>1
    <3> QED BY <3>3, <3>4
  <2> QED BY <1>2, <2>4, <2>5 DEF Look
<1>3. ASSUME NEW c \in Run, Save(c) PROVE Good
  <2>1. Running(c) /\ \E step : GoTo(c, step)
    BY <1>3 DEF Save, Running, File
  <2>2. \A d \in Run : Running(d)' => d = c
    BY <1>0, <2>1, StillAlone
  <2> QED BY <1>0, <1>3, <2>2, SaveWhole
\* A command that was not writing goes on, and touches no file.
<1>4. ASSUME NEW c \in Run, Running(c), ~Writing(c), UNCHANGED file,
             NEW step \in {"kem_pk", "name", "wipe", "done"}, GoTo(c, step),
             step = "kem_pk" => command[c].op # "init"
      PROVE  Good
  <2>1. \A d \in Run : Running(d)' => d = c
    BY <1>0, <1>4, StillAlone
  <2>2. NoFile \/ Whole
    BY <1>0, <1>4 DEF Alone
  <2>3. WriteInv(c)'
    <3>1. command'[c].op = command[c].op /\ command'[c].kem = command[c].kem /\ command'[c].step = step
      BY <1>4, Went
    <3>2. WriteInv(c)
      BY <1>0, <1>4
    <3> QED BY <1>4, <3>1, <3>2 DEF WriteInv, At
  <2> QED BY <1>4, <1>a, <2>1, <2>2, <2>3
<1>5. ASSUME NEW c \in Run, Answer(c) PROVE Good
  <2>1. Running(c) /\ ~Writing(c) /\ UNCHANGED file
    BY <1>5 DEF Answer, At, Running, Writing, File, files
  <2>2. command[c].op \in {"register", "rotate", "destroy"}
    BY <1>5 DEF Answer, At, RunInv, StepInv, TypeOK, Command, File
  <2>3. AfterAnswer(c) \in {"kem_pk", "name", "wipe"}
    BY <2>2 DEF AfterAnswer
  <2> QED BY <1>4, <1>5, <2>1, <2>2, <2>3 DEF Answer
<1>6. ASSUME NEW c \in Run, NoReply(c) \/ WriteConfig(c) PROVE Good
  <2>1. Running(c) /\ ~Writing(c) /\ UNCHANGED file /\ GoTo(c, "done")
    BY <1>6 DEF NoReply, WriteConfig, At, Running, Writing, File, files
  <2> QED BY <1>4, <2>1
<1>7. ASSUME NEW c \in Run, Kill(c) PROVE Good
  <2>1. Running(c) /\ UNCHANGED file /\ GoTo(c, "done") /\ command[c].op # "init" /\ command[c].step \notin File
    BY <1>7 DEF Kill
  <2>2. ~Writing(c)
    BY <2>1 DEF Writing, RunInv, StepInv, TypeOK, Command, Running, File
  <2> QED BY <1>4, <2>1, <2>2
<1>8. ASSUME NEW c \in Run, Wipe(c) PROVE Good
  <2>1. Running(c) /\ GoTo(c, "done") /\ file' = Without(4)
    BY <1>8 DEF Wipe, At, Running
  <2>2. \A d \in Run : ~Running(d)'
    BY <1>0, <2>1, StillAlone
  <2>3. \A g \in File : \E i \in 1 .. 4 : Removal[i] = g
    BY DEF Removal, File
  <2>4. NoFile'
    BY <2>1, <2>3 DEF NoFile, Without
  <2> QED BY <2>2, <2>4
<1>9. CASE UNCHANGED <<file, command>>
  BY <1>0, <1>9, <1>a DEF Writing, Running, WriteInv, At, NoFile, Whole, Holds, KemSaved, NoSig
<1>10. ASSUME NEW c \in Run, ServerStep(c) PROVE UNCHANGED <<file, command>>
  BY <1>10 DEF ServerStep, Check, Apply, Refuse, files
<1>11. CASE KeepDraft \/ SaveMail \/ UNCHANGED vars
  BY <1>9, <1>11 DEF KeepDraft, SaveMail, vars, files
<1> QED BY <1>1, <1>2, <1>3, <1>5, <1>6, <1>7, <1>8, <1>9, <1>10, <1>11 DEF Next, ClientStep, StartOf

LEMMA WholeStep ==
  ASSUME TypeOK, TypeOK', RunInv, CleanInv, SignInv, WholeInv, [Next]_vars
  PROVE  WholeInv'
<1>1. ASSUME trouble' = {}, Mine'.state = "live", ~Rotating'
      PROVE  file'["kem_sk"].key = Mine'.kem
  <2>0. /\ trouble = {} /\ Heard' /\ Clean'
        /\ \A c \in Run : Running(c) => EffectInv(c) /\ WriteInv(c)
    BY <1>1, TroubleGrows DEF Clean, Heard, SignInv, WholeInv
  <2>1. CASE Mine' = Mine /\ ~Rotating
    <3>1. file["kem_sk"].key = Mine.kem
      BY <1>1, <2>0, <2>1 DEF WholeInv, ReaderKept
    <3> QED BY <1>1, <2>0, <2>1, <3>1, LiveKeyStep
  <2>2. ASSUME NEW c \in Run, Running(c), command[c].op = "rotate", command[c].step = "sig_sk",
               request[c] = "ok", Mine' = account[command[c].name], UNCHANGED file["kem_sk"]
        PROVE  file'["kem_sk"].key = Mine'.kem
    BY <1>1, <2>0, <2>2 DEF EffectInv, WriteInv, KemSaved, At, RunInv, StepInv
  <2>3. ASSUME NEW c \in Run, Running(c), command[c].op = "register", request[c] = "ok",
               Mine' = account[command[c].name], UNCHANGED file
        PROVE  file'["kem_sk"].key = Mine'.kem
    BY <1>1, <2>0, <2>3 DEF EffectInv, WriteInv
  <2> QED BY <1>1, <2>0, <2>1, <2>2, <2>3, AccountStep
<1> QED BY <1>1, FilesStep DEF WholeInv, ReaderKept

-----------------------------------------------------------------------------
\* What is sealed.

\* A rotation that took effect has done so for good.
LEMMA RotatedStays ==
  ASSUME TypeOK, RunInv, [Next]_vars, Rotated
  PROVE  Rotated'
<1>1. PICK d \in Run : command[d].op = "rotate" /\ request[d] = "ok"
  BY DEF Rotated
<1>2. command[d].step # "new"
  BY <1>1 DEF RunInv, StepInv
<1>3. command'[d].op = "rotate"
  <2>1. ASSUME NEW c \in Run, StartOf(c) PROVE command'[d].op = "rotate"
    BY <1>1, <1>2, <2>1, Started
  <2>2. ASSUME NEW c \in Run, NEW step, GoTo(c, step) PROVE command'[d].op = "rotate"
    BY <1>1, <2>2, Went
  <2>3. CASE UNCHANGED command
    BY <1>1, <2>3
  <2>4. ASSUME NEW c \in Run, ClientStep(c) PROVE command'[d].op = "rotate"
    BY <2>1, <2>2, <2>4 DEF ClientStep, StartOf, Look, Save, Answer, NoReply, WriteConfig, Wipe, Kill
  <2>5. ASSUME NEW c \in Run, ServerStep(c) PROVE UNCHANGED command
    BY <2>5 DEF ServerStep, Check, Apply, Refuse
  <2> QED BY <2>3, <2>4, <2>5 DEF Next, KeepDraft, SaveMail, vars
<1>4. request'[d] = "ok"
  <2>1. ASSUME NEW c \in Run, StartOf(c) PROVE request'[d] = "ok"
    BY <1>1, <1>2, <2>1, Started
  <2>2. ASSUME NEW c \in Run, ServerStep(c) PROVE request'[d] = "ok"
    <3>1. d # c \/ request[c] \notin {"sent", "checked"}
      BY <1>1
    <3>2. request[c] \in {"sent", "checked"} /\ \E s : request' = [request EXCEPT ![c] = s]
      BY <2>2 DEF ServerStep, Check, Apply, Refuse
    <3> QED BY <1>1, <3>1, <3>2 DEF TypeOK
  <2>3. ASSUME NEW c \in Run, ClientStep(c), ~StartOf(c) PROVE UNCHANGED request
    BY <2>3 DEF ClientStep, StartOf, Look, Save, Answer, NoReply, WriteConfig, Wipe, Kill, server
  <2> QED BY <1>1, <2>1, <2>2, <2>3 DEF Next, KeepDraft, SaveMail, vars, server
<1> QED BY <1>3, <1>4 DEF Rotated

LEMMA PaperStep ==
  ASSUME TypeOK, RunInv, CleanInv, SignInv, WholeInv, PaperInv, [Next]_vars
  PROVE  PaperInv'
<1> SUFFICES ASSUME trouble' = {}, ~Rotated'
             PROVE  papers' \subseteq {file'["kem_pk"].key}
  BY DEF PaperInv
<1>0. /\ trouble = {} /\ ~Rotated /\ Clean
      /\ papers \subseteq {file["kem_pk"].key}
  BY TroubleGrows, RotatedStays DEF PaperInv, Clean
<1>1. CASE UNCHANGED <<file, papers>>
  BY <1>0, <1>1
<1>2. ASSUME NEW c \in Run, Save(c)
      PROVE  papers' \subseteq {file'["kem_pk"].key}
  <2>1. /\ command[c].step \in File /\ papers' = papers
        /\ file' = [file EXCEPT ![command[c].step] = Saved(c, command[c].step)]
    BY <1>2 DEF Save
  <2>2. CASE command[c].step = "kem_pk"
    <3>1. command[c].op = "init"
      <4>1. command[c].op \in {"init", "rotate"} /\ (command[c].op = "rotate" => request[c] = "ok")
        BY <2>1, SavedContent DEF RunInv, StepInv
      <4> QED BY <1>0, <4>1 DEF Rotated
    <3>2. NoFile
      BY <1>0, <2>1, <2>2, <3>1 DEF WholeInv, WriteInv, Running, At
    <3>3. papers = {}
      BY <1>0, <3>2, KeysAssumption DEF NoFile, File, TypeOK
    <3> QED BY <2>1, <3>3
  <2>3. CASE command[c].step # "kem_pk"
    BY <1>0, <2>1, <2>3 DEF TypeOK, File
  <2> QED BY <2>2, <2>3
<1>3. ASSUME NEW c \in Run, Wipe(c)
      PROVE  papers' \subseteq {file'["kem_pk"].key}
  BY <1>3 DEF Wipe
<1>4. ASSUME NEW c \in Run, Kill(c)
      PROVE  UNCHANGED <<file, papers>>
  BY <1>4 DEF Kill
<1>5. CASE KeepDraft
  BY <1>0, <1>5 DEF KeepDraft
<1>6. CASE SaveMail
  <2>1. /\ config # NoName /\ account[config].state = "live" /\ file' = file
        /\ papers' = papers \cup {account[config].kem}
    BY <1>6 DEF SaveMail
  <2>2. file["kem_sk"].key = account[config].kem
    BY <1>0, <2>1 DEF WholeInv, ReaderKept, Mine, Rotating, Rotated
  <2>3. file["kem_pk"].key # Absent
    BY <1>0, <2>1 DEF CleanInv
  <2>4. file["kem_sk"].key = file["kem_pk"].key
    <3>1. CASE \A c \in Run : ~Writing(c)
      BY <1>0, <2>3, <3>1 DEF WholeInv, NoFile, Whole, File
    <3>2. ASSUME NEW c \in Run, Writing(c)
          PROVE  file["kem_sk"].key = file["kem_pk"].key
      <4>1. Running(c) /\ HoldInv(c) /\ WriteInv(c)
        BY <1>0, <3>2 DEF Writing, Running, File, CleanInv, WholeInv
      <4>2. command[c].op = "init"
        BY <1>0, <3>2 DEF Writing, RunInv, StepInv, Rotated, TypeOK, Command, File
      <4>3. At(c, "sig")
        BY <2>1, <3>2, <4>1, <4>2 DEF Writing, HoldInv, At
      <4> QED BY <4>1, <4>3 DEF WriteInv, Whole, KemSaved
    <3> QED BY <3>1, <3>2
  <2> QED BY <1>0, <2>1, <2>2, <2>4
<1>7. ASSUME NEW c \in Run, StartOf(c) \/ Look(c) \/ Answer(c) \/ NoReply(c) \/ WriteConfig(c)
      PROVE  UNCHANGED <<file, papers>>
  BY <1>7, Started DEF Look, Answer, NoReply, WriteConfig, files
<1>8. ASSUME NEW c \in Run, ServerStep(c)
      PROVE  UNCHANGED <<file, papers>>
  BY <1>8 DEF ServerStep, Check, Apply, Refuse, files
<1>9. CASE UNCHANGED vars
  BY <1>1, <1>9 DEF vars, files
<1> QED BY <1>1, <1>2, <1>3, <1>4, <1>5, <1>6, <1>7, <1>8, <1>9 DEF Next, ClientStep, StartOf

-----------------------------------------------------------------------------
\* The theorems.

\* The layers above are an inductive invariant of the commands init, register,
\* rotate and destroy, however they are cut off and however they overlap.
THEOREM Invariance == Spec => []IInv
<1>1. Init => IInv
  <2>1. Init => PaperInv
    BY DEF Init, PaperInv
  <2> QED BY <2>1, InitTypes, InitRuns, InitClean, InitWhole DEF IInv
<1>2. IInv /\ [Next]_vars => IInv'
  <2> SUFFICES ASSUME IInv, [Next]_vars PROVE IInv'
    OBVIOUS
  <2>1. TypeOK /\ RunInv /\ CleanInv /\ SignInv /\ WholeInv /\ PaperInv
    BY DEF IInv
  <2>2. TypeOK'
    BY <2>1, TypeStep
  <2>3. RunInv' /\ CleanInv' /\ SignInv' /\ WholeInv'
    BY <2>1, <2>2, RunStep, CleanStep, SignStep, WholeStep
  <2>4. PaperInv'
    BY <2>1, PaperStep
  <2> QED BY <2>2, <2>3, <2>4 DEF IInv
<1> QED BY <1>1, <1>2, PTL DEF Spec

\* Every state of the files, the commands and the accounts is well formed.
THEOREM TypeCorrect == Spec => []TypeOK
  BY Invariance, PTL DEF IInv

\* The key that signs for the account is in sig_sk.bin, unless a rotation was
\* cut off or commands overlapped (account.c shyake_rotate).
THEOREM SignerIsKept == Spec => []SignerKept
<1>1. IInv => SignerKept
  BY DEF IInv, SignInv
<1> QED BY <1>1, Invariance, PTL

\* The key that opens the account's mail is in kem_sk.bin, unless something
\* went wrong (libshyake.c shyake_generate_keys, account.c shyake_rotate).
THEOREM ReaderIsKept == Spec => []ReaderKept
<1>1. IInv => ReaderKept
  BY DEF IInv, WholeInv
<1> QED BY <1>1, Invariance, PTL

\* One passphrase opens both secret keys of an idle client to which nothing
\* happened (passphrase.c save_sk_encrypted).
THEOREM OnePassphraseOpens == Spec => []OnePassphrase
<1>1. IInv => OnePassphrase
  BY KeysAssumption DEF IInv, WholeInv, Whole, NoFile, Writing, Running, OnePassphrase, Holds, File
<1> QED BY <1>1, Invariance, PTL

\* Drafts and saved mail are sealed to the key in kem_sk.bin, whatever became of
\* init, of register, and of rotations the instance refused (mail.c
\* shyake_save_draft, shyake_save; account.c shyake_rotate).
THEOREM PapersStayReadable == Spec => []PapersReadable
<1>1. IInv => PapersReadable
  <2> SUFFICES ASSUME IInv, trouble = {}, \A c \in Run : ~Running(c), ~Rotated
               PROVE  papers \subseteq {file["kem_sk"].key}
    BY DEF PapersReadable, Rotated
  <2>1. NoFile \/ Whole
    BY DEF IInv, WholeInv, Writing, Running, File
  <2>2. file["kem_sk"].key = file["kem_pk"].key
    BY <2>1 DEF NoFile, Whole, File
  <2> QED BY <2>2 DEF IInv, PaperInv
<1> QED BY <1>1, Invariance, PTL

\* No step takes a key the account has now from its file, unless commands
\* overlapped (libshyake.c shyake_generate_keys, account.c shyake_rotate,
\* main.c destroy).
THEOREM LiveKeysStay == Spec => LiveKeyStays
<1> DEFINE Stays == Mine.state = "live" /\ "overlap" \notin trouble' =>
          /\ file["kem_sk"].key = Mine.kem => file'["kem_sk"].key = Mine.kem
          /\ file["sig_sk"].key = Mine.sig => file'["sig_sk"].key = Mine.sig
<1>1. IInv /\ [Next]_vars => [Stays]_vars
  BY LiveKeyStep DEF IInv, Clean
<1> QED BY <1>1, Invariance, PTL DEF Spec, LiveKeyStays
=============================================================================
