---------------------------- MODULE UpdateProofs ----------------------------
(***************************************************************************)
(* What instances say of releases and what updates do to the program, for  *)
(* any number of handlers and runs, any releases and any times.            *)
(***************************************************************************)
EXTENDS Update, WellFoundedInduction, TLAPS

-----------------------------------------------------------------------------
\* A set of naturals with an upper bound has a greatest.
LEMMA MaxOfBounded ==
    ASSUME NEW N \in Nat, NEW S \in SUBSET (0 .. N), S # {}
    PROVE  Max(S) \in S /\ \A x \in S : Max(S) >= x
<1> DEFINE T == {N - x : x \in S}
<1>1. T \subseteq Nat
  OBVIOUS
<1>2. PICK t \in T : \A u \in T : t <= u
  <2> DEFINE R == OpToRel(<, Nat)
  <2>1. \A x, y \in Nat : x < y => <<x, y>> \in R
    BY DEF OpToRel
  <2>2. IsWellFoundedOn(R, Nat)
    BY NatLessThanWellFounded
  <2> HIDE DEF R
  <2>3. T # {}
    OBVIOUS
  <2>4. PICK t \in T : \A u \in T : <<u, t>> \notin R
    BY <1>1, <2>2, <2>3, WFMin
  <2> HIDE DEF T
  <2>5. ASSUME NEW u \in T
        PROVE  t <= u
    <3>1. u \in Nat /\ t \in Nat
      BY <1>1
    <3>2. ~(u < t)
      BY <2>1, <2>4, <3>1, Zenon
    <3>3. QED
      BY <3>1, <3>2
  <2>6. QED
    BY <2>5
<1>3. PICK m \in S : t = N - m
  OBVIOUS
<1>4. \A x \in S : m >= x
  BY <1>2, <1>3
<1>5. QED
  BY <1>4 DEF Max

-----------------------------------------------------------------------------
\* News name releases of their channel, and digests of builds that were there.
OfferOK(offer, channel) ==
    /\ offer \in Offer
    /\ offer.release # 0 => Kind[offer.release] = channel
    /\ offer.digest # 0 => offer.digest % 2 = 1

NewsOK(news) ==
    /\ news \in News
    /\ OfferOK(news.stable, "stable")
    /\ OfferOK(news.preview, "preview")

AllNewsOK ==
    /\ NewsOK(cache.news)
    /\ NewsOK(flight.news)
    /\ \A h \in Handler : NewsOK(handler[h].news)

LEMMA NoNewsOK == NewsOK(NoNews)
BY VersionsAssumption DEF NewsOK, News, NoNews, OfferOK, Offer, Nothing, Never

LEMMA NewestOK ==
    ASSUME VersionsTypeOK, NEW channel \in Channel
    PROVE  OfferOK(Newest(channel), channel)
<1> DEFINE S == {0} \cup {i \in 1 .. listed : Kind[i] = channel}
<1>1. S \in SUBSET (0 .. Last) /\ S # {} /\ Last \in Nat
  BY VersionsAssumption DEF VersionsTypeOK, Release
<1>2. Max(S) \in S
  BY <1>1, MaxOfBounded
<1> DEFINE n == Max(S)
<1>3. n \in 0 .. Last /\ (n # 0 => Kind[n] = channel /\ n \in Release)
  BY <1>1, <1>2 DEF Release
<1> HIDE DEF S
<1>4. n # 0 => build[n] \in Nat
  BY <1>3 DEF VersionsTypeOK
<1> HIDE DEF n
<1>5. Newest(channel) = [release |-> n, digest |-> IF n > 0 /\ IsThere(n) THEN build[n] ELSE 0]
  BY DEF Newest, n, S
<1>6. QED
  BY <1>3, <1>4, <1>5 DEF OfferOK, Offer, IsThere

LEMMA SummaryOK ==
    ASSUME VersionsTypeOK
    PROVE  NewsOK([stable |-> Newest("stable"), preview |-> Newest("preview"), taken |-> clock])
<1>1. OfferOK(Newest("stable"), "stable") /\ OfferOK(Newest("preview"), "preview")
  BY NewestOK DEF Channel
<1>2. clock \in Nat
  BY DEF VersionsTypeOK
<1>3. QED
  BY <1>1, <1>2 DEF NewsOK, News, OfferOK

VersionsInv == VersionsTypeOK /\ AllNewsOK

LEMMA VersionsStart == UpdateInit => VersionsInv
<1> SUFFICES ASSUME UpdateInit
             PROVE  VersionsInv
  OBVIOUS
<1> USE VersionsAssumption, NoNewsOK
<1>1. VersionsInit
  BY DEF UpdateInit
<1>2. NoNews \in News
  BY DEF NewsOK
<1>3. VersionsTypeOK
  <2>1. listed \in Release /\ build \in [Release -> Nat] /\ clock \in Nat
    BY <1>1 DEF VersionsInit, Release
  <2>2. NoFlight \in [began : Nat \cup {Never}, news : News]
    BY <1>2 DEF NoFlight
  <2>3. QED
    BY <1>1, <1>2, <2>1, <2>2 DEF VersionsInit, VersionsTypeOK, Idle
<1>4. AllNewsOK
  BY <1>1 DEF VersionsInit, AllNewsOK, NoFlight, Idle
<1>5. QED
  BY <1>3, <1>4 DEF VersionsInv

\* An answer is taken, or dropped.
Answered(h) ==
    /\ handler' = [handler EXCEPT ![h] = Idle]
    /\ UNCHANGED <<clock, listed, build, cache, flight, wentBack>>

VersionsStep ==
    \/ Relay
    \/ \E h \in Handler : Look(h) \/ Answered(h)
    \/ UNCHANGED versionVars

LEMMA VersionsKept == VersionsInv /\ VersionsStep => VersionsInv'
<1> SUFFICES ASSUME VersionsTypeOK, AllNewsOK, VersionsStep
             PROVE  VersionsTypeOK' /\ AllNewsOK'
  BY DEF VersionsInv
<1> USE VersionsAssumption
<1>1. CASE Tick \/ Publish
  <2>1. clock' \in Nat /\ listed' \in Release
    BY <1>1 DEF Tick, Publish, VersionsTypeOK, Release
  <2>2. UNCHANGED <<build, cache, flight, handler, wentBack>>
    BY <1>1 DEF Tick, Publish
  <2>3. QED
    BY <2>1, <2>2 DEF VersionsTypeOK, AllNewsOK
<1>2. ASSUME NEW n \in Release, Upload(n)
      PROVE  VersionsTypeOK' /\ AllNewsOK'
  BY <1>2 DEF Upload, VersionsTypeOK, AllNewsOK, NewsOK
<1>3. CASE Read
  <2> DEFINE s == [stable |-> Newest("stable"), preview |-> Newest("preview"), taken |-> clock]
  <2>1. NewsOK(s)
    BY SummaryOK
  <2>2. flight' = [flight EXCEPT !.news = s]
    BY <1>3 DEF Read
  <2> HIDE DEF s
  <2>3. QED
    BY <1>3, <2>1, <2>2 DEF Read, VersionsTypeOK, AllNewsOK, NewsOK
<1>4. CASE Land
  BY <1>4, NoNewsOK DEF Land, VersionsTypeOK, AllNewsOK, NewsOK, NoFlight, Never
<1>5. CASE Break
  BY <1>5, NoNewsOK DEF Break, FailedWith, VersionsTypeOK, AllNewsOK, NewsOK, NoFlight, Never
<1>6. ASSUME NEW h \in Handler, Do(h)
      PROVE  VersionsTypeOK' /\ AllNewsOK'
  BY <1>6, NoNewsOK DEF Do, VersionsTypeOK, AllNewsOK, NewsOK, NoFlight, Never
<1>7. ASSUME NEW h \in Handler, Store(h)
      PROVE  VersionsTypeOK' /\ AllNewsOK'
  BY <1>7 DEF Store, VersionsTypeOK, AllNewsOK, NewsOK
<1>8. ASSUME NEW h \in Handler, Look(h)
      PROVE  VersionsTypeOK' /\ AllNewsOK'
  BY <1>8 DEF Look, VersionsTypeOK, AllNewsOK, NewsOK
<1>9. ASSUME NEW h \in Handler, Answered(h)
      PROVE  VersionsTypeOK' /\ AllNewsOK'
  BY <1>9, NoNewsOK DEF Answered, VersionsTypeOK, AllNewsOK, NewsOK, Idle
<1>10. CASE UNCHANGED versionVars
  BY <1>10 DEF versionVars, VersionsTypeOK, AllNewsOK, NewsOK
<1>11. QED
  BY <1>1, <1>2, <1>3, <1>4, <1>5, <1>6, <1>7, <1>8, <1>9, <1>10 DEF VersionsStep, Relay

-----------------------------------------------------------------------------
\* What runs know and what they find in their files.  A run that no other one
\* met has the files to itself.

Run ==
    [at      : {"no", "asking", "chosen", "downloading", "downloaded", "verified",
                "unpacked", "copying", "copied"},
     running : 0 .. Last,
     target  : 0 .. Last,
     digest  : Nat,
     opened  : File,
     trouble : SUBSET Trouble]

RunsTypeOK ==
    /\ locks \in BOOLEAN /\ spoiled \in BOOLEAN
    /\ program \in File \ {NoFile} /\ tarball \in File /\ unpacked \in File
    /\ run \in [Handler -> Run]
    /\ told \in {"nothing", "failed", "updated"}

Alone(c) == "another update" \notin run[c].trouble

Wanted(c) == [release |-> run[c].target, build |-> run[c].digest]

\* A run has chosen a build that was there, and met nothing before it downloads.
ChosenInv ==
    \A c \in Handler :
        /\ run[c].at \notin {"no", "asking"} =>
               run[c].target \in Release /\ run[c].digest % 2 = 1
        /\ c \notin AtWork => run[c].trouble = {}
        /\ run[c].at = "copying" => run[c].opened # NoFile

\* Two runs at work have met.
MeetInv ==
    /\ \A c, d \in AtWork : c # d => ~Alone(c)
    /\ \A c \in Handler : ~Alone(c) => spoiled

FilesOf(c) ==
    /\ run[c].at = "downloaded" /\ run[c].trouble = {} => tarball = Wanted(c)
    /\ run[c].at = "verified" => tarball = Wanted(c)
    /\ run[c].at = "unpacked" => unpacked = Wanted(c)
    /\ run[c].at = "copying" => run[c].opened = Wanted(c)
    /\ run[c].at = "copied" => program = Wanted(c)

FilesInv == \A c \in Handler : Alone(c) => FilesOf(c)

RunsInv == RunsTypeOK /\ ChosenInv /\ MeetInv /\ FilesInv /\ ProgramRuns

LEMMA NobodyIsRun == NotRunning \in Run
BY VersionsAssumption DEF NotRunning, Run, File

LEMMA RunsStart == UpdateInit => RunsInv
<1> SUFFICES ASSUME UpdateInit
             PROVE  RunsInv
  OBVIOUS
<1> USE VersionsAssumption DEF UpdateInit
<1>1. RunsTypeOK
  <2>1. program \in File /\ tarball \in File /\ unpacked \in File /\ program # NoFile
    BY DEF File, Whole, Release, NoFile
  <2>2. QED
    BY <2>1, NobodyIsRun DEF RunsTypeOK
<1>2. ChosenInv /\ MeetInv /\ FilesInv
  BY DEF NotRunning, ChosenInv, MeetInv, FilesInv, FilesOf, AtWork, Alone
<1>3. ProgramRuns
  BY DEF ProgramRuns, Torn
<1>4. QED
  BY <1>1, <1>2, <1>3 DEF RunsInv

\* What is wanted is a build, and neither a part of a file nor none.
LEMMA WantedIsWhole ==
    ASSUME RunsTypeOK, ChosenInv, NEW c \in Handler, run[c].at \notin {"no", "asking"}
    PROVE  Wanted(c) \in Whole /\ Wanted(c) # Torn /\ Wanted(c) # NoFile
BY VersionsAssumption DEF RunsTypeOK, Run, ChosenInv, Wanted, Whole, Torn, NoFile, Release

\* Steps of runs that are not at work leave the files to the others.
LEMMA QuietKeeps ==
    ASSUME RunsInv, RunsTypeOK', UNCHANGED spoiled,
           UNCHANGED files \/ (AtWork = {} /\ program' = program),
           \A d \in Handler :
              \/ run'[d] = run[d]
              \/ /\ d \notin AtWork
                 /\ run'[d].at \in {"no", "asking", "chosen"}
                 /\ run'[d].trouble = {}
                 /\ run'[d].at = "chosen" =>
                       run'[d].target \in Release /\ run'[d].digest % 2 = 1
    PROVE  RunsInv'
<1>1. /\ RunsTypeOK /\ ChosenInv /\ MeetInv /\ FilesInv /\ ProgramRuns
      /\ program' = program /\ spoiled' = spoiled
      /\ \/ tarball' = tarball /\ unpacked' = unpacked
         \/ AtWork = {}
  BY DEF RunsInv, files
<1>2. AtWork' = AtWork /\ \A d \in AtWork : run'[d] = run[d]
  BY DEF AtWork
<1>3. \A d \in Handler : d \notin AtWork =>
         Alone(d)' /\ run[d].at \in {"no", "asking", "chosen"}
                   /\ run'[d].at \in {"no", "asking", "chosen"}
  BY <1>1 DEF Alone, ChosenInv, AtWork
<1>4. ChosenInv'
  BY <1>1, <1>2 DEF ChosenInv
<1>5. MeetInv'
  <2>1. \A d \in AtWork : Alone(d)' = Alone(d)
    BY <1>2 DEF Alone
  <2>2. \A d \in Handler : ~Alone(d)' => d \in AtWork
    BY <1>3
  <2>3. AtWork \subseteq Handler
    BY DEF AtWork
  <2>4. QED
    BY <1>1, <1>2, <2>1, <2>2, <2>3 DEF MeetInv
<1>6. FilesInv'
  <2>1. CASE tarball' = tarball /\ unpacked' = unpacked
    <3>1. ASSUME NEW d \in AtWork, Alone(d)'
          PROVE  FilesOf(d)'
      <4>1. d \in Handler /\ run'[d] = run[d]
        BY <1>2 DEF AtWork
      <4>2. Alone(d) /\ Wanted(d)' = Wanted(d)
        BY <3>1, <4>1 DEF Alone, Wanted
      <4>3. FilesOf(d)
        BY <1>1, <4>1, <4>2 DEF FilesInv
      <4>4. QED
        BY <1>1, <2>1, <4>1, <4>2, <4>3 DEF FilesOf
    <3>2. ASSUME NEW d \in Handler, d \notin AtWork
          PROVE  FilesOf(d)'
      BY <1>3, <3>2 DEF FilesOf
    <3>3. QED
      BY <3>1, <3>2 DEF FilesInv
  <2>2. CASE AtWork = {}
    BY <1>3, <2>2 DEF FilesInv, FilesOf
  <2>3. QED
    BY <1>1, <2>1, <2>2
<1>7. ProgramRuns'
  BY <1>1, <1>2, <1>3 DEF ProgramRuns
<1>8. QED
  BY <1>4, <1>5, <1>6, <1>7 DEF RunsInv

LEMMA QuietSteps ==
    ASSUME VersionsInv, RunsInv, NEW c \in Handler,
           Start(c) \/ NoAnswer(c) \/ Drop(c) \/ \E op \in Op : Choose(c, op)
    PROVE  RunsInv'
<1> USE VersionsAssumption
<1>1. RunsTypeOK
  BY DEF RunsInv
<1>2. CASE Start(c)
  <2>1. /\ run[c].at = "no" /\ program \in Whole
        /\ run' = [run EXCEPT ![c] =
              [NotRunning EXCEPT !.at = "asking", !.running = program.release]]
        /\ told' = "nothing" /\ UNCHANGED <<locks, files, spoiled>>
    BY <1>1, <1>2 DEF Start, RunsTypeOK, NotRunning, File
  <2>2. program.release \in 0 .. Last
    BY <2>1 DEF Whole, Release
  <2> DEFINE new == [NotRunning EXCEPT !.at = "asking", !.running = program.release]
  <2>3. /\ run'[c] = new /\ \A d \in Handler : d # c => run'[d] = run[d]
        /\ new.at = "asking" /\ new.trouble = {}
        /\ c \notin AtWork
    BY <1>1, <2>1 DEF RunsTypeOK, NotRunning, AtWork
  <2>4. new \in Run
    BY <2>2, NobodyIsRun DEF Run, NotRunning
  <2> HIDE DEF new
  <2>5. RunsTypeOK'
    BY <1>1, <2>1, <2>4 DEF RunsTypeOK, files, new
  <2>6. QED
    BY <2>1, <2>3, <2>5, QuietKeeps
<1>3. CASE NoAnswer(c)
  <2>1. /\ run[c].at = "asking" /\ run' = [run EXCEPT ![c] = NotRunning]
        /\ told' = "nothing" /\ UNCHANGED <<locks, files, spoiled>>
    BY <1>3 DEF NoAnswer, End
  <2>2. /\ run'[c] = NotRunning /\ \A d \in Handler : d # c => run'[d] = run[d]
        /\ c \notin AtWork
    BY <1>1, <2>1 DEF RunsTypeOK, AtWork
  <2>3. RunsTypeOK'
    BY <1>1, <2>1, NobodyIsRun DEF RunsTypeOK, files
  <2>4. QED
    BY <2>1, <2>2, <2>3, QuietKeeps DEF NotRunning
<1>4. CASE Drop(c)
  <2>1. RunsTypeOK' /\ UNCHANGED <<files, run, spoiled>>
    BY <1>1, <1>4 DEF Drop, RunsTypeOK, files
  <2>2. QED
    BY <2>1, QuietKeeps
<1>5. ASSUME NEW op \in Op, Choose(c, op)
      PROVE  RunsInv'
  <2> DEFINE news == handler[c].news
             new == [run[c] EXCEPT !.at = "chosen", !.target = news[op].release,
                                   !.digest = news[op].digest]
  <2>1. /\ run[c].at = "asking"
        /\ UNCHANGED <<locks, files, spoiled>>
        /\ \/ run' = [run EXCEPT ![c] = NotRunning] /\ told' = "nothing"
           \/ /\ op # "show" /\ Choice(op, run[c].running, news) = "download"
              /\ run' = [run EXCEPT ![c] = new] /\ told' = "nothing"
    BY <1>5 DEF Choose, End
  <2>2. NewsOK(news)
    BY DEF VersionsInv, AllNewsOK
  <2>3. c \notin AtWork /\ run[c] \in Run
    BY <1>1, <2>1 DEF RunsTypeOK, AtWork
  <2>4. CASE run' = [run EXCEPT ![c] = NotRunning] /\ told' = "nothing"
    <3>1. /\ run'[c] = NotRunning /\ \A d \in Handler : d # c => run'[d] = run[d]
      BY <1>1, <2>4 DEF RunsTypeOK
    <3>2. RunsTypeOK'
      BY <1>1, <2>1, <2>4, NobodyIsRun DEF RunsTypeOK, files
    <3>3. QED
      BY <2>1, <2>3, <3>1, <3>2, QuietKeeps DEF NotRunning
  <2>5. CASE /\ op # "show" /\ Choice(op, run[c].running, news) = "download"
             /\ run' = [run EXCEPT ![c] = new] /\ told' = "nothing"
    <3>1. /\ news[op].release \in Release /\ news[op].digest \in Nat
          /\ news[op].digest % 2 = 1
      <4>1. op \in {"stable", "preview"}
        BY <2>5 DEF Op, Channel
      <4>2. news[op].release # 0 /\ news[op].digest # 0
        BY <2>5, <4>1 DEF Choice
      <4>3. news[op] \in Offer /\ news[op].digest % 2 = 1
        BY <2>2, <4>1, <4>2 DEF NewsOK, OfferOK
      <4>4. QED
        BY <4>2, <4>3 DEF Offer, Release
    <3>2. /\ run[c].trouble = {}
      BY <2>3 DEF RunsInv, ChosenInv
    <3>3. /\ new \in Run /\ new.at = "chosen" /\ new.trouble = {}
          /\ new.target \in Release /\ new.digest % 2 = 1
      <4>1. news[op].release \in 0 .. Last
        BY <3>1 DEF Release
      <4>2. new \in Run
        BY <2>3, <3>1, <4>1 DEF Run
      <4>3. /\ new.at = "chosen" /\ new.trouble = run[c].trouble
            /\ new.target = news[op].release /\ new.digest = news[op].digest
        BY <2>3 DEF Run
      <4>4. QED
        BY <3>1, <3>2, <4>2, <4>3
    <3> HIDE DEF new
    <3>4. run'[c] = new /\ \A d \in Handler : d # c => run'[d] = run[d]
      BY <1>1, <2>5 DEF RunsTypeOK
    <3>5. RunsTypeOK'
      BY <1>1, <2>1, <2>5, <3>3 DEF RunsTypeOK, files
    <3>6. QED
      BY <2>1, <2>3, <3>3, <3>4, <3>5, QuietKeeps
  <2>6. QED
    BY <2>1, <2>4, <2>5
<1>6. QED
  BY <1>2, <1>3, <1>4, <1>5

\* Steps of a run at work: the others at work have met it.
LEMMA WorkKeeps ==
    ASSUME RunsInv, RunsTypeOK', NEW c \in AtWork,
           \A d \in Handler : d # c => run'[d] = run[d],
           spoiled => spoiled',
           \/ run'[c] = NotRunning
           \/ /\ run'[c].at \notin {"no", "asking", "chosen"}
              /\ run'[c].target = run[c].target /\ run'[c].digest = run[c].digest
              /\ Alone(c)' <=> Alone(c)
              /\ run'[c].at = "copying" => run'[c].opened # NoFile
              /\ Alone(c) => FilesOf(c)',
           ProgramRuns'
    PROVE  RunsInv'
<1>1. /\ RunsTypeOK /\ ChosenInv /\ MeetInv /\ FilesInv
  BY DEF RunsInv
<1>2. AtWork' \subseteq AtWork /\ c \in Handler /\ AtWork \subseteq Handler
  BY DEF AtWork
<1>3. ChosenInv'
  BY <1>1 DEF ChosenInv, AtWork, NotRunning
<1>4. /\ c \in AtWork' => (Alone(c)' <=> Alone(c))
      /\ c \notin AtWork' => Alone(c)'
  <2>1. CASE run'[c] = NotRunning
    <3>1. run'[c].at = "no" /\ run'[c].trouble = {}
      BY <2>1 DEF NotRunning
    <3>2. c \notin AtWork'
      BY <3>1 DEF AtWork
    <3>3. Alone(c)'
      BY <3>1 DEF Alone
    <3>4. QED
      BY <3>2, <3>3
  <2>2. CASE run'[c].at \notin {"no", "asking", "chosen"} /\ (Alone(c)' <=> Alone(c))
    <3>1. c \in AtWork'
      BY <1>2, <2>2 DEF AtWork
    <3>2. QED
      BY <2>2, <3>1
  <2>3. QED
    BY <2>1, <2>2
<1>5. \A d \in Handler : d # c => Alone(d)' = Alone(d)
  BY DEF Alone
<1>6. MeetInv'
  <2>1. \A d \in AtWork' : ~Alone(d) => ~Alone(d)'
    BY <1>2, <1>4, <1>5
  <2>2. \A d \in Handler : ~Alone(d)' => ~Alone(d)
    BY <1>2, <1>4, <1>5
  <2>3. QED
    BY <1>1, <1>2, <2>1, <2>2 DEF MeetInv
<1>7. FilesInv'
  <2> SUFFICES ASSUME NEW d \in Handler, Alone(d)'
               PROVE  FilesOf(d)'
    BY DEF FilesInv
  <2>1. CASE d \notin AtWork'
    BY <2>1 DEF FilesOf, AtWork
  <2>2. CASE d \in AtWork' /\ d # c
    BY <1>1, <1>2, <1>5, <2>2 DEF MeetInv
  <2>3. CASE d \in AtWork' /\ d = c
    BY <1>2, <1>4, <2>3 DEF AtWork, NotRunning
  <2>4. QED
    BY <2>1, <2>2, <2>3
<1>8. QED
  BY <1>3, <1>6, <1>7 DEF RunsInv

LEMMA Ended ==
    ASSUME RunsTypeOK, NEW c \in Handler, run' = [run EXCEPT ![c] = NotRunning]
    PROVE  /\ run' \in [Handler -> Run] /\ run'[c] = NotRunning
           /\ \A d \in Handler : d # c => run'[d] = run[d]
BY NobodyIsRun DEF RunsTypeOK

LEMMA WentOn ==
    ASSUME RunsTypeOK, NEW c \in Handler,
           NEW step \in {"downloaded", "verified", "unpacked", "copied"},
           NEW trouble \in SUBSET Trouble,
           run' = [run EXCEPT ![c].at = step, ![c].trouble = @ \cup trouble]
    PROVE  /\ run' \in [Handler -> Run]
           /\ \A d \in Handler : d # c => run'[d] = run[d]
           /\ run'[c].at = step /\ run'[c].trouble = run[c].trouble \cup trouble
           /\ run'[c].target = run[c].target /\ run'[c].digest = run[c].digest
<1> DEFINE new == [run[c] EXCEPT !.at = step, !.trouble = @ \cup trouble]
<1>1. run \in [Handler -> Run] /\ run[c] \in Run
  BY DEF RunsTypeOK
<1>2. /\ new \in Run
      /\ new.at = step /\ new.trouble = run[c].trouble \cup trouble
      /\ new.target = run[c].target /\ new.digest = run[c].digest
  BY <1>1 DEF Run
<1>3. run' = [run EXCEPT ![c] = new]
  OBVIOUS
<1> HIDE DEF new
<1>4. QED
  BY <1>1, <1>2, <1>3

LEMMA WentOnQuietly ==
    ASSUME RunsTypeOK, NEW c \in Handler,
           NEW step \in {"downloaded", "verified", "unpacked", "copied"},
           run' = [run EXCEPT ![c].at = step]
    PROVE  /\ run' \in [Handler -> Run]
           /\ \A d \in Handler : d # c => run'[d] = run[d]
           /\ run'[c].at = step /\ run'[c].trouble = run[c].trouble
           /\ run'[c].target = run[c].target /\ run'[c].digest = run[c].digest
BY SMTT(30) DEF RunsTypeOK, Run

LEMMA ProgramStays ==
    ASSUME RunsInv, NEW c \in Handler, run[c].at # "copying",
           \A d \in Handler : d # c => run'[d] = run[d],
           program' = program, spoiled => spoiled'
    PROVE  ProgramRuns'
BY DEF RunsInv, ProgramRuns

\* A run at work fails and its download goes.
LEMMA FailKeeps ==
    ASSUME RunsInv, NEW c \in AtWork, NEW trouble, Fail(c, trouble),
           program' = program, locks' = locks, unpacked' \in File,
           spoiled' \in BOOLEAN, spoiled => spoiled',
           run[c].at = "copying" => spoiled'
    PROVE  RunsInv'
<1>1. RunsTypeOK /\ c \in Handler
  BY DEF RunsInv, AtWork
<1>2. /\ run' = [run EXCEPT ![c] = NotRunning]
      /\ told' \in {"failed", "nothing"} /\ tarball' = NoFile
  BY DEF Fail, End
<1>3. /\ run' \in [Handler -> Run] /\ run'[c] = NotRunning
      /\ \A d \in Handler : d # c => run'[d] = run[d]
  BY <1>1, <1>2, Ended
<1>4. RunsTypeOK'
  BY <1>1, <1>2, <1>3 DEF RunsTypeOK, File
<1>5. ProgramRuns'
  BY <1>1, <1>3, ProgramStays DEF ProgramRuns
<1>6. QED
  BY <1>3, <1>4, <1>5, WorkKeeps

LEMMA DownloadEnds ==
    ASSUME VersionsInv, RunsInv, NEW c \in Handler, Downloaded(c) \/ NotDownloaded(c)
    PROVE  RunsInv'
<1>1. /\ RunsTypeOK /\ ChosenInv /\ FilesInv /\ build \in [Release -> Nat]
  BY DEF RunsInv, VersionsInv, VersionsTypeOK
<1>2. /\ run[c].at = "downloading" /\ c \in AtWork
      /\ UNCHANGED <<locks, program, unpacked, spoiled>>
  BY DEF Downloaded, NotDownloaded, AtWork
<1>3. unpacked' \in File /\ spoiled' \in BOOLEAN
  BY <1>1, <1>2 DEF RunsTypeOK
<1> DEFINE n == run[c].target
           other == IF build[n] = run[c].digest THEN {} ELSE {"fault"}
<1>4. n \in Release /\ build[n] \in Nat /\ other \in SUBSET Trouble
  BY <1>1, <1>2 DEF ChosenInv, Trouble
<1>5. CASE Fail(c, other) \/ Fail(c, {"fault"})
  BY <1>2, <1>3, <1>5, FailKeeps
<1>6. CASE /\ tarball' = [release |-> n, build |-> build[n]]
           /\ GoOnWith(c, "downloaded", other)
  <2>1. /\ run' = [run EXCEPT ![c].at = "downloaded", ![c].trouble = @ \cup other]
        /\ told' = "nothing"
    BY <1>6 DEF GoOnWith
  <2> HIDE DEF other
  <2>2. /\ run' \in [Handler -> Run]
        /\ \A d \in Handler : d # c => run'[d] = run[d]
        /\ run'[c].at = "downloaded" /\ run'[c].trouble = run[c].trouble \cup other
        /\ run'[c].target = run[c].target /\ run'[c].digest = run[c].digest
    BY <1>1, <1>4, <2>1, WentOn
  <2>3. tarball' \in File
    BY <1>4, <1>6 DEF File, Whole
  <2>4. RunsTypeOK'
    BY <1>1, <1>2, <2>1, <2>2, <2>3 DEF RunsTypeOK
  <2>5. run'[c].trouble = {} => tarball' = Wanted(c)'
    <3>1. run'[c].trouble = {} => build[n] = run[c].digest
      BY <2>2 DEF other
    <3>2. QED
      BY <1>6, <2>2, <3>1 DEF Wanted
  <2>6. FilesOf(c)' /\ (Alone(c)' <=> Alone(c))
    BY <2>2, <2>5 DEF FilesOf, Alone, other
  <2>7. ProgramRuns'
    BY <1>2, <2>2, ProgramStays
  <2>8. QED
    BY <1>2, <2>2, <2>4, <2>6, <2>7, WorkKeeps
<1>7. CASE tarball' = Torn /\ GoOnWith(c, "downloaded", {"fault"})
  <2>1. /\ run' = [run EXCEPT ![c].at = "downloaded", ![c].trouble = @ \cup {"fault"}]
        /\ told' = "nothing" /\ {"fault"} \in SUBSET Trouble
    BY <1>7 DEF GoOnWith, Trouble
  <2>2. /\ run' \in [Handler -> Run]
        /\ \A d \in Handler : d # c => run'[d] = run[d]
        /\ run'[c].at = "downloaded" /\ run'[c].trouble = run[c].trouble \cup {"fault"}
        /\ run'[c].target = run[c].target /\ run'[c].digest = run[c].digest
    BY <1>1, <2>1, WentOn
  <2>3. RunsTypeOK'
    BY <1>1, <1>2, <1>7, <2>1, <2>2 DEF RunsTypeOK, File
  <2>4. FilesOf(c)' /\ (Alone(c)' <=> Alone(c))
    BY <2>2 DEF FilesOf, Alone
  <2>5. ProgramRuns'
    BY <1>2, <2>2, ProgramStays
  <2>6. QED
    BY <1>2, <2>2, <2>3, <2>4, <2>5, WorkKeeps
<1>8. CASE ~Alone(c) /\ GoOn(c, "downloaded") /\ UNCHANGED tarball
  <2>1. run' = [run EXCEPT ![c].at = "downloaded"] /\ told' = "nothing"
    BY <1>8 DEF GoOn
  <2>2. /\ run' \in [Handler -> Run]
        /\ \A d \in Handler : d # c => run'[d] = run[d]
        /\ run'[c].at = "downloaded" /\ run'[c].trouble = run[c].trouble
        /\ run'[c].target = run[c].target /\ run'[c].digest = run[c].digest
    BY <1>1, <2>1, WentOnQuietly
  <2>3. RunsTypeOK'
    BY <1>1, <1>2, <1>8, <2>1, <2>2 DEF RunsTypeOK
  <2>4. ~Alone(c)'
    BY <1>8, <2>2 DEF Alone
  <2>5. ProgramRuns'
    BY <1>2, <2>2, ProgramStays
  <2>6. QED
    BY <1>2, <1>8, <2>2, <2>3, <2>4, <2>5, WorkKeeps
<1>9. QED
  BY <1>5, <1>6, <1>7, <1>8 DEF Downloaded, NotDownloaded, Alone

LEMMA VerifySteps ==
    ASSUME RunsInv, NEW c \in Handler, Verify(c)
    PROVE  RunsInv'
<1>1. RunsTypeOK /\ FilesInv
  BY DEF RunsInv
<1>2. /\ run[c].at = "downloaded" /\ c \in AtWork
      /\ UNCHANGED <<locks, program, unpacked, spoiled>>
  BY DEF Verify, AtWork
<1>3. CASE Matches(c) /\ GoOn(c, "verified") /\ UNCHANGED tarball
  <2>1. run' = [run EXCEPT ![c].at = "verified"] /\ told' = "nothing"
    BY <1>3 DEF GoOn
  <2>2. /\ run' \in [Handler -> Run]
        /\ \A d \in Handler : d # c => run'[d] = run[d]
        /\ run'[c].at = "verified" /\ run'[c].trouble = run[c].trouble
        /\ run'[c].target = run[c].target /\ run'[c].digest = run[c].digest
    BY <1>1, <2>1, WentOnQuietly
  <2>3. RunsTypeOK'
    BY <1>1, <1>2, <1>3, <2>1, <2>2 DEF RunsTypeOK
  <2>4. FilesOf(c)' /\ (Alone(c)' <=> Alone(c))
    BY <1>3, <2>2 DEF FilesOf, Alone, Matches, Wanted
  <2>5. ProgramRuns'
    BY <1>2, <2>2, ProgramStays
  <2>6. QED
    BY <1>2, <2>2, <2>3, <2>4, <2>5, WorkKeeps
<1>4. CASE Fail(c, {})
  <2>1. unpacked' \in File /\ spoiled' \in BOOLEAN
    BY <1>1, <1>2 DEF RunsTypeOK
  <2>2. QED
    BY <1>2, <1>4, <2>1, FailKeeps
<1>5. QED
  BY <1>3, <1>4 DEF Verify

LEMMA LeftIsFile ==
    ASSUME NEW c, NEW file \in File
    PROVE  Left(c, file) \in File
BY DEF Left, File

LEMMA UntarSteps ==
    ASSUME RunsInv, NEW c \in Handler, Untar(c)
    PROVE  RunsInv'
<1>1. RunsTypeOK /\ FilesInv
  BY DEF RunsInv
<1>2. /\ run[c].at = "verified" /\ c \in AtWork
      /\ UNCHANGED <<locks, program, spoiled>>
  BY DEF Untar, AtWork
<1>3. CASE unpacked' = tarball /\ GoOn(c, "unpacked") /\ UNCHANGED tarball
  <2>1. run' = [run EXCEPT ![c].at = "unpacked"] /\ told' = "nothing"
    BY <1>3 DEF GoOn
  <2>2. /\ run' \in [Handler -> Run]
        /\ \A d \in Handler : d # c => run'[d] = run[d]
        /\ run'[c].at = "unpacked" /\ run'[c].trouble = run[c].trouble
        /\ run'[c].target = run[c].target /\ run'[c].digest = run[c].digest
    BY <1>1, <2>1, WentOnQuietly
  <2>3. RunsTypeOK'
    BY <1>1, <1>2, <1>3, <2>1, <2>2 DEF RunsTypeOK
  <2>4. Alone(c) => tarball = Wanted(c)
    BY <1>1, <1>2 DEF FilesInv, FilesOf
  <2>5. (Alone(c)' <=> Alone(c)) /\ Wanted(c)' = Wanted(c)
    BY <2>2 DEF Alone, Wanted
  <2>6. Alone(c) => FilesOf(c)'
    BY <1>3, <2>2, <2>4, <2>5 DEF FilesOf
  <2>7. ProgramRuns'
    BY <1>2, <2>2, ProgramStays
  <2>8. QED
    BY <1>2, <2>2, <2>3, <2>5, <2>6, <2>7, WorkKeeps
<1>4. CASE /\ unpacked' = Left(c, IF tarball = NoFile THEN unpacked ELSE Torn)
           /\ Fail(c, {"fault"})
  <2>1. (IF tarball = NoFile THEN unpacked ELSE Torn) \in File
    BY <1>1 DEF RunsTypeOK, File
  <2>2. unpacked' \in File /\ spoiled' \in BOOLEAN
    BY <1>1, <1>2, <1>4, <2>1, LeftIsFile DEF RunsTypeOK
  <2>3. QED
    BY <1>2, <1>4, <2>2, FailKeeps
<1>5. QED
  BY <1>3, <1>4 DEF Untar

LEMMA CopySteps ==
    ASSUME RunsInv, NEW c \in Handler, Copy(c)
    PROVE  RunsInv'
<1>1. RunsTypeOK /\ FilesInv
  BY DEF RunsInv
<1>2. /\ run[c].at = "unpacked" /\ c \in AtWork
      /\ UNCHANGED <<locks, spoiled>>
  BY DEF Copy, AtWork
<1>3. CASE /\ unpacked # NoFile /\ program' = Torn
           /\ run' = [run EXCEPT ![c].at = "copying", ![c].opened = unpacked]
           /\ told' = "nothing"
           /\ UNCHANGED <<tarball, unpacked>>
  <2>1. /\ run' \in [Handler -> Run]
        /\ \A d \in Handler : d # c => run'[d] = run[d]
        /\ run'[c].at = "copying" /\ run'[c].trouble = run[c].trouble
        /\ run'[c].opened = unpacked
        /\ run'[c].target = run[c].target /\ run'[c].digest = run[c].digest
    BY <1>1, <1>3 DEF RunsTypeOK, Run
  <2>2. Torn \in File \ {NoFile}
    BY DEF File, Torn, NoFile
  <2>3. RunsTypeOK'
    BY <1>1, <1>2, <1>3, <2>1, <2>2 DEF RunsTypeOK
  <2>4. Alone(c) => unpacked = Wanted(c)
    BY <1>1, <1>2 DEF FilesInv, FilesOf
  <2>5. (Alone(c)' <=> Alone(c)) /\ Wanted(c)' = Wanted(c)
    BY <2>1 DEF Alone, Wanted
  <2>6. Alone(c) => FilesOf(c)'
    BY <2>1, <2>4, <2>5 DEF FilesOf
  <2>7. ProgramRuns'
    BY <2>1 DEF ProgramRuns
  <2>8. QED
    BY <1>2, <1>3, <2>1, <2>3, <2>5, <2>6, <2>7, WorkKeeps
<1>4. CASE Fail(c, {}) /\ unpacked' = Left(c, unpacked) /\ UNCHANGED program
  <2>1. unpacked' \in File /\ spoiled' \in BOOLEAN
    BY <1>1, <1>2, <1>4, LeftIsFile DEF RunsTypeOK
  <2>2. QED
    BY <1>2, <1>4, <2>1, FailKeeps
<1>5. QED
  BY <1>3, <1>4 DEF Copy

LEMMA CopiedSteps ==
    ASSUME RunsInv, NEW c \in Handler, Copied(c)
    PROVE  RunsInv'
<1>1. RunsTypeOK /\ ChosenInv /\ MeetInv /\ FilesInv
  BY DEF RunsInv
<1>2. /\ run[c].at = "copying" /\ c \in AtWork /\ UNCHANGED locks
  BY DEF Copied, AtWork
<1>3. CASE /\ program' = run[c].opened /\ GoOn(c, "copied")
           /\ UNCHANGED <<tarball, unpacked, spoiled>>
  <2>1. run' = [run EXCEPT ![c].at = "copied"] /\ told' = "nothing"
    BY <1>3 DEF GoOn
  <2>2. /\ run' \in [Handler -> Run]
        /\ \A d \in Handler : d # c => run'[d] = run[d]
        /\ run'[c].at = "copied" /\ run'[c].trouble = run[c].trouble
        /\ run'[c].target = run[c].target /\ run'[c].digest = run[c].digest
    BY <1>1, <2>1, WentOnQuietly
  <2>3. program' \in File \ {NoFile}
    BY <1>1, <1>2, <1>3 DEF RunsTypeOK, Run, ChosenInv
  <2>4. RunsTypeOK'
    BY <1>1, <1>2, <1>3, <2>1, <2>2, <2>3 DEF RunsTypeOK
  <2>5. Alone(c) => program' = Wanted(c) /\ Wanted(c) # Torn
    BY <1>1, <1>2, <1>3, WantedIsWhole DEF FilesInv, FilesOf
  <2>6. (Alone(c)' <=> Alone(c)) /\ Wanted(c)' = Wanted(c)
    BY <2>2 DEF Alone, Wanted
  <2>7. Alone(c) => FilesOf(c)'
    BY <2>2, <2>5, <2>6 DEF FilesOf
  <2>8. ProgramRuns'
    BY <1>1, <1>3, <2>5 DEF ProgramRuns, MeetInv
  <2>9. QED
    BY <1>2, <1>3, <2>2, <2>4, <2>6, <2>7, <2>8, WorkKeeps
<1>4. CASE /\ spoiled' = TRUE /\ Fail(c, {"fault"})
           /\ unpacked' = Left(c, unpacked) /\ UNCHANGED program
  <2>1. unpacked' \in File
    BY <1>1, <1>4, LeftIsFile DEF RunsTypeOK
  <2>2. QED
    BY <1>2, <1>4, <2>1, FailKeeps
<1>5. QED
  BY <1>3, <1>4 DEF Copied

LEMMA LastSteps ==
    ASSUME RunsInv, NEW c \in Handler, Finish(c) \/ Kill(c)
    PROVE  RunsInv'
<1>1. RunsTypeOK
  BY DEF RunsInv
<1>2. /\ run' = [run EXCEPT ![c] = NotRunning]
      /\ told' \in {"updated", "nothing"} /\ program' = program /\ locks' = locks
      /\ spoiled' = (spoiled \/ run[c].at = "copying")
  BY <1>1 DEF Finish, Kill, End, RunsTypeOK
<1>3. /\ run' \in [Handler -> Run] /\ run'[c] = NotRunning
      /\ \A d \in Handler : d # c => run'[d] = run[d]
  BY <1>1, <1>2, Ended
<1>4. tarball' \in File /\ unpacked' \in File
  BY <1>1, LeftIsFile DEF Finish, Kill, RunsTypeOK, File
<1>5. RunsTypeOK'
  BY <1>1, <1>2, <1>3, <1>4 DEF RunsTypeOK
<1>6. ProgramRuns'
  BY <1>1, <1>2, <1>3, ProgramStays DEF ProgramRuns
<1>7. CASE c \in AtWork
  BY <1>2, <1>3, <1>5, <1>6, <1>7, WorkKeeps
<1>8. CASE c \notin AtWork
  <2>1. Kill(c) /\ run[c].at \in {"no", "asking", "chosen"}
    BY <1>8 DEF AtWork, Finish
  <2>2. spoiled' = spoiled
    BY <1>1, <1>2, <2>1 DEF RunsTypeOK
  <2>3. UNCHANGED files \/ (AtWork = {} /\ program' = program)
    <3>1. CASE AtWork = {}
      BY <1>2, <3>1
    <3>2. CASE AtWork # {}
      <4>1. ~(AtWork \subseteq {c})
        BY <1>8, <3>2
      <4>2. tarball' = tarball /\ unpacked' = unpacked
        BY <2>1, <4>1 DEF Kill, Left
      <4>3. QED
        BY <1>2, <4>2 DEF files
    <3>3. QED
      BY <3>1, <3>2
  <2>4. QED
    BY <1>3, <1>5, <1>8, <2>2, <2>3, QuietKeeps DEF NotRunning
<1>9. QED
  BY <1>7, <1>8

LEMMA DownloadStep ==
    ASSUME RunsInv, NEW c \in Handler, Download(c)
    PROVE  RunsInv'
<1>1. RunsTypeOK /\ ChosenInv /\ MeetInv /\ FilesInv /\ AtWork \subseteq Handler
  BY DEF RunsInv, AtWork
<1>2. /\ run[c].at = "chosen" /\ c \notin AtWork
      /\ UNCHANGED <<locks, program, unpacked>>
      /\ told' = "nothing" /\ tarball' = Torn
      /\ spoiled' = (spoiled \/ AtWork # {})
  BY DEF Download, AtWork
<1> DEFINE met == IF AtWork = {} THEN {} ELSE {"another update"}
           new == [run[c] EXCEPT !.at = "downloading", !.trouble = met]
           hit(d) == [run[d] EXCEPT !.trouble = @ \cup {"another update"}]
<1>3. run' = [d \in Handler |->
          IF d = c THEN new ELSE IF d \in AtWork THEN hit(d) ELSE run[d]]
  BY DEF Download
<1>4. /\ new \in Run /\ new.at = "downloading" /\ new.trouble = met
      /\ new.target = run[c].target /\ new.digest = run[c].digest
  BY <1>1 DEF RunsTypeOK, Run, Trouble
<1>5. \A d \in Handler :
         /\ hit(d) \in Run /\ hit(d).at = run[d].at /\ "another update" \in hit(d).trouble
         /\ hit(d).target = run[d].target /\ hit(d).digest = run[d].digest
         /\ hit(d).opened = run[d].opened
  BY <1>1 DEF RunsTypeOK, Run, Trouble
<1> HIDE DEF new, hit
<1>6. /\ run'[c] = new
      /\ \A d \in Handler : d # c => run'[d] = IF d \in AtWork THEN hit(d) ELSE run[d]
      /\ run' \in [Handler -> Run]
  BY <1>1, <1>3, <1>4, <1>5 DEF RunsTypeOK
<1>7. AtWork' = AtWork \cup {c}
  BY <1>4, <1>5, <1>6 DEF AtWork
<1>8. RunsTypeOK'
  BY <1>1, <1>2, <1>6 DEF RunsTypeOK, File
<1>9. ChosenInv'
  <2> SUFFICES ASSUME NEW d \in Handler
               PROVE  /\ run'[d].at \notin {"no", "asking"} =>
                             run'[d].target \in Release /\ run'[d].digest % 2 = 1
                      /\ d \notin AtWork' => run'[d].trouble = {}
                      /\ run'[d].at = "copying" => run'[d].opened # NoFile
    BY DEF ChosenInv
  <2>1. CASE d = c
    BY <1>1, <1>2, <1>4, <1>6, <1>7, <2>1 DEF ChosenInv
  <2>2. CASE d # c /\ d \in AtWork
    <3>1. run'[d] = hit(d) /\ d \in AtWork'
      BY <1>6, <1>7, <2>2
    <3>2. /\ run[d].at \notin {"no", "asking"} =>
                 run[d].target \in Release /\ run[d].digest % 2 = 1
          /\ run[d].at = "copying" => run[d].opened # NoFile
      BY <1>1 DEF ChosenInv
    <3>3. QED
      BY <1>5, <3>1, <3>2
  <2>3. CASE d # c /\ d \notin AtWork
    BY <1>1, <1>6, <1>7, <2>3 DEF ChosenInv
  <2>4. QED
    BY <2>1, <2>2, <2>3
<1>10. /\ \A d \in AtWork : ~Alone(d)'
       /\ AtWork # {} => ~Alone(c)'
       /\ \A d \in Handler : ~Alone(d)' => AtWork # {}
  <2>1. \A d \in AtWork : ~Alone(d)'
    BY <1>1, <1>2, <1>5, <1>6 DEF Alone
  <2>2. /\ AtWork # {} => ~Alone(c)'
        /\ ~Alone(c)' => AtWork # {}
    BY <1>4, <1>6 DEF Alone
  <2>3. \A d \in Handler : d # c /\ d \notin AtWork => Alone(d)'
    BY <1>1, <1>6 DEF Alone, ChosenInv
  <2>4. QED
    BY <2>1, <2>2, <2>3
<1>11. MeetInv'
  BY <1>2, <1>7, <1>10 DEF MeetInv
<1>12. FilesInv'
  <2> SUFFICES ASSUME NEW d \in Handler, Alone(d)'
               PROVE  FilesOf(d)'
    BY DEF FilesInv
  <2>1. CASE d = c
    BY <1>4, <1>6, <2>1 DEF FilesOf
  <2>2. CASE d # c /\ d \notin AtWork
    BY <1>1, <1>7, <2>2 DEF FilesOf, AtWork
  <2>3. QED
    BY <1>10, <2>1, <2>2
<1>13. ProgramRuns'
  <2>1. CASE program = Torn
    BY <1>1, <1>2, <1>7, <2>1 DEF RunsInv, ProgramRuns, AtWork, RunsTypeOK
  <2>2. CASE program # Torn
    BY <1>2, <2>2 DEF ProgramRuns
  <2>3. QED
    BY <2>1, <2>2
<1>14. QED
  BY <1>8, <1>9, <1>11, <1>12, <1>13 DEF RunsInv

\* Everything an update can know, and that the relay does its part.
UpdateInv == VersionsInv /\ RunsInv

LEMMA UpdateKept == UpdateInv /\ [UpdateNext]_updateVars => UpdateInv'
<1> SUFFICES ASSUME VersionsInv, RunsInv, [UpdateNext]_updateVars
             PROVE  VersionsInv' /\ RunsInv'
  BY DEF UpdateInv
<1>1. CASE /\ Relay /\ told' = "nothing" /\ UNCHANGED <<locks, files, run, spoiled>>
  <2>1. VersionsInv'
    BY <1>1, VersionsKept DEF VersionsStep
  <2>2. RunsTypeOK'
    BY <1>1 DEF RunsInv, RunsTypeOK, files
  <2>3. QED
    BY <1>1, <2>1, <2>2, QuietKeeps
<1>2. ASSUME NEW c \in Handler,
             Start(c) \/ NoAnswer(c) \/ Drop(c) \/ \E op \in Op : Choose(c, op)
      PROVE  VersionsInv' /\ RunsInv'
  <2>1. VersionsStep
    BY <1>2 DEF Start, NoAnswer, Drop, Choose, Answered, VersionsStep
  <2>2. QED
    BY <1>2, <2>1, VersionsKept, QuietSteps
<1>3. ASSUME NEW c \in Handler,
             \/ Download(c) \/ Downloaded(c) \/ NotDownloaded(c) \/ Verify(c)
             \/ Untar(c) \/ Copy(c) \/ Copied(c) \/ Finish(c) \/ Kill(c)
      PROVE  VersionsInv' /\ RunsInv'
  <2>1. UNCHANGED versionVars
    BY <1>3 DEF Download, Downloaded, NotDownloaded, Verify, Untar, Copy, Copied, Finish, Kill
  <2>2. VersionsInv'
    BY <2>1, VersionsKept DEF VersionsStep
  <2>3. QED
    BY <1>3, <2>2, DownloadStep, DownloadEnds, VerifySteps, UntarSteps, CopySteps,
       CopiedSteps, LastSteps
<1>4. CASE UNCHANGED updateVars
  <2>1. VersionsInv'
    BY <1>4, VersionsKept DEF VersionsStep, updateVars
  <2>2. UNCHANGED <<files, spoiled, run, locks, told>>
    BY <1>4 DEF updateVars
  <2>3. RunsTypeOK'
    BY <2>2 DEF RunsInv, RunsTypeOK, files
  <2>4. QED
    BY <2>1, <2>2, <2>3, QuietKeeps
<1>5. QED
  BY <1>1, <1>2, <1>3, <1>4 DEF UpdateNext

THEOREM Invariance == UpdateSpec => []UpdateInv
<1>1. UpdateInit => UpdateInv
  BY VersionsStart, RunsStart DEF UpdateInv
<1>2. QED
  BY <1>1, UpdateKept, PTL DEF UpdateSpec

\* Types hold, of the cache and of the runs.
THEOREM TypeCorrect == UpdateSpec => []UpdateTypeOK
<1>1. UpdateInv => UpdateTypeOK
  BY DEF UpdateInv, VersionsInv, RunsInv, RunsTypeOK, Run, UpdateTypeOK
<1>2. QED
  BY <1>1, Invariance, PTL

\* No failure and no kill leaves a part of a program as the installed one
\* (update.c:389), except in the copy, where two updates met, and after either.
THEOREM AlwaysAProgram == UpdateSpec => []ProgramRuns
<1>1. UpdateInv => ProgramRuns
  BY DEF UpdateInv, RunsInv
<1>2. QED
  BY <1>1, Invariance, PTL

-----------------------------------------------------------------------------
\* What each step tells.
LEMMA ToldByStep ==
    ASSUME UpdateInv, UpdateNext
    PROVE  \/ told' = "nothing"
           \/ told' = "updated" /\ \E c \in Handler : Finish(c)
           \/ told' = "failed" /\ \E c \in Handler : Downloaded(c) \/ Verify(c) \/ Copy(c)
<1>1. CASE /\ ~spoiled /\ Relay /\ told' = "nothing"
           /\ UNCHANGED <<locks, files, run, spoiled>>
  BY <1>1
<1>2. ASSUME NEW c \in Handler,
             Start(c) \/ NoAnswer(c) \/ Drop(c) \/ \E op \in Op : Choose(c, op)
      PROVE  told' = "nothing"
  BY <1>2 DEF Start, NoAnswer, Drop, Choose, End
<1>3. ASSUME NEW c \in Handler, Download(c) \/ NotDownloaded(c) \/ Untar(c) \/ Copied(c) \/ Kill(c)
      PROVE  told' = "nothing"
  BY <1>3 DEF Download, NotDownloaded, Untar, Copied, Kill, End, GoOn, Fail
<1>4. ASSUME NEW c \in Handler, Finish(c)
      PROVE  told' = "updated"
  BY <1>4 DEF Finish, End
<1>5. ASSUME NEW c \in Handler, Downloaded(c) \/ Verify(c) \/ Copy(c)
      PROVE  told' \in {"nothing", "failed"}
  BY <1>5 DEF Downloaded, Verify, Copy, End, GoOn, GoOnWith, Fail
<1>6. QED
  BY <1>1, <1>2, <1>3, <1>4, <1>5 DEF UpdateNext

LEMMA UpdatedStep ==
    ASSUME UpdateInv, UpdateNext
    PROVE  UpdatedToTarget
<1> SUFFICES ASSUME NEW d \in Handler, told' = "updated", run[d] # run'[d], Alone(d)
             PROVE  program' = Wanted(d)
  BY DEF UpdatedToTarget, Alone, Wanted
<1>1. RunsTypeOK /\ FilesInv
  BY DEF UpdateInv, RunsInv
<1>2. PICK c \in Handler : Finish(c)
  BY ToldByStep
<1>3. run[c].at = "copied" /\ program' = program /\ d = c
  BY <1>1, <1>2 DEF Finish, End, RunsTypeOK
<1>4. QED
  BY <1>1, <1>3 DEF FilesInv, FilesOf

\* An update that says so has installed what was announced, unless it met
\* another one.
THEOREM UpdateTellsTruth == UpdateSpec => ToldIsTrue
<1>1. UpdateInv /\ [UpdateNext]_updateVars => [UpdatedToTarget]_updateVars
  BY UpdatedStep
<1>2. QED
  BY <1>1, Invariance, PTL DEF UpdateSpec, ToldIsTrue

LEMMA FailedStep ==
    ASSUME UpdateInv, UpdateNext, told' = "failed"
    PROVE  locks
<1>1. /\ RunsTypeOK /\ ChosenInv /\ FilesInv /\ build \in [Release -> Nat]
  BY DEF UpdateInv, VersionsInv, VersionsTypeOK, RunsInv
<1>2. PICK c \in Handler : Downloaded(c) \/ Verify(c) \/ Copy(c)
  BY ToldByStep
<1>3. \A trouble : Fail(c, trouble) => run[c].trouble \cup trouble = {}
  BY DEF Fail, End
<1>4. CASE Downloaded(c)
  <2> DEFINE n == run[c].target
             other == IF build[n] = run[c].digest THEN {} ELSE {"fault"}
  <2>1. run[c].at = "downloading" /\ Fail(c, other) /\ ~IsThere(n)
    BY <1>4 DEF Downloaded, GoOn, GoOnWith
  <2>2. build[n] = run[c].digest
    BY <1>3, <2>1
  <2>3. run[c].digest % 2 = 1
    BY <1>1, <2>1 DEF ChosenInv
  <2>4. QED
    BY <2>1, <2>2, <2>3 DEF IsThere
<1>5. CASE Verify(c)
  <2>1. run[c].at = "downloaded" /\ Fail(c, {}) /\ ~Matches(c)
    BY <1>5 DEF Verify, GoOn
  <2>2. run[c].trouble = {}
    BY <1>3, <2>1
  <2>3. tarball = Wanted(c)
    BY <1>1, <2>1, <2>2 DEF FilesInv, FilesOf, Alone
  <2>4. QED
    BY <2>1, <2>3 DEF Matches, Wanted
<1>6. CASE Copy(c)
  <2>1. run[c].at = "unpacked" /\ Fail(c, {}) /\ (locks \/ unpacked = NoFile)
    BY <1>6 DEF Copy
  <2>2. Alone(c)
    BY <1>3, <2>1 DEF Alone
  <2>3. unpacked = Wanted(c) /\ Wanted(c) # NoFile
    BY <1>1, <2>1, <2>2, WantedIsWhole DEF FilesInv, FilesOf
  <2>4. QED
    BY <2>1, <2>3
<1>7. QED
  BY <1>2, <1>4, <1>5, <1>6

\* Nothing but the lock on a running program stops an update that meets no
\* trouble.
THEOREM InPlace == UpdateSpec => UpdatesInPlace
<1>1. UpdateInv /\ [UpdateNext]_updateVars => [FailedByLock]_updateVars
  BY FailedStep DEF FailedByLock
<1>2. QED
  BY <1>1, Invariance, PTL DEF UpdateSpec, UpdatesInPlace

-----------------------------------------------------------------------------
\* How old news can be: those of the fetch, those a handler is about to store,
\* and those of the cache when they were stored.
TimeInv ==
    /\ cache.at # Never =>
           /\ cache.at <= clock /\ cache.news.taken \in Nat
           /\ cache.at - cache.news.taken <= Timeout
    /\ flight # NoFlight =>
           /\ flight.began \in Nat
           /\ flight.began <= clock /\ clock <= flight.began + Timeout
           /\ flight.news # NoNews => flight.began <= flight.news.taken
    /\ \A h \in Handler : handler[h].at = "storing" =>
           handler[h].news.taken \in Nat /\ clock - handler[h].news.taken <= Timeout

\* The steps of the relay that an update sees.
LEMMA TimeKept ==
    ASSUME VersionsTypeOK, TimeInv, VersionsStep
    PROVE  TimeInv' /\ (AnsweredRecent \/ UNCHANGED versionVars)
<1> USE VersionsAssumption
<1>0. /\ clock \in Nat
      /\ cache \in [news : News, at : Nat \cup {Never}]
      /\ flight \in [began : Nat \cup {Never}, news : News]
      /\ handler \in [Handler -> [at : {"idle", "looked", "waiting", "storing", "answered",
                                        "refused"}, news : News]]
      /\ \A news \in News : news # NoNews => news.taken \in Nat
      /\ NoFlight.news = NoNews
  BY DEF VersionsTypeOK, News, NoFlight
<1>1. CASE Tick
  BY <1>0, <1>1 DEF Tick, TimeInv, AnsweredRecent
<1>2. CASE Publish \/ \E n \in Release : Upload(n)
  BY <1>2 DEF Publish, Upload, TimeInv, AnsweredRecent
<1>3. CASE Read
  <2>1. /\ flight # NoFlight /\ flight'.news.taken = clock /\ flight'.began = flight.began
        /\ UNCHANGED <<clock, cache, handler>>
    BY <1>0, <1>3 DEF Read
  <2>2. QED
    BY <1>0, <2>1 DEF TimeInv, AnsweredRecent
<1>4. CASE Land
  <2>1. /\ flight # NoFlight /\ flight.news # NoNews /\ flight' = NoFlight
        /\ UNCHANGED <<clock, cache>>
        /\ \A h \in Handler :
              \/ handler'[h] = handler[h]
              \/ /\ handler[h].at = "waiting" /\ handler'[h].at = "storing"
                 /\ handler'[h].news = flight.news
    BY <1>0, <1>4 DEF Land
  <2>2. flight.news.taken \in Nat /\ clock - flight.news.taken <= Timeout
    BY <1>0, <2>1 DEF TimeInv
  <2>3. TimeInv'
    BY <2>1, <2>2 DEF TimeInv
  <2>4. AnsweredRecent
    BY <2>1 DEF AnsweredRecent
  <2>5. QED
    BY <2>3, <2>4
<1>5. CASE Break
  <2>1. /\ flight' = NoFlight /\ UNCHANGED <<clock, cache>>
        /\ \A h \in Handler :
              \/ handler'[h] = handler[h]
              \/ handler[h].at = "waiting" /\ handler'[h].at # "storing"
    BY <1>0, <1>5 DEF Break, FailedWith
  <2>2. QED
    BY <2>1 DEF TimeInv, AnsweredRecent
<1>6. ASSUME NEW h \in Handler, Do(h)
      PROVE  TimeInv' /\ AnsweredRecent
  <2>1. /\ UNCHANGED <<clock, cache>>
        /\ \A g \in Handler : handler'[g] = handler[g] \/ handler'[g].at = "waiting"
        /\ \/ flight' = flight
           \/ flight'.began = clock /\ flight'.news = NoNews
    BY <1>0, <1>6 DEF Do, NoFlight
  <2>2. TimeInv'
    BY <1>0, <2>1 DEF TimeInv
  <2>3. AnsweredRecent
    BY <2>1 DEF AnsweredRecent
  <2>4. QED
    BY <2>2, <2>3
<1>7. ASSUME NEW h \in Handler, Store(h)
      PROVE  TimeInv' /\ AnsweredRecent
  <2>1. /\ handler[h].at = "storing" /\ UNCHANGED <<clock, flight>>
        /\ cache' = [news |-> handler[h].news, at |-> clock]
        /\ handler'[h].at = "answered" /\ handler'[h].news = handler[h].news
        /\ \A g \in Handler : g # h => handler'[g] = handler[g]
    BY <1>0, <1>7 DEF Store
  <2>2. handler[h].news.taken \in Nat /\ clock - handler[h].news.taken <= Timeout
    BY <2>1 DEF TimeInv
  <2>3. TimeInv'
    BY <1>0, <2>1, <2>2 DEF TimeInv
  <2>4. AnsweredRecent
    BY <1>0, <2>1, <2>2 DEF AnsweredRecent
  <2>5. QED
    BY <2>3, <2>4
<1>8. ASSUME NEW h \in Handler, Look(h)
      PROVE  TimeInv' /\ AnsweredRecent
  <2>1. /\ UNCHANGED <<clock, cache, flight>>
        /\ \A g \in Handler : g # h => handler'[g] = handler[g]
        /\ handler'[h].news = cache.news
        /\ handler'[h].at \in {"looked", "answered"}
        /\ handler'[h].at = "answered" => cache.at # Never /\ clock - cache.at < TTL
    BY <1>0, <1>8 DEF Look
  <2>2. TimeInv'
    BY <2>1 DEF TimeInv
  <2>3. AnsweredRecent
    BY <1>0, <2>1 DEF AnsweredRecent, TimeInv
  <2>4. QED
    BY <2>2, <2>3
<1>9. ASSUME NEW h \in Handler, Answered(h)
      PROVE  TimeInv' /\ AnsweredRecent
  <2>1. /\ UNCHANGED <<clock, cache, flight>>
        /\ \A g \in Handler : handler'[g] = handler[g] \/ handler'[g].at = "idle"
    BY <1>0, <1>9 DEF Answered, Idle
  <2>2. QED
    BY <2>1 DEF TimeInv, AnsweredRecent
<1>10. CASE UNCHANGED versionVars
  BY <1>10 DEF versionVars, TimeInv
<1>11. QED
  BY <1>1, <1>2, <1>3, <1>4, <1>5, <1>6, <1>7, <1>8, <1>9, <1>10 DEF VersionsStep, Relay

\* Every step of an update is one that the relay allows, or none of its own.
LEMMA RelayedStep == [UpdateNext]_updateVars => VersionsStep
BY DEF UpdateNext, VersionsStep, Answered, Start, NoAnswer, Drop, Choose, Download,
   Downloaded, NotDownloaded, Verify, Untar, Copy, Copied, Finish, Kill, updateVars

\* What an instance says of releases is at most an hour and a fetch old,
\* however handlers share fetches and whenever they store what they brought
\* (version.go:56-82).
THEOREM NewsAreRecent == UpdateSpec => NewsBounded
<1>1. UpdateInit => TimeInv
  BY VersionsAssumption DEF UpdateInit, VersionsInit, TimeInv, NoFlight, Idle
<1>2. UpdateInv /\ TimeInv /\ [UpdateNext]_updateVars => TimeInv' /\ [AnsweredRecent]_versionVars
  BY RelayedStep, TimeKept DEF UpdateInv, VersionsInv
<1>3. QED
  BY <1>1, <1>2, Invariance, PTL DEF UpdateSpec, NewsBounded

-----------------------------------------------------------------------------
\* As long as the news never went back, the cache knows of every release that
\* was ever chosen.

\* The release is the first, or none, or these news are of one as new.
Known(news, r) == r > 1 => r <= news[Kind[r]].release

\* Where there are news, they are of the first release or a later one.
FirstOK(news) == news # NoNews => news[Kind[1]].release >= 1

FirstInv ==
    /\ FirstOK(cache.news) /\ FirstOK(flight.news)
    /\ \A h \in Handler : FirstOK(handler[h].news)

Releases(c) == {run[c].running, run[c].target, run[c].opened.release}

KnownInv ==
    /\ \A r \in {program.release, tarball.release, unpacked.release} : Known(cache.news, r)
    /\ \A c \in Handler : \A r \in Releases(c) : Known(cache.news, r)

\* News under way to a run are of a release as new as the running one, and of
\* none the cache does not know of.
AnswerInv ==
    \A c \in Handler : handler[c].at \in {"looked", "waiting", "answered"} =>
        /\ \A channel \in Channel :
              handler[c].news[channel].release <= cache.news[channel].release
        /\ run[c].at = "asking" => Known(handler[c].news, run[c].running)

ForwardInv ==
    /\ FirstInv
    /\ ~wentBack => KnownInv /\ AnswerInv /\ NoDowngrade

LEMMA KindIsChannel ==
    ASSUME NEW news \in News
    PROVE  /\ \A r \in Release : Kind[r] \in Channel
           /\ \A channel \in Channel : news[channel].release \in 0 .. Last
<1>1. \A r \in Release : Kind[r] \in Channel
  BY VersionsAssumption
<1>2. news.stable \in Offer /\ news.preview \in Offer
  BY VersionsAssumption DEF News, NoNews, Offer, Nothing
<1>3. QED
  BY <1>1, <1>2 DEF Channel, Offer

\* The cache of a server that has news to go by knows more and more.
LEMMA KnownGrows ==
    ASSUME NEW old \in News, NEW new \in News, NEW r \in 0 .. Last, Known(old, r),
           \A channel \in Channel : old[channel].release <= new[channel].release
    PROVE  Known(new, r)
<1>1. CASE r > 1
  <2>1. r \in Release
    BY <1>1, VersionsAssumption DEF Release
  <2>2. Kind[r] \in Channel /\ old[Kind[r]].release \in 0 .. Last
                            /\ new[Kind[r]].release \in 0 .. Last
    BY <2>1, KindIsChannel
  <2>3. QED
    BY <1>1, <2>2, VersionsAssumption DEF Known
<1>2. CASE ~(r > 1)
  BY <1>2 DEF Known
<1>3. QED
  BY <1>1, <1>2

\* What a run chooses is not older than what it is, or a stable release
\* instead of a preview.
LEMMA ChoiceIsForward ==
    ASSUME NEW news \in News, FirstOK(news), NEW running \in Release, Known(news, running),
           NEW op \in Channel, Choice(op, running, news) = "download"
    PROVE  \/ news[op].release >= running
           \/ Kind[running] = "preview" /\ op = "stable"
<1>1. /\ news.stable.release # 0
      /\ op = "preview" => news.preview.release > news.stable.release
  BY DEF Choice, Channel
<1>2. news # NoNews
  BY <1>1 DEF NoNews, Nothing
<1>3. Kind[running] \in Channel /\ running <= news[Kind[running]].release
  <2>1. Kind[running] \in Channel
    BY VersionsAssumption
  <2>2. running = 1 \/ running > 1
    BY VersionsAssumption DEF Release
  <2>3. QED
    BY <1>2, <2>1, <2>2 DEF Known, FirstOK
<1>4. news.stable.release \in Nat /\ news.preview.release \in Nat /\ running \in Nat
  BY KindIsChannel, VersionsAssumption DEF Channel, Release
<1>5. QED
  BY <1>1, <1>3, <1>4 DEF Channel

\* Steps that bring nothing into play that was not chosen before.
FilesMove ==
    /\ UNCHANGED <<cache, flight, wentBack>>
    /\ \A d \in Handler : handler'[d] = handler[d] \/ handler'[d] = Idle
    /\ \A d \in Handler :
          \/ run'[d] = NotRunning
          \/ run'[d] = run[d]
          \/ /\ run'[d].at # "asking"
             /\ run'[d].running = run[d].running /\ run'[d].target = run[d].target
             /\ run'[d].opened.release \in {run[d].opened.release, unpacked.release}
    /\ tarball'.release \in {0, tarball.release} \cup {run[d].target : d \in Handler}
    /\ unpacked'.release \in {0, tarball.release, unpacked.release}
    /\ program'.release \in {0, program.release} \cup {run[d].opened.release : d \in Handler}

LEMMA MoveKeeps ==
    ASSUME ForwardInv, FilesMove
    PROVE  ForwardInv'
<1>1. FirstInv'
  BY DEF ForwardInv, FirstInv, FilesMove, FirstOK, Idle
<1>2. ASSUME ~wentBack'
      PROVE  KnownInv' /\ AnswerInv' /\ NoDowngrade'
  <2>1. KnownInv /\ AnswerInv /\ NoDowngrade /\ cache' = cache /\ ~wentBack
    BY <1>2 DEF ForwardInv, FilesMove
  <2>2. Known(cache.news, 0)
    BY DEF Known
  <2>3. /\ NotRunning.running = 0 /\ NotRunning.target = 0 /\ NotRunning.opened.release = 0
        /\ NotRunning.at # "asking"
    BY DEF NotRunning, NoFile
  <2>4. \A d \in Handler : \A r \in Releases(d)' : Known(cache.news, r)
    <3> SUFFICES ASSUME NEW d \in Handler
                 PROVE  /\ Known(cache.news, run'[d].running)
                        /\ Known(cache.news, run'[d].target)
                        /\ Known(cache.news, run'[d].opened.release)
      BY DEF Releases
    <3>1. /\ Known(cache.news, run[d].running) /\ Known(cache.news, run[d].target)
          /\ Known(cache.news, run[d].opened.release)
          /\ Known(cache.news, unpacked.release)
      BY <2>1 DEF KnownInv, Releases
    <3>2. QED
      BY <2>2, <2>3, <3>1 DEF FilesMove
  <2>5. \A r \in {program.release, tarball.release, unpacked.release}' : Known(cache.news, r)
    <3>1. \A d \in Handler : /\ Known(cache.news, run[d].target)
                             /\ Known(cache.news, run[d].opened.release)
      BY <2>1 DEF KnownInv, Releases
    <3>2. \A r \in {program.release, tarball.release, unpacked.release} : Known(cache.news, r)
      BY <2>1 DEF KnownInv
    <3> HIDE DEF Known
    <3>3. QED
      BY <2>2, <3>1, <3>2 DEF FilesMove
  <2>6. KnownInv'
    BY <2>1, <2>4, <2>5 DEF KnownInv
  <2>7. AnswerInv'
    <3> SUFFICES ASSUME NEW c \in Handler, handler'[c].at \in {"looked", "waiting", "answered"}
                 PROVE  /\ \A channel \in Channel :
                              handler'[c].news[channel].release <= cache.news[channel].release
                        /\ run'[c].at = "asking" => Known(handler'[c].news, run'[c].running)
      BY <2>1 DEF AnswerInv, Known
    <3>1. handler'[c] = handler[c]
      BY DEF FilesMove, Idle
    <3>2. run'[c].at = "asking" => run'[c] = run[c]
      BY <2>3 DEF FilesMove
    <3>3. QED
      BY <2>1, <3>1, <3>2 DEF AnswerInv
  <2>8. NoDowngrade'
    <3> SUFFICES ASSUME NEW c \in Handler, run'[c].target # 0, run'[c].target < run'[c].running
                 PROVE  Kind[run'[c].running] = "preview" /\ Kind[run'[c].target] = "stable"
      BY DEF NoDowngrade
    <3>1. run'[c].target = run[c].target /\ run'[c].running = run[c].running
      BY <2>3 DEF FilesMove
    <3>2. QED
      BY <2>1, <3>1 DEF NoDowngrade
  <2>9. QED
    BY <2>6, <2>7, <2>8
<1>3. QED
  BY <1>1, <1>2 DEF ForwardInv

LEMMA Stopped ==
    ASSUME RunsTypeOK, NEW c, run' = [run EXCEPT ![c] = NotRunning]
    PROVE  \A d \in Handler : run'[d] \in {run[d], NotRunning}
BY DEF RunsTypeOK

LEMMA RunSteps ==
    ASSUME RunsTypeOK, NEW c \in Handler,
           \/ NoAnswer(c) \/ Drop(c) \/ Download(c) \/ Downloaded(c) \/ NotDownloaded(c)
           \/ Verify(c) \/ Untar(c) \/ Copy(c) \/ Copied(c) \/ Finish(c) \/ Kill(c)
    PROVE  FilesMove
<1> USE DEF FilesMove, NoFile, Torn
<1>0. run \in [Handler -> Run] /\ \A d \in Handler : run[d] \in Run
  BY DEF RunsTypeOK
<1>1. CASE NoAnswer(c)
  BY <1>0, <1>1, Stopped DEF NoAnswer, End, versionVars, files
<1>2. CASE Drop(c)
  BY <1>0, <1>2 DEF Drop, files
<1>3. CASE Download(c)
  <2>1. /\ UNCHANGED <<cache, flight, wentBack, handler, program, unpacked>>
        /\ tarball' = Torn
    BY <1>3 DEF Download, versionVars
  <2>2. \A d \in Handler :
           \/ run'[d] = run[d]
           \/ run'[d] = [run[d] EXCEPT !.trouble = @ \cup {"another update"}] /\ d \in AtWork
           \/ run'[d] = [run[d] EXCEPT !.at = "downloading",
                           !.trouble = IF AtWork = {} THEN {} ELSE {"another update"}]
    BY <1>0, <1>3 DEF Download
  <2>3. \A d \in Handler :
           \/ run'[d] = run[d]
           \/ /\ run'[d].at # "asking"
              /\ run'[d].running = run[d].running /\ run'[d].target = run[d].target
              /\ run'[d].opened = run[d].opened
    <3> SUFFICES ASSUME NEW d \in Handler
                 PROVE  \/ run'[d] = run[d]
                        \/ /\ run'[d].at # "asking"
                           /\ run'[d].running = run[d].running
                           /\ run'[d].target = run[d].target
                           /\ run'[d].opened = run[d].opened
      OBVIOUS
    <3>1. CASE run'[d] = run[d]
      BY <3>1
    <3>2. CASE /\ run'[d] = [run[d] EXCEPT !.trouble = @ \cup {"another update"}]
               /\ d \in AtWork
      BY <1>0, <3>2 DEF Run, AtWork
    <3>3. CASE run'[d] = [run[d] EXCEPT !.at = "downloading",
                             !.trouble = IF AtWork = {} THEN {} ELSE {"another update"}]
      BY <1>0, <3>3 DEF Run
    <3>4. QED
      BY <2>2, <3>1, <3>2, <3>3
  <2>4. QED
    BY <2>1, <2>3
<1>4. CASE Downloaded(c)
  <2>1. UNCHANGED <<cache, flight, wentBack, handler, program, unpacked>>
    BY <1>4 DEF Downloaded, versionVars
  <2>2. tarball'.release \in {0, tarball.release} \cup {run[d].target : d \in Handler}
    <3>1. \/ tarball' = [release |-> run[c].target, build |-> build[run[c].target]]
          \/ tarball' \in {Torn, NoFile, tarball}
      BY <1>4 DEF Downloaded, Fail
    <3>2. tarball'.release \in {run[c].target, 0, tarball.release}
      BY <3>1
    <3>3. QED
      BY <3>2
  <2>3. \/ run' = [run EXCEPT ![c] = NotRunning]
        \/ run' = [run EXCEPT ![c].at = "downloaded"]
        \/ \E trouble : run' = [run EXCEPT ![c].at = "downloaded", ![c].trouble = @ \cup trouble]
    BY <1>4 DEF Downloaded, Fail, End, GoOn, GoOnWith
  <2>4. \A d \in Handler :
           \/ run'[d] = NotRunning
           \/ run'[d] = run[d]
           \/ /\ run'[d].at # "asking"
              /\ run'[d].running = run[d].running /\ run'[d].target = run[d].target
              /\ run'[d].opened = run[d].opened
    BY <1>0, <2>3 DEF Run
  <2>5. QED
    BY <2>1, <2>2, <2>4
<1>5. CASE NotDownloaded(c)
  BY <1>0, <1>5, Stopped DEF NotDownloaded, Fail, End, versionVars
<1>6. CASE Verify(c)
  BY <1>0, <1>6, Stopped DEF Verify, Fail, End, GoOn, versionVars, Run
<1>7. CASE Untar(c)
  BY <1>0, <1>7, Stopped DEF Untar, Fail, End, GoOn, Left, versionVars, Run
<1>8. CASE Copy(c)
  BY <1>0, <1>8, Stopped DEF Copy, Fail, End, Left, versionVars, Run
<1>9. CASE Copied(c)
  BY <1>0, <1>9, Stopped DEF Copied, Fail, End, GoOn, Left, versionVars, Run
<1>10. CASE Finish(c)
  BY <1>0, <1>10, Stopped DEF Finish, End, versionVars
<1>11. CASE Kill(c)
  BY <1>0, <1>11, Stopped DEF Kill, End, Left, versionVars
<1>12. QED
  BY <1>1, <1>2, <1>3, <1>4, <1>5, <1>6, <1>7, <1>8, <1>9, <1>10, <1>11

\* The relay stores news, and they are no older than those before, or they
\* went back.
LEMMA ForwardRelay ==
    ASSUME VersionsInv, RunsTypeOK, ForwardInv, Relay, UNCHANGED <<files, run>>
    PROVE  ForwardInv'
<1> USE VersionsAssumption
<1>0. /\ VersionsTypeOK /\ UNCHANGED <<program, tarball, unpacked, run>>
      /\ NoFlight.news = NoNews /\ FirstOK(NoNews)
  BY DEF VersionsInv, files, NoFlight, FirstOK
<1>1. ASSUME FirstInv', UNCHANGED <<cache, wentBack>>,
             \A h \in Handler : \/ handler'[h].at \in {"storing", "refused"}
                                \/ handler'[h].at = handler[h].at /\ handler'[h].news = handler[h].news
                                \/ /\ handler[h].at \in {"looked", "waiting"}
                                   /\ handler'[h].news = handler[h].news
      PROVE  ForwardInv'
  <2> SUFFICES ASSUME ~wentBack', KnownInv, AnswerInv, NoDowngrade
               PROVE  KnownInv' /\ AnswerInv' /\ NoDowngrade'
    BY <1>1 DEF ForwardInv
  <2>1. KnownInv' /\ NoDowngrade'
    <3>1. KnownInv'
      BY <1>0, <1>1 DEF KnownInv, Known, Releases
    <3>2. NoDowngrade'
      BY <1>0, <1>1 DEF NoDowngrade
    <3>3. QED
      BY <3>1, <3>2
  <2>2. AnswerInv'
    BY <1>0, <1>1 DEF AnswerInv, Known
  <2>3. QED
    BY <2>1, <2>2
<1>2. CASE Tick \/ Publish \/ \E n \in Release : Upload(n)
  <2>1. UNCHANGED <<cache, wentBack, handler, flight>>
    BY <1>2 DEF Tick, Publish, Upload
  <2>2. FirstInv'
    BY <2>1 DEF ForwardInv, FirstInv, FirstOK
  <2>3. QED
    BY <1>1, <2>1, <2>2
<1>3. CASE Read
  <2> DEFINE s == [stable |-> Newest("stable"), preview |-> Newest("preview"), taken |-> clock]
  <2>1. UNCHANGED <<cache, wentBack, handler>> /\ flight'.news = s
    BY <1>0, <1>3 DEF Read, VersionsTypeOK
  <2>2. Kind[1] \in Channel /\ Newest(Kind[1]).release >= 1
    <3> DEFINE S == {0} \cup {i \in 1 .. listed : Kind[i] = Kind[1]}
    <3>1. S \in SUBSET (0 .. Last) /\ 1 \in S /\ Last \in Nat /\ 1 \in Release
      BY <1>0 DEF VersionsTypeOK, Release
    <3>2. Max(S) >= 1
      BY <3>1, MaxOfBounded, Zenon
    <3>3. QED
      BY <3>1, <3>2 DEF Newest
  <2>3. FirstOK(s)
    BY <2>2 DEF FirstOK, Channel
  <2>4. FirstInv'
    BY <2>1, <2>3 DEF ForwardInv, FirstInv, FirstOK
  <2>5. QED
    BY <1>1, <2>1, <2>4
<1>4. CASE Land
  <2>1. /\ UNCHANGED <<cache, wentBack>> /\ flight' = NoFlight
        /\ \A h \in Handler :
              \/ handler'[h] = handler[h]
              \/ handler'[h].at = "storing" /\ handler'[h].news = flight.news
    BY <1>0, <1>4 DEF Land, VersionsTypeOK
  <2>2. FirstInv'
    BY <1>0, <2>1 DEF ForwardInv, FirstInv, FirstOK
  <2>3. QED
    BY <1>1, <2>1, <2>2
<1>5. CASE Break
  <2>1. /\ UNCHANGED <<cache, wentBack>> /\ flight' = NoFlight
        /\ \A h \in Handler :
              \/ handler'[h] = handler[h]
              \/ handler[h].at = "waiting" /\ handler'[h].news = handler[h].news
    BY <1>0, <1>5 DEF Break, FailedWith, VersionsTypeOK
  <2>2. FirstInv'
    BY <1>0, <2>1 DEF ForwardInv, FirstInv, FirstOK
  <2>3. QED
    BY <1>1, <2>1, <2>2
<1>6. ASSUME NEW h \in Handler, Do(h)
      PROVE  ForwardInv'
  <2>1. /\ UNCHANGED <<cache, wentBack>> /\ flight'.news \in {flight.news, NoNews}
        /\ \A g \in Handler :
              \/ handler'[g] = handler[g]
              \/ handler[g].at = "looked" /\ handler'[g].news = handler[g].news
    BY <1>0, <1>6 DEF Do, VersionsTypeOK
  <2>2. FirstInv'
    BY <1>0, <2>1 DEF ForwardInv, FirstInv, FirstOK
  <2>3. QED
    BY <1>1, <2>1, <2>2
<1>7. ASSUME NEW h \in Handler, Store(h)
      PROVE  ForwardInv'
  <2>1. /\ handler[h].at = "storing" /\ flight' = flight
        /\ cache'.news = handler[h].news
        /\ handler'[h].at = "answered" /\ handler'[h].news = handler[h].news
        /\ \A g \in Handler : g # h => handler'[g] = handler[g]
        /\ wentBack' = (wentBack \/ \E channel \in Channel :
              handler[h].news[channel].release < cache.news[channel].release)
    BY <1>0, <1>7 DEF Store, VersionsTypeOK
  <2>2. FirstInv'
    BY <2>1 DEF ForwardInv, FirstInv, FirstOK
  <2> SUFFICES ASSUME ~wentBack'
               PROVE  KnownInv' /\ AnswerInv' /\ NoDowngrade'
    BY <2>2 DEF ForwardInv
  <2> DEFINE old == cache.news
             new == handler[h].news
  <2>3. KnownInv /\ AnswerInv /\ NoDowngrade
    BY <2>1 DEF ForwardInv
  <2>4. old \in News /\ new \in News
    BY <1>0 DEF VersionsTypeOK
  <2>5. \A channel \in Channel : old[channel].release <= new[channel].release
    <3> SUFFICES ASSUME NEW channel \in Channel
                 PROVE  old[channel].release <= new[channel].release
      OBVIOUS
    <3>1. old[channel].release \in 0 .. Last /\ new[channel].release \in 0 .. Last
      BY <2>4, KindIsChannel
    <3>2. ~(new[channel].release < old[channel].release)
      BY <2>1
    <3>3. QED
      BY <3>1, <3>2
  <2>6. \A r \in 0 .. Last : Known(old, r) => Known(new, r)
    BY <2>4, <2>5, KnownGrows
  <2>7. \A file \in File : file.release \in 0 .. Last
    BY DEF File, Whole, Torn, NoFile, Release
  <2>8. KnownInv'
    <3>1. \A c \in Handler : Releases(c) \subseteq 0 .. Last
      BY <2>7 DEF RunsTypeOK, Run, Releases
    <3>2. {program.release, tarball.release, unpacked.release} \subseteq 0 .. Last
      BY <2>7 DEF RunsTypeOK
    <3>3. \A c \in Handler : Releases(c)' = Releases(c)
      BY <1>0 DEF Releases
    <3>4. QED
      BY <1>0, <2>1, <2>3, <2>6, <3>1, <3>2, <3>3 DEF KnownInv
  <2>9. AnswerInv'
    <3> SUFFICES ASSUME NEW c \in Handler, handler'[c].at \in {"looked", "waiting", "answered"}
                 PROVE  /\ \A channel \in Channel :
                              handler'[c].news[channel].release <= new[channel].release
                        /\ run[c].at = "asking" => Known(handler'[c].news, run[c].running)
      BY <1>0, <2>1 DEF AnswerInv, Known
    <3>1. CASE c = h
      <4>1. run[c].running \in 0 .. Last /\ Known(old, run[c].running)
        BY <2>3 DEF RunsTypeOK, Run, KnownInv, Releases
      <4>2. \A channel \in Channel : new[channel].release <= new[channel].release
        BY <2>4, KindIsChannel
      <4>3. QED
        BY <2>1, <2>6, <3>1, <4>1, <4>2
    <3>2. CASE c # h
      <4>1. handler'[c] = handler[c] /\ handler[c].news \in News
        BY <1>0, <2>1, <3>2 DEF VersionsTypeOK
      <4>2. ASSUME NEW channel \in Channel
            PROVE  handler[c].news[channel].release <= new[channel].release
        <5>1. handler[c].news[channel].release <= old[channel].release
          BY <2>3, <4>1 DEF AnswerInv
        <5>2. /\ handler[c].news[channel].release \in 0 .. Last
              /\ old[channel].release \in 0 .. Last /\ new[channel].release \in 0 .. Last
          BY <2>4, <4>1, KindIsChannel
        <5>3. QED
          BY <2>5, <5>1, <5>2
      <4>3. QED
        BY <2>3, <4>1, <4>2 DEF AnswerInv
    <3>3. QED
      BY <3>1, <3>2
  <2>10. NoDowngrade'
    BY <1>0, <2>1, <2>3 DEF NoDowngrade
  <2>11. QED
    BY <2>8, <2>9, <2>10
<1>8. QED
  BY <1>2, <1>3, <1>4, <1>5, <1>6, <1>7 DEF Relay

\* A run starts from the program that is installed, or chooses.
LEMMA ForwardStart ==
    ASSUME VersionsInv, RunsInv, ForwardInv, NEW c \in Handler, Start(c)
    PROVE  ForwardInv'
<1> USE VersionsAssumption
<1>0. VersionsTypeOK /\ RunsTypeOK
  BY DEF VersionsInv, RunsInv
<1>1. /\ UNCHANGED <<cache, flight, wentBack, program, tarball, unpacked>>
      /\ handler[c] = Idle
      /\ handler'[c].news = cache.news
      /\ \A d \in Handler : d # c => handler'[d] = handler[d] /\ run'[d] = run[d]
      /\ run'[c] = [NotRunning EXCEPT !.at = "asking", !.running = program.release]
  BY <1>0 DEF Start, Look, files, VersionsTypeOK, RunsTypeOK
<1>2. /\ run'[c].at = "asking" /\ run'[c].running = program.release
      /\ run'[c].target = 0 /\ run'[c].opened.release = 0
  BY <1>1 DEF NotRunning, NoFile
<1>3. FirstInv'
  BY <1>1 DEF ForwardInv, FirstInv, FirstOK
<1> SUFFICES ASSUME ~wentBack', KnownInv, AnswerInv, NoDowngrade
             PROVE  KnownInv' /\ AnswerInv' /\ NoDowngrade'
  BY <1>1, <1>3 DEF ForwardInv
<1>4. Known(cache.news, program.release) /\ Known(cache.news, 0)
  BY DEF KnownInv, Known
<1>5. KnownInv'
  <2>1. \A d \in Handler : \A r \in Releases(d)' : Known(cache.news, r)
    <3> SUFFICES ASSUME NEW d \in Handler
                 PROVE  /\ Known(cache.news, run'[d].running)
                        /\ Known(cache.news, run'[d].target)
                        /\ Known(cache.news, run'[d].opened.release)
      BY DEF Releases
    <3>1. CASE d = c
      BY <1>2, <1>4, <3>1
    <3>2. CASE d # c
      BY <1>1, <3>2 DEF KnownInv, Releases
    <3>3. QED
      BY <3>1, <3>2
  <2>2. QED
    BY <1>1, <2>1 DEF KnownInv, Known
<1>6. AnswerInv'
  <2> SUFFICES ASSUME NEW d \in Handler, handler'[d].at \in {"looked", "waiting", "answered"}
               PROVE  /\ \A channel \in Channel :
                            handler'[d].news[channel].release <= cache.news[channel].release
                      /\ run'[d].at = "asking" => Known(handler'[d].news, run'[d].running)
    BY <1>1 DEF AnswerInv, Known
  <2>1. CASE d = c
    <3>1. \A channel \in Channel : cache.news[channel].release <= cache.news[channel].release
      BY <1>0, KindIsChannel DEF VersionsTypeOK
    <3>2. QED
      BY <1>1, <1>2, <1>4, <2>1, <3>1
  <2>2. CASE d # c
    BY <1>1, <2>2 DEF AnswerInv
  <2>3. QED
    BY <2>1, <2>2
<1>7. NoDowngrade'
  <2> SUFFICES ASSUME NEW d \in Handler,
                      run'[d].target # 0 /\ run'[d].target < run'[d].running
               PROVE  /\ Kind[run'[d].running] = "preview"
                      /\ Kind[run'[d].target] = "stable"
    BY DEF NoDowngrade
  <2>1. d # c
    BY <1>2
  <2>2. run'[d] = run[d]
    BY <1>1, <2>1
  <2>3. QED
    BY <1>1, <2>2 DEF NoDowngrade
<1>8. QED
  BY <1>5, <1>6, <1>7

LEMMA ForwardChoice ==
    ASSUME VersionsInv, RunsInv, ForwardInv, NEW c \in Handler, NEW op \in Op, Choose(c, op)
    PROVE  ForwardInv'
<1> USE VersionsAssumption
<1> DEFINE news == handler[c].news
           new == [run[c] EXCEPT !.at = "chosen", !.target = news[op].release,
                                 !.digest = news[op].digest]
<1>0. VersionsTypeOK /\ RunsTypeOK /\ run[c] \in Run
  BY DEF VersionsInv, RunsInv, RunsTypeOK
<1>1. /\ UNCHANGED <<cache, flight, wentBack, program, tarball, unpacked>>
      /\ run[c].at = "asking" /\ handler[c].at = "answered"
      /\ \A d \in Handler : handler'[d] \in {handler[d], Idle}
      /\ handler'[c] = Idle
      /\ \A d \in Handler : d # c => run'[d] = run[d]
      /\ \/ run'[c] = NotRunning
         \/ /\ op # "show" /\ Choice(op, run[c].running, news) = "download"
            /\ run'[c] = new
  BY <1>0 DEF Choose, End, files, VersionsTypeOK, RunsTypeOK
<1>2. CASE run'[c] = NotRunning
  <2>1. FilesMove
    BY <1>1, <1>2 DEF FilesMove
  <2>2. QED
    BY <2>1, MoveKeeps
<1>3. CASE /\ op # "show" /\ Choice(op, run[c].running, news) = "download"
           /\ run'[c] = new
  <2>1. op \in Channel
    BY <1>3 DEF Op
  <2>2. /\ run'[c].at = "chosen" /\ run'[c].running = run[c].running
        /\ run'[c].target = news[op].release /\ run'[c].opened = run[c].opened
    BY <1>0, <1>3 DEF Run
  <2>3. FirstInv'
    BY <1>1 DEF ForwardInv, FirstInv, FirstOK, Idle
  <2> SUFFICES ASSUME ~wentBack', KnownInv, AnswerInv, NoDowngrade
               PROVE  KnownInv' /\ AnswerInv' /\ NoDowngrade'
    BY <1>1, <2>3 DEF ForwardInv
  <2>4. /\ news \in News /\ cache.news \in News /\ NewsOK(news) /\ FirstOK(news)
        /\ news[op].release <= cache.news[op].release
        /\ Known(news, run[c].running)
    BY <1>0, <1>1, <2>1 DEF VersionsTypeOK, VersionsInv, AllNewsOK, AnswerInv, ForwardInv, FirstInv
  <2>5. news[op].release # 0 /\ news[op].release \in 0 .. Last
    BY <1>3, <2>1, <2>4, KindIsChannel DEF Choice, Channel
  <2>6. Kind[news[op].release] = op
    BY <2>1, <2>4, <2>5 DEF NewsOK, OfferOK, Channel
  <2>7. Known(cache.news, news[op].release)
    BY <2>4, <2>6 DEF Known
  <2>8. KnownInv'
    <3>1. \A d \in Handler : \A r \in Releases(d)' : Known(cache.news, r)
      BY <1>1, <2>2, <2>7 DEF KnownInv, Releases
    <3>2. QED
      BY <1>1, <3>1 DEF KnownInv, Known
  <2>9. AnswerInv'
    <3>1. \A d \in Handler : handler'[d] = handler[d] \/ handler'[d].at = "idle"
      BY <1>1 DEF Idle
    <3>2. \A d \in Handler : run'[d].at = "asking" => run'[d] = run[d]
      BY <1>1, <2>2
    <3>3. QED
      BY <1>1, <3>1, <3>2 DEF AnswerInv, Known
  <2>10. NoDowngrade'
    <3>1. \A d \in Handler : d # c =>
             run'[d].target = run[d].target /\ run'[d].running = run[d].running
      BY <1>1
    <3>2. news[op].release < run[c].running =>
             Kind[run[c].running] = "preview" /\ Kind[news[op].release] = "stable"
      <4>1. run[c].running \in 0 .. Last
        BY <1>0 DEF Run
      <4>2. CASE run[c].running = 0
        BY <2>5, <4>2
      <4>3. CASE run[c].running \in Release
        <5>1. \/ news[op].release >= run[c].running
              \/ Kind[run[c].running] = "preview" /\ op = "stable"
          BY <1>3, <2>1, <2>4, <4>3, ChoiceIsForward
        <5>2. QED
          BY <2>5, <2>6, <4>1, <5>1
      <4>4. QED
        BY <4>1, <4>2, <4>3 DEF Release
    <3>3. /\ run'[c].running = run[c].running /\ run'[c].target = news[op].release
      BY <2>2
    <3> HIDE DEF new, news
    <3> SUFFICES ASSUME NEW d \in Handler,
                        run'[d].target # 0, run'[d].target < run'[d].running
                 PROVE  Kind[run'[d].running] = "preview" /\ Kind[run'[d].target] = "stable"
      BY DEF NoDowngrade
    <3>4. CASE d = c
      BY <3>2, <3>3, <3>4
    <3>5. CASE d # c
      BY <1>1, <3>1, <3>5 DEF NoDowngrade
    <3>6. QED
      BY <3>4, <3>5
  <2>11. QED
    BY <2>8, <2>9, <2>10
<1>4. QED
  BY <1>1, <1>2, <1>3

LEMMA ForwardKept == UpdateInv /\ ForwardInv /\ [UpdateNext]_updateVars => ForwardInv'
<1> SUFFICES ASSUME VersionsInv, RunsInv, ForwardInv, [UpdateNext]_updateVars
             PROVE  ForwardInv'
  BY DEF UpdateInv
<1>1. RunsTypeOK
  BY DEF RunsInv
<1>2. CASE Relay /\ UNCHANGED <<locks, files, run, spoiled>>
  BY <1>1, <1>2, ForwardRelay
<1>3. ASSUME NEW c \in Handler,
             \/ NoAnswer(c) \/ Drop(c) \/ Download(c) \/ Downloaded(c) \/ NotDownloaded(c)
             \/ Verify(c) \/ Untar(c) \/ Copy(c) \/ Copied(c) \/ Finish(c) \/ Kill(c)
      PROVE  ForwardInv'
  BY <1>1, <1>3, RunSteps, MoveKeeps
<1>4. CASE UNCHANGED updateVars
  <2>1. FilesMove
    BY <1>4 DEF updateVars, versionVars, files, FilesMove
  <2>2. QED
    BY <2>1, MoveKeeps
<1>5. QED
  BY <1>2, <1>3, <1>4, ForwardStart, ForwardChoice DEF UpdateNext

\* While news only go forward, no update installs an older release, except the
\* stable one instead of a preview (update.c:305-345, version.go:56-82).
THEOREM UpdatesGoForward == UpdateSpec => []NoDowngrade
<1>1. UpdateInit => ForwardInv
  <2> SUFFICES ASSUME UpdateInit
               PROVE  ForwardInv
    OBVIOUS
  <2>1. /\ cache.news = NoNews /\ flight.news = NoNews
        /\ \A h \in Handler : handler[h] = Idle /\ run[h] = NotRunning
        /\ program.release = 1 /\ tarball.release = 0 /\ unpacked.release = 0
    BY DEF UpdateInit, VersionsInit, NoFlight, NoFile
  <2>2. FirstInv
    BY <2>1 DEF FirstInv, FirstOK, Idle
  <2>3. KnownInv
    BY <2>1 DEF KnownInv, Known, Releases, NotRunning, NoFile
  <2>4. AnswerInv /\ NoDowngrade
    BY <2>1 DEF AnswerInv, NoDowngrade, Idle, NotRunning
  <2>5. QED
    BY <2>2, <2>3, <2>4 DEF ForwardInv
<1>2. UpdateSpec => []ForwardInv
  BY <1>1, ForwardKept, Invariance, PTL DEF UpdateSpec
<1>3. UpdateInv /\ ForwardInv => NoDowngrade
  BY DEF ForwardInv, NoDowngrade
<1>4. QED
  BY <1>2, <1>3, Invariance, PTL
=============================================================================
