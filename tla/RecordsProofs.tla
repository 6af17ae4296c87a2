--------------------------- MODULE RecordsProofs ---------------------------
(***************************************************************************)
(* Trusted keys hold, saved mail is kept and what is called unavailable is *)
(* gone, for any number of commands, users and keys.                       *)
(***************************************************************************)
EXTENDS Records, WellFoundedInduction, TLAPS

-----------------------------------------------------------------------------
\* The inductive invariant, by parts.

Line == [user : User \cup {Nobody}, key : 0 .. MaxKey, cut : BOOLEAN]

Writing == {"check", "append", "open", "copy", "rename"}
Mailing == {"burn", "get", "save", "write", "inbox", "sent", "saved"}

Run == [step : Writing \cup Mailing \cup {"idle", "done"}, user : User \cup {Nobody},
        key : 0 .. MaxKey, mail : Mail \cup {NoMail},
        file : Command \cup {NoFile}, reads : Command \cup {NoFile},
        shown : {"nothing", "id", "saved", "unavailable"}, failed : BOOLEAN]

\* What a command holds at its step.
Filled(r) ==
    /\ r.step \in Writing => r.user \in User /\ r.key \in 1 .. MaxKey
    /\ r.step \in Mailing => r.mail \in Mail
    /\ r.step \in {"copy", "rename"} => r.file \in Command

TypeOK ==
    /\ hosts \in Command \cup {NoFile} /\ tmp \in Command \cup {NoFile}
    /\ content \in [Command -> Seq(Line)]
    /\ newest \in [User -> 1 .. MaxKey]
    /\ mail \in [Mail -> {"coming", "there", "gone"}]
    /\ saved \in [Mail -> {"absent", "torn", "whole"}]
    /\ command \in [Command -> Run]
    /\ \A c \in Command : Filled(command[c])
    /\ pinned \in [User -> 1 .. MaxKey \cup {NoKey}]
    /\ sealed \in [User -> SUBSET (1 .. MaxKey)]
    /\ loose \subseteq User
    /\ reported \subseteq Mail /\ broken \subseteq Mail
    /\ missed \subseteq Command

\* known_hosts and known_hosts.tmp are two files, made by commands that have
\* gone past making one.
Made(f) == f = NoFile \/ command[f].step \in {"copy", "rename", "done"}

FileInv ==
    /\ hosts = tmp => hosts = NoFile
    /\ Made(hosts) /\ Made(tmp)

\* While any line is safe, one command at a time rewrites known_hosts, and it
\* has known_hosts.tmp to itself.
UpdateInv ==
    User \ loose # {} =>
        \A d \in Command : Updating(d) =>
            /\ \A e \in Command : Updating(e) => e = d
            /\ tmp = command[d].file
            /\ At(d, "copy") => content[tmp] = <<>> /\ command[d].reads \in {hosts, NoFile}

\* Of a user whose line is safe no line was cut, and what an update copies, like
\* the file that is about to become known_hosts, has the key of known_hosts, but
\* for the user whose key it brings.
LineInv ==
    \A v \in User \ loose :
        /\ \A i \in DOMAIN LinesOf(hosts) : LinesOf(hosts)[i].cut => LinesOf(hosts)[i].user # v
        /\ \A d \in Command :
              /\ At(d, "copy") /\ v # command[d].user =>
                    KeyIn(LinesOf(command[d].reads), v) = Known(v)
              /\ At(d, "rename") =>
                    /\ KeyIn(content[tmp], v) = IF v = command[d].user THEN command[d].key
                                                ELSE Known(v)
                    /\ \A i \in DOMAIN content[tmp] : ~content[tmp][i].cut

\* Mail that was fetched was there.
MailInv ==
    /\ \A m \in Mail : saved[m] # "absent" => mail[m] # "coming"
    /\ \A c \in Command : At(c, "save") \/ At(c, "write") => mail[command[c].mail] # "coming"

\* Mail that is searched and always was somewhere: once it was in no box, it is
\* gone from the instance, and so it is saved.
SearchOK(c) ==
    /\ ~Nowhere(command[c].mail)
    /\ (At(c, "sent") /\ Box[command[c].mail] = "inbox") \/ At(c, "saved") =>
          command[c].failed \/ mail[command[c].mail] = "gone"

SearchInv == \A c \in Command : Searching(c) /\ c \notin missed => SearchOK(c)

IInv ==
    TypeOK /\ FileInv /\ UpdateInv /\ LineInv /\ MailInv /\ SearchInv
    /\ PinsHold /\ SavedKept /\ UnavailableIsGone

-----------------------------------------------------------------------------
\* What becomes of the lines of known_hosts.

\* A set of naturals has a least element.
LEMMA LeastOf ==
    ASSUME NEW S \in SUBSET Nat, S # {}
    PROVE  \E t \in S : \A u \in S : t <= u
<1> DEFINE R == OpToRel(<, Nat)
<1>1. \A x, y \in Nat : x < y => <<x, y>> \in R
  BY DEF OpToRel
<1>2. IsWellFoundedOn(R, Nat)
  BY NatLessThanWellFounded
<1> HIDE DEF R
<1>3. PICK t \in S : \A u \in S : <<u, t>> \notin R
  BY <1>2, WFMin
<1>4. ASSUME NEW u \in S
      PROVE  t <= u
  <2>1. ~(u < t)
    BY <1>1, <1>3, Zenon
  <2>2. QED
    BY <2>1
<1>5. QED
  BY <1>4

\* KeyIn is the key of the first line of the user, when there is one.
LEMMA KeyInFirst ==
    ASSUME NEW s \in Seq(Line), NEW u
    PROVE  \/ /\ KeyIn(s, u) = NoKey
              /\ \A i \in DOMAIN s : s[i].user # u
           \/ \E i \in DOMAIN s : IsFirst(i, s, u) /\ KeyIn(s, u) = s[i].key
<1> DEFINE S == {i \in DOMAIN s : s[i].user = u}
<1>1. CASE S = {}
  BY <1>1 DEF KeyIn
<1>2. CASE S # {}
  <2>1. S \subseteq Nat
    OBVIOUS
  <2>2. PICK t \in S : \A i \in S : t <= i
    BY <1>2, <2>1, LeastOf
  <2>3. IsFirst(t, s, u) /\ t \in DOMAIN s
    BY <2>2 DEF IsFirst
  <2> DEFINE f == CHOOSE i \in DOMAIN s : IsFirst(i, s, u)
  <2>4. f \in DOMAIN s /\ IsFirst(f, s, u)
    BY <2>3
  <2>5. KeyIn(s, u) = s[f].key
    BY <1>2 DEF KeyIn
  <2> HIDE DEF f
  <2>6. QED
    BY <2>4, <2>5
<1>3. QED
  BY <1>1, <1>2

\* There is one first line.
LEMMA KeyInIs ==
    ASSUME NEW s \in Seq(Line), NEW u, NEW i \in DOMAIN s, IsFirst(i, s, u)
    PROVE  KeyIn(s, u) = s[i].key
<1>1. s[i].user = u
  BY DEF IsFirst
<1>2. PICK j \in DOMAIN s : IsFirst(j, s, u) /\ KeyIn(s, u) = s[j].key
  BY <1>1, KeyInFirst
<1>3. i = j
  BY <1>2 DEF IsFirst
<1>4. QED
  BY <1>2, <1>3

\* A user without a line has no key.
LEMMA KeyInNone ==
    ASSUME NEW s, NEW u, \A i \in DOMAIN s : s[i].user # u
    PROVE  KeyIn(s, u) = NoKey
  BY DEF KeyIn

\* A key is one of the lines', and there is none only when there is no line.
LEMMA KeyInType ==
    ASSUME NEW s \in Seq(Line), NEW u
    PROVE  /\ KeyIn(s, u) \in 0 .. MaxKey \cup {NoKey}
           /\ KeyIn(s, u) = NoKey <=> \A i \in DOMAIN s : s[i].user # u
<1>1. \A i \in DOMAIN s : s[i].key \in 0 .. MaxKey
  <2>1. \A i \in DOMAIN s : s[i] \in Line
    OBVIOUS
  <2>2. QED
    BY <2>1 DEF Line
<1>2. \A i \in DOMAIN s : s[i].key # NoKey
  BY <1>1, RecordsAssumption DEF NoKey
<1>3. QED
  BY <1>1, <1>2, KeyInFirst DEF IsFirst

\* A line at the end counts for users who have none before it.
LEMMA KeyInAppend ==
    ASSUME NEW s \in Seq(Line), NEW l \in Line, NEW u
    PROVE  KeyIn(Append(s, l), u) = IF KeyIn(s, u) # NoKey THEN KeyIn(s, u)
                                    ELSE IF l.user = u THEN l.key ELSE NoKey
<1> DEFINE t == Append(s, l)
           n == Len(s) + 1
<1>1. /\ t \in Seq(Line) /\ Len(t) = n /\ n \in Nat \ {0}
      /\ t[n] = l /\ \A i \in 1 .. Len(s) : t[i] = s[i]
      /\ DOMAIN t = 1 .. n /\ DOMAIN s = 1 .. n - 1
  OBVIOUS
<1> HIDE DEF t, n
<1>2. CASE KeyIn(s, u) # NoKey
  <2>1. PICK i \in DOMAIN s : IsFirst(i, s, u) /\ KeyIn(s, u) = s[i].key
    BY <1>2, KeyInFirst
  <2>2. i \in DOMAIN t /\ IsFirst(i, t, u) /\ t[i] = s[i]
    BY <1>1, <2>1 DEF IsFirst
  <2>3. KeyIn(t, u) = s[i].key
    BY <1>1, <2>2, KeyInIs
  <2>4. QED
    BY <1>2, <2>1, <2>3 DEF t
<1>3. CASE KeyIn(s, u) = NoKey /\ l.user = u
  <2>1. \A i \in DOMAIN s : s[i].user # u
    BY <1>3, KeyInType
  <2>2. \A j \in 1 .. n - 1 : t[j].user # u
    BY <1>1, <2>1
  <2>3. n \in DOMAIN t /\ IsFirst(n, t, u)
    BY <1>1, <1>3, <2>2 DEF IsFirst
  <2>4. KeyIn(t, u) = l.key
    BY <1>1, <2>3, KeyInIs
  <2>5. QED
    BY <1>3, <2>4 DEF t
<1>4. CASE KeyIn(s, u) = NoKey /\ l.user # u
  <2>1. \A i \in DOMAIN s : s[i].user # u
    BY <1>4, KeyInType
  <2>2. \A i \in DOMAIN t : t[i].user # u
    BY <1>1, <1>4, <2>1
  <2>3. QED
    BY <1>4, <2>2, KeyInNone DEF t
<1>5. QED
  BY <1>2, <1>3, <1>4

\* A line that is glued to one of another user costs no one else a key.
LEMMA KeyInGlued ==
    ASSUME NEW s \in Seq(Line), NEW t \in Seq(Line), NEW n \in DOMAIN s, NEW u,
           DOMAIN t = DOMAIN s, s[n].user # u, t[n].user = s[n].user,
           \A i \in DOMAIN s : i # n => t[i] = s[i]
    PROVE  KeyIn(t, u) = KeyIn(s, u)
<1>1. \A i \in DOMAIN s : t[i].user = s[i].user
  OBVIOUS
<1>2. CASE \A i \in DOMAIN s : s[i].user # u
  <2>1. KeyIn(s, u) = NoKey
    BY <1>2, KeyInNone
  <2>2. KeyIn(t, u) = NoKey
    BY <1>1, <1>2, KeyInNone
  <2>3. QED
    BY <2>1, <2>2
<1>3. CASE ~\A i \in DOMAIN s : s[i].user # u
  <2>1. PICK i \in DOMAIN s : IsFirst(i, s, u) /\ KeyIn(s, u) = s[i].key
    BY <1>3, KeyInFirst
  <2>2. i # n /\ t[i] = s[i]
    BY <2>1 DEF IsFirst
  <2>3. IsFirst(i, t, u)
    BY <1>1, <2>1 DEF IsFirst
  <2>4. QED
    BY <2>1, <2>2, <2>3, KeyInIs
<1>4. QED
  BY <1>2, <1>3

\* A line that a command adds to the file: what it costs or gives each user.
LEMMA WithLineKeeps ==
    ASSUME NEW s \in Seq(Line), NEW l \in Line
    PROVE  /\ WithLine(s, l) \in Seq(Line)
           /\ ~(s # <<>> /\ s[Len(s)].cut) => WithLine(s, l) = Append(s, l)
           /\ \A u : /\ l.user # u
                     /\ \A i \in DOMAIN s : s[i].cut => s[i].user # u
                     => /\ KeyIn(WithLine(s, l), u) = KeyIn(s, u)
                        /\ \A i \in DOMAIN WithLine(s, l) :
                              WithLine(s, l)[i].cut => WithLine(s, l)[i].user # u
<1> DEFINE n == Len(s)
           t == WithLine(s, l)
<1>1. CASE n > 0 /\ s[n].cut
  <2> DEFINE g == [user |-> s[n].user, key |-> Garbled, cut |-> l.cut]
  <2>1. n \in DOMAIN s /\ s[n] \in Line
    BY <1>1
  <2>2. g \in Line
    BY <2>1, RecordsAssumption DEF Line, Garbled
  <2>3. t = [s EXCEPT ![n] = g]
    BY <1>1 DEF WithLine
  <2> HIDE DEF t
  <2>4. t \in Seq(Line) /\ DOMAIN t = DOMAIN s /\ t[n] = g
        /\ \A i \in DOMAIN s : i # n => t[i] = s[i]
    BY <2>1, <2>2, <2>3
  <2>5. g.user = s[n].user
    OBVIOUS
  <2> HIDE DEF g
  <2>6. ASSUME NEW u, l.user # u, \A i \in DOMAIN s : s[i].cut => s[i].user # u
        PROVE  /\ KeyIn(t, u) = KeyIn(s, u)
               /\ \A i \in DOMAIN t : t[i].cut => t[i].user # u
    <3>1. s[n].user # u
      BY <1>1, <2>1, <2>6
    <3>2. KeyIn(t, u) = KeyIn(s, u)
      BY <2>1, <2>4, <2>5, <3>1, KeyInGlued
    <3>3. QED
      BY <2>4, <2>5, <2>6, <3>1, <3>2
  <2>7. QED
    BY <1>1, <2>4, <2>6 DEF t
<1>2. CASE ~(n > 0 /\ s[n].cut)
  <2>1. t = Append(s, l)
    BY <1>2 DEF WithLine
  <2> HIDE DEF t
  <2>2. /\ t \in Seq(Line) /\ DOMAIN t = 1 .. n + 1 /\ t[n + 1] = l
        /\ DOMAIN s = 1 .. n /\ \A i \in DOMAIN s : t[i] = s[i]
    BY <2>1
  <2>3. ASSUME NEW u, l.user # u, \A i \in DOMAIN s : s[i].cut => s[i].user # u
        PROVE  /\ KeyIn(t, u) = KeyIn(s, u)
               /\ \A i \in DOMAIN t : t[i].cut => t[i].user # u
    <3>1. KeyIn(t, u) = KeyIn(s, u)
      BY <2>1, <2>3, KeyInAppend
    <3>2. \A i \in DOMAIN t : t[i].cut => t[i].user # u
      BY <2>2, <2>3
    <3>3. QED
      BY <3>1, <3>2
  <2>4. QED
    BY <2>1, <2>2, <2>3 DEF t
<1>3. QED
  BY <1>1, <1>2

-----------------------------------------------------------------------------
\* What fingerprint --update copies.  LinesBut recurs over the lines: that it
\* is defined, and what it is, follows from the least number of lines for which
\* it would not.

\* The definition of LinesBut, for the first m lines.
Copies(u, lines, m, f) ==
    f = [n \in 0 .. m |->
            IF n = 0 THEN <<>>
            ELSE IF lines[n].user \in {u, Nobody} THEN f[n - 1]
            ELSE Append(f[n - 1], [lines[n] EXCEPT !.cut = FALSE])]

\* A function as in LinesBut exists, for any number of lines.
LEMMA CopiesExist ==
    ASSUME NEW u, NEW lines \in Seq(Line), NEW m \in Nat
    PROVE  \E f : Copies(u, lines, m, f)
<1> DEFINE Bad == {n \in Nat : ~\E f : Copies(u, lines, n, f)}
           Next1(f, n) == IF lines[n].user \in {u, Nobody} THEN f[n - 1]
                          ELSE Append(f[n - 1], [lines[n] EXCEPT !.cut = FALSE])
<1>1. SUFFICES ASSUME Bad # {} PROVE FALSE
  OBVIOUS
<1>2. PICK b \in Bad : \A n \in Bad : b <= n
  <2>1. Bad \subseteq Nat
    OBVIOUS
  <2> HIDE DEF Bad
  <2>2. QED
    BY <1>1, <2>1, LeastOf
<1>3. CASE b = 0
  <2>1. Copies(u, lines, 0, [n \in 0 .. 0 |-> <<>>])
    BY DEF Copies
  <2>2. QED
    BY <1>3, <2>1
<1>4. CASE b # 0
  <2>1. b - 1 \in Nat /\ b - 1 \notin Bad
    BY <1>2, <1>4
  <2>2. PICK f : Copies(u, lines, b - 1, f)
    BY <2>1
  <2> DEFINE g == [n \in 0 .. b |-> IF n = b THEN Next1(f, b) ELSE f[n]]
  <2>3. \A n \in 0 .. b - 1 : g[n] = f[n]
    BY <1>4
  <2>4. \A n \in 0 .. b - 1 : f[n] = IF n = 0 THEN <<>> ELSE Next1(f, n)
    BY <2>1, <2>2 DEF Copies
  <2>5. \A n \in 0 .. b : g[n] = IF n = 0 THEN <<>> ELSE Next1(g, n)
    <3>1. ASSUME NEW n \in 0 .. b, n # 0
          PROVE  g[n] = Next1(g, n)
      <4>1. n - 1 \in 0 .. b - 1 /\ g[n - 1] = f[n - 1]
        BY <2>3, <3>1
      <4>2. CASE n = b
        <5>1. g[n] = Next1(f, n)
          BY <4>2
        <5>2. QED
          BY <4>1, <5>1
      <4>3. CASE n # b
        <5>1. n \in 0 .. b - 1
          BY <3>1, <4>3
        <5>2. g[n] = f[n] /\ f[n] = Next1(f, n)
          <6> HIDE DEF g, Next1
          <6> QED
            BY <2>3, <2>4, <3>1, <5>1
        <5>3. QED
          BY <4>1, <5>2
      <4>4. QED
        BY <4>2, <4>3
    <3>2. g[0] = <<>>
      <4>1. 0 \in 0 .. b - 1
        BY <1>2, <1>4
      <4> HIDE DEF g, Next1
      <4>2. QED
        BY <2>3, <2>4, <4>1
    <3>3. QED
      BY <3>1, <3>2
  <2>6. g = [n \in 0 .. b |-> IF n = 0 THEN <<>> ELSE Next1(g, n)]
    <3>1. g = [n \in 0 .. b |-> g[n]]
      OBVIOUS
    <3> HIDE DEF g
    <3>2. QED
      BY <2>5, <3>1
  <2>7. Copies(u, lines, b, g)
    BY <2>6 DEF Copies
  <2>8. QED
    BY <2>7
<1>5. QED
  BY <1>3, <1>4

\* LinesBut is the last value of such a function.
LEMMA LinesButCopies ==
    ASSUME NEW u, NEW lines \in Seq(Line)
    PROVE  \E f : Copies(u, lines, Len(lines), f) /\ LinesBut(u, lines) = f[Len(lines)]
<1> DEFINE F == CHOOSE f : Copies(u, lines, Len(lines), f)
<1>1. Copies(u, lines, Len(lines), F)
  <2>1. Len(lines) \in Nat
    OBVIOUS
  <2>2. \E f : Copies(u, lines, Len(lines), f)
    BY <2>1, CopiesExist
  <2>3. QED
    BY <2>2
<1>2. LinesBut(u, lines) = F[Len(lines)]
  BY DEF LinesBut, Copies
<1> HIDE DEF F
<1>3. QED
  BY <1>1, <1>2

\* The copy has no line of u, none that was cut, and of every other user the
\* key that the file has.
CopyOf(t, u, lines) ==
    /\ t \in Seq(Line)
    /\ \A i \in DOMAIN t : t[i].user # u /\ ~t[i].cut
    /\ \A v \in User \ {u} : KeyIn(t, v) = KeyIn(lines, v)

LEMMA CopyGrows ==
    ASSUME NEW u, NEW lines \in Seq(Line), NEW n \in 1 .. Len(lines),
           NEW t, CopyOf(t, u, SubSeq(lines, 1, n - 1))
    PROVE  CopyOf(IF lines[n].user \in {u, Nobody} THEN t
                  ELSE Append(t, [lines[n] EXCEPT !.cut = FALSE]), u, SubSeq(lines, 1, n))
<1> DEFINE l == lines[n]
           k == [lines[n] EXCEPT !.cut = FALSE]
           old == SubSeq(lines, 1, n - 1)
           new == SubSeq(lines, 1, n)
<1>1. l \in Line
  OBVIOUS
<1>2. k \in Line /\ k.user = l.user /\ k.key = l.key /\ k.cut = FALSE
  BY <1>1 DEF Line
<1>3. old \in Seq(Line) /\ new \in Seq(Line) /\ new = Append(old, l)
  OBVIOUS
<1> HIDE DEF l, k, old, new
<1>4. CopyOf(t, u, old)
  BY DEF old
<1>5. \A v \in User \ {u} : KeyIn(new, v) = IF KeyIn(old, v) # NoKey THEN KeyIn(old, v)
                                            ELSE IF l.user = v THEN l.key ELSE NoKey
  BY <1>1, <1>3, KeyInAppend
<1>6. CASE l.user \in {u, Nobody}
  <2>1. \A v \in User \ {u} : KeyIn(new, v) = KeyIn(old, v)
    BY <1>5, <1>6, RecordsAssumption
  <2>2. QED
    BY <1>4, <1>6, <2>1 DEF CopyOf, l, new
<1>7. CASE l.user \notin {u, Nobody}
  <2> DEFINE s == Append(t, k)
  <2>1. t \in Seq(Line)
    BY <1>4 DEF CopyOf
  <2>2. /\ s \in Seq(Line) /\ DOMAIN s = 1 .. Len(t) + 1 /\ s[Len(t) + 1] = k
        /\ \A i \in 1 .. Len(t) : s[i] = t[i]
    BY <1>2, <2>1
  <2>3. \A v \in User \ {u} : KeyIn(s, v) = KeyIn(new, v)
    <3>1. ASSUME NEW v \in User \ {u}
          PROVE  KeyIn(s, v) = KeyIn(new, v)
      <4>1. KeyIn(s, v) = IF KeyIn(t, v) # NoKey THEN KeyIn(t, v)
                          ELSE IF k.user = v THEN k.key ELSE NoKey
        BY <1>2, <2>1, KeyInAppend
      <4>2. KeyIn(t, v) = KeyIn(old, v)
        BY <1>4 DEF CopyOf
      <4> HIDE DEF s
      <4>3. QED
        BY <1>2, <1>5, <4>1, <4>2
    <3>2. QED
      BY <3>1
  <2>4. \A i \in DOMAIN s : s[i].user # u /\ ~s[i].cut
    <3> HIDE DEF s
    <3>1. \A i \in 1 .. Len(t) : t[i].user # u /\ ~t[i].cut
      BY <1>4, <2>1 DEF CopyOf
    <3>2. QED
      BY <1>2, <1>7, <2>1, <2>2, <3>1
  <2>5. CopyOf(s, u, new)
    BY <2>2, <2>3, <2>4 DEF CopyOf
  <2>6. QED
    BY <1>7, <2>5 DEF l, k, new
<1>8. QED
  BY <1>6, <1>7

\* So LinesBut is a copy, by the least number of lines for which it would not be.
LEMMA LinesButIsCopy ==
    ASSUME NEW u \in User, NEW lines \in Seq(Line)
    PROVE  CopyOf(LinesBut(u, lines), u, lines)
<1>1. PICK f : Copies(u, lines, Len(lines), f) /\ LinesBut(u, lines) = f[Len(lines)]
  BY LinesButCopies
<1>2. Len(lines) \in Nat
  OBVIOUS
<1>3. \A n \in 0 .. Len(lines) :
        f[n] = IF n = 0 THEN <<>>
               ELSE IF lines[n].user \in {u, Nobody} THEN f[n - 1]
               ELSE Append(f[n - 1], [lines[n] EXCEPT !.cut = FALSE])
  BY <1>1, <1>2 DEF Copies
<1> DEFINE Bad == {n \in 0 .. Len(lines) : ~CopyOf(f[n], u, SubSeq(lines, 1, n))}
<1>4. CASE Bad = {}
  <2>1. CopyOf(f[Len(lines)], u, SubSeq(lines, 1, Len(lines)))
    BY <1>2, <1>4
  <2>2. SubSeq(lines, 1, Len(lines)) = lines
    OBVIOUS
  <2>3. QED
    BY <1>1, <2>1, <2>2
<1>5. CASE Bad # {}
  <2>1. PICK b \in Bad : \A n \in Bad : b <= n
    <3>1. Bad \subseteq Nat
      BY <1>2
    <3> HIDE DEF Bad
    <3>2. QED
      BY <1>5, <3>1, LeastOf
  <2>2. b \in 0 .. Len(lines) /\ ~CopyOf(f[b], u, SubSeq(lines, 1, b))
    OBVIOUS
  <2>3. CASE b = 0
    <3>1. f[0] = <<>>
      <4>1. 0 \in 0 .. Len(lines)
        BY <1>2
      <4>2. QED
        BY <1>3, <4>1
    <3>2. SubSeq(lines, 1, 0) = <<>>
      OBVIOUS
    <3>3. CopyOf(<<>>, u, <<>>)
      BY DEF CopyOf
    <3>4. QED
      BY <2>2, <2>3, <3>1, <3>2, <3>3
  <2>4. CASE b # 0
    <3>1. b - 1 \in 0 .. Len(lines) /\ b - 1 \notin Bad
      BY <1>2, <2>1, <2>2, <2>4
    <3>2. CopyOf(f[b - 1], u, SubSeq(lines, 1, b - 1))
      BY <3>1
    <3>3. b \in 1 .. Len(lines)
      BY <2>2, <2>4
    <3>4. f[b] = IF lines[b].user \in {u, Nobody} THEN f[b - 1]
                 ELSE Append(f[b - 1], [lines[b] EXCEPT !.cut = FALSE])
      BY <1>3, <2>2, <2>4
    <3>5. CopyOf(f[b], u, SubSeq(lines, 1, b))
      BY <3>2, <3>3, <3>4, CopyGrows
    <3>6. QED
      BY <2>2, <3>5
  <2>5. QED
    BY <2>3, <2>4
<1>6. QED
  BY <1>4, <1>5

\* The file that fingerprint --update writes.
UpdateOf(new, l, lines) ==
    /\ new \in Seq(Line) /\ Over(<<>>, new) = new
    /\ KeyIn(new, l.user) = l.key
    /\ \A v \in User \ {l.user} : KeyIn(new, v) = KeyIn(lines, v)
    /\ \A i \in DOMAIN new : ~new[i].cut

LEMMA UpdatedLines ==
    ASSUME NEW u \in User, NEW lines \in Seq(Line), NEW l \in Line, l.user = u, ~l.cut
    PROVE  UpdateOf(Append(LinesBut(u, lines), l), l, lines)
<1> DEFINE t == LinesBut(u, lines)
           new == Append(t, l)
<1>1. CopyOf(t, u, lines)
  BY LinesButIsCopy
<1> HIDE DEF t
<1>2. t \in Seq(Line) /\ new = Append(t, l)
  BY <1>1 DEF CopyOf
<1> HIDE DEF new
<1>3. /\ new \in Seq(Line) /\ DOMAIN new = 1 .. Len(t) + 1 /\ new[Len(t) + 1] = l
      /\ \A i \in 1 .. Len(t) : new[i] = t[i]
  BY <1>2
<1>4. Over(<<>>, new) = new
  <2>1. SubSeq(<<>>, Len(new) + 1, Len(<<>>)) = <<>>
    BY <1>3
  <2>2. Over(<<>>, new) = new \o <<>>
    BY <2>1 DEF Over
  <2>3. QED
    BY <1>3, <2>2
<1>5. \A v : KeyIn(new, v) = IF KeyIn(t, v) # NoKey THEN KeyIn(t, v)
                             ELSE IF l.user = v THEN l.key ELSE NoKey
  BY <1>2, KeyInAppend
<1>6. KeyIn(t, u) = NoKey
  BY <1>1, <1>2, KeyInType DEF CopyOf
<1>7. \A v \in User \ {u} : KeyIn(t, v) = KeyIn(lines, v)
  BY <1>1 DEF CopyOf
<1>8. \A i \in DOMAIN new : ~new[i].cut
  BY <1>1, <1>2, <1>3 DEF CopyOf
<1>9. QED
  BY <1>3, <1>4, <1>5, <1>6, <1>7, <1>8 DEF UpdateOf, t, new

-----------------------------------------------------------------------------
\* How the commands go on.

Steps == Writing \cup Mailing \cup {"idle", "done"}

Others(c) == \A d \in Command \ {c} : command'[d] = command[d]

\* A command that goes on holds what it held.
LEMMA GoToIs ==
    ASSUME TypeOK, NEW c \in Command, NEW step \in Steps, GoTo(c, step)
    PROVE  /\ command' \in [Command -> Run] /\ Others(c)
           /\ command'[c].step = step
           /\ command'[c].user = command[c].user /\ command'[c].key = command[c].key
           /\ command'[c].mail = command[c].mail /\ command'[c].file = command[c].file
           /\ command'[c].reads = command[c].reads /\ command'[c].shown = command[c].shown
           /\ command'[c].failed = command[c].failed
<1> DEFINE r == command[c]
           q == [r EXCEPT !.step = step]
<1>1. r \in Run
  BY DEF TypeOK
<1>2. command' = [command EXCEPT ![c] = q]
  BY DEF GoTo, TypeOK
<1> HIDE DEF r
<1>3. q \in Run
  BY <1>1 DEF Run, Steps
<1>4. /\ q.step = step /\ q.user = r.user /\ q.key = r.key /\ q.mail = r.mail
      /\ q.file = r.file /\ q.reads = r.reads /\ q.shown = r.shown /\ q.failed = r.failed
  BY <1>1 DEF Run
<1> HIDE DEF q
<1>5. command'[c] = q /\ Others(c) /\ command' \in [Command -> Run]
  BY <1>2, <1>3 DEF TypeOK, Others
<1>6. QED
  BY <1>4, <1>5 DEF r

\* A command that does nothing is one.
LEMMA IdleIsRun == Idle \in Run
  BY RecordsAssumption DEF Idle, Run, Garbled

\* A command that ends holds nothing.
LEMMA EndIs ==
    ASSUME TypeOK, NEW c \in Command, End(c)
    PROVE  /\ command' \in [Command -> Run] /\ Others(c)
           /\ \A d \in Command : Filled(command'[d])
           /\ command'[c].step = "done" /\ command'[c].shown = "nothing"
<1> DEFINE q == [Idle EXCEPT !.step = "done"]
<1>1. q \in Run
  BY IdleIsRun DEF Run
<1>2. q.step = "done" /\ q.shown = "nothing"
  BY DEF Idle
<1>3. command' = [command EXCEPT ![c] = q]
  BY DEF End
<1> HIDE DEF q
<1>4. command'[c] = q /\ Others(c) /\ command' \in [Command -> Run]
  BY <1>1, <1>3 DEF TypeOK, Others
<1>5. Filled(q)
  BY <1>2 DEF Filled, Writing, Mailing
<1>6. QED
  BY <1>2, <1>4, <1>5 DEF TypeOK, Others

\* A step that writes neither known_hosts nor known_hosts.tmp.
LEMMA FilesKept ==
    ASSUME IInv, NEW c \in Command, Others(c), UNCHANGED <<hosts, tmp, content>>,
           loose \subseteq loose',
           command'[c].step \notin {"copy", "rename"},
           command[c].step \in {"copy", "rename", "done"} => command'[c].step = "done"
    PROVE  FileInv' /\ UpdateInv' /\ LineInv' /\ \A u : Known(u)' = Known(u)
<1>1. hosts' = hosts /\ tmp' = tmp /\ content' = content
  OBVIOUS
<1>2. \A f : LinesOf(f)' = LinesOf(f)
  BY <1>1 DEF LinesOf
<1>3. \A u : Known(u)' = Known(u)
  BY <1>1 DEF Known, LinesOf
<1>4. FileInv'
  BY <1>1 DEF IInv, FileInv, Made, Others, TypeOK
<1>5. \A d \in Command : At(d, "copy")' \/ At(d, "rename")' => d # c /\ command'[d] = command[d]
  BY DEF At, Others
<1>6. UpdateInv'
  BY <1>1, <1>5 DEF IInv, UpdateInv, Updating, At
<1>7. LineInv'
  BY <1>1, <1>2, <1>3, <1>5 DEF IInv, LineInv, At
<1>8. QED
  BY <1>3, <1>4, <1>6, <1>7

\* So trusted keys hold.
LEMMA HostsKept ==
    ASSUME IInv, NEW c \in Command, Others(c), UNCHANGED hostVars,
           command'[c].step \notin {"copy", "rename"},
           command[c].step \in {"copy", "rename", "done"} => command'[c].step = "done"
    PROVE  FileInv' /\ UpdateInv' /\ LineInv' /\ PinsHold'
<1>1. /\ UNCHANGED <<hosts, tmp, content>>
      /\ pinned' = pinned /\ sealed' = sealed /\ loose' = loose
  BY DEF hostVars
<1>2. FileInv' /\ UpdateInv' /\ LineInv' /\ \A u : Known(u)' = Known(u)
  BY <1>1, FilesKept
<1>3. PinsHold'
  BY <1>1, <1>2 DEF IInv, PinsHold
<1>4. QED
  BY <1>2, <1>3

\* A step that changes no mail: whoever it leaves searching knows what it has
\* ruled out.
LEMMA MailsKept ==
    ASSUME IInv, NEW c \in Command, Others(c), UNCHANGED mailVars, Note,
           command[c].step # "write", command'[c].step # "write",
           command'[c].step = "save" => mail[command'[c].mail] # "coming",
           command'[c].shown = "unavailable" => c \in missed \/ command'[c].failed,
           (command'[c].step = "sent" /\ Box[command'[c].mail] = "inbox")
               \/ command'[c].step = "saved"
               => c \in missed \/ command'[c].failed \/ mail[command'[c].mail] = "gone"
    PROVE  MailInv' /\ SearchInv' /\ SavedKept' /\ UnavailableIsGone'
<1>1. mail' = mail /\ saved' = saved /\ reported' = reported /\ broken' = broken
  BY DEF mailVars
<1>2. /\ missed \subseteq missed'
      /\ \A d \in Command : Searching(d)' /\ d \notin missed' => ~Nowhere(command[d].mail)'
  BY DEF Note
<1>3. MailInv'
  BY <1>1 DEF IInv, MailInv, Others, At
<1>4. SearchInv'
  <2>1. SUFFICES ASSUME NEW d \in Command, Searching(d)', d \notin missed'
                 PROVE  SearchOK(d)'
    BY DEF SearchInv
  <2>2. ~Nowhere(command[d].mail)'
    BY <1>2, <2>1
  <2>3. CASE d = c
    BY <1>1, <1>2, <2>1, <2>2, <2>3 DEF SearchOK, At
  <2>4. CASE d # c
    <3>1. command'[d] = command[d]
      BY <2>4 DEF Others
    <3>2. Searching(d) /\ d \notin missed
      BY <1>2, <2>1, <3>1 DEF Searching, At
    <3>3. QED
      BY <1>1, <2>2, <3>1, <3>2 DEF IInv, SearchInv, SearchOK, At
  <2>5. QED
    BY <2>3, <2>4
<1>5. SavedKept'
  BY <1>1 DEF IInv, SavedKept, At, Others
<1>6. UnavailableIsGone'
  BY <1>2 DEF IInv, UnavailableIsGone, Others
<1>7. QED
  BY <1>3, <1>4, <1>5, <1>6

\* What is not about commands keeps its type.
LEMMA TypesKept ==
    ASSUME TypeOK, UNCHANGED <<hostVars, mailVars>>, Note,
           command' \in [Command -> Run], \A c \in Command : Filled(command'[c])
    PROVE  TypeOK'
  BY DEF TypeOK, hostVars, mailVars, Note

-----------------------------------------------------------------------------
\* A command begins.
LEMMA BeginKeeps ==
    ASSUME IInv, NEW c \in Command, NEW r \in Run, Filled(r), Begin(c, r), Note,
           r.step \in {"check", "open", "burn", "get", "inbox"}, r.shown = "nothing"
    PROVE  IInv'
<1>1. TypeOK /\ command[c].step = "idle"
  BY DEF IInv, Begin, At
<1>2. command'[c] = r /\ Others(c) /\ command' \in [Command -> Run]
  BY <1>1 DEF Begin, TypeOK, Others
<1>3. UNCHANGED <<hostVars, mailVars>> /\ UNCHANGED hostVars /\ UNCHANGED mailVars
  BY DEF Begin
<1>4. TypeOK'
  <2>1. \A d \in Command : Filled(command'[d])
    BY <1>1, <1>2 DEF TypeOK, Others
  <2>2. QED
    BY <1>1, <1>2, <1>3, <2>1, TypesKept
<1>5. FileInv' /\ UpdateInv' /\ LineInv' /\ PinsHold'
  BY <1>1, <1>2, <1>3, HostsKept
<1>6. MailInv' /\ SearchInv' /\ SavedKept' /\ UnavailableIsGone'
  BY <1>1, <1>2, <1>3, MailsKept
<1>7. QED
  BY <1>4, <1>5, <1>6 DEF IInv

\* send or fingerprint --update begins, with a key that the instance answered.
LEMMA SendOrUpdateKeeps ==
    ASSUME IInv, NEW c \in Command, Send(c) \/ Update(c), Note
    PROVE  IInv'
<1>1. PICK u \in User, step \in {"check", "open"} : \E k \in 1 .. newest[u] :
        Begin(c, [Idle EXCEPT !.step = step, !.user = u, !.key = k])
  BY DEF Send, Update
<1>2. PICK k \in 1 .. newest[u] :
        Begin(c, [Idle EXCEPT !.step = step, !.user = u, !.key = k])
  BY <1>1
<1> DEFINE r == [Idle EXCEPT !.step = step, !.user = u, !.key = k]
<1>3. k \in 1 .. MaxKey
  BY RecordsAssumption DEF IInv, TypeOK
<1>4. r \in Run
  <2>1. k \in 0 .. MaxKey
    BY <1>3
  <2>2. step \in Writing
    BY DEF Writing
  <2>3. QED
    BY <2>1, <2>2, IdleIsRun DEF Run
<1>5. r.step = step /\ r.user = u /\ r.key = k /\ r.shown = "nothing"
  BY DEF Idle
<1> HIDE DEF r
<1>6. Filled(r)
  BY <1>3, <1>5 DEF Filled, Mailing
<1>7. QED
  BY <1>2, <1>4, <1>5, <1>6, BeginKeeps DEF r

\* burn or save begins.
LEMMA BurnOrSaveKeeps ==
    ASSUME IInv, NEW c \in Command, Burn(c) \/ Save(c), Note
    PROVE  IInv'
<1>1. PICK m \in Mail, step \in {"burn", "get"} :
        Begin(c, [Idle EXCEPT !.step = step, !.mail = m])
  BY DEF Burn, Save
<1> DEFINE r == [Idle EXCEPT !.step = step, !.mail = m]
<1>2. r \in Run
  BY IdleIsRun DEF Run, Mailing
<1>3. r.step = step /\ r.mail = m /\ r.shown = "nothing"
  BY DEF Idle
<1> HIDE DEF r
<1>4. Filled(r)
  BY <1>3 DEF Filled, Writing
<1>5. QED
  BY <1>1, <1>2, <1>3, <1>4, BeginKeeps DEF r

\* A mail is shown that answers another one.
LEMMA ShowOrReadKeeps ==
    ASSUME IInv, NEW c \in Command, Show(c) \/ Read(c), Note
    PROVE  IInv'
<1>1. PICK m \in Mail : Search(c, m)
  BY DEF Show, Read
<1> DEFINE r == [Idle EXCEPT !.step = "inbox", !.mail = Answers[m]]
<1>2. Answers[m] \in Mail /\ Begin(c, r)
  BY <1>1, RecordsAssumption DEF Search
<1>3. r \in Run
  BY <1>2, IdleIsRun DEF Run, Mailing
<1>4. r.step = "inbox" /\ r.mail = Answers[m] /\ r.shown = "nothing"
  BY DEF Idle
<1> HIDE DEF r
<1>5. Filled(r)
  BY <1>2, <1>4 DEF Filled, Writing
<1>6. QED
  BY <1>2, <1>3, <1>4, <1>5, BeginKeeps

-----------------------------------------------------------------------------
\* Mail at the instance comes and goes.
LEMMA ArriveKeeps ==
    ASSUME IInv, NEW m \in Mail, Arrive(m), Note
    PROVE  IInv'
<1>1. /\ UNCHANGED hostVars /\ saved' = saved /\ reported' = reported /\ broken' = broken
      /\ command' = command /\ mail[m] = "coming" /\ mail' = [mail EXCEPT ![m] = "there"]
  BY DEF Arrive
<1>2. /\ mail'[m] = "there"
      /\ \A n \in Mail \ {m} : mail'[n] = mail[n]
  BY <1>1 DEF IInv, TypeOK
<1>3. TypeOK'
  BY <1>1 DEF IInv, TypeOK, hostVars, Note
<1>4. FileInv' /\ UpdateInv' /\ LineInv' /\ PinsHold'
  BY <1>1 DEF IInv, FileInv, UpdateInv, LineInv, PinsHold, Made, Updating, At, LinesOf,
     Known, hostVars
<1>5. MailInv'
  BY <1>1, <1>2 DEF IInv, MailInv, At
<1>6. SearchInv'
  <2>1. SUFFICES ASSUME NEW c \in Command, Searching(c)', c \notin missed'
                 PROVE  SearchOK(c)'
    BY DEF SearchInv
  <2>2. Searching(c) /\ c \notin missed
    BY <1>1, <2>1 DEF Searching, At, Note
  <2>3. SearchOK(c) /\ command[c].mail \in Mail
    BY <2>2 DEF IInv, SearchInv, TypeOK, Filled, Searching, At, Mailing
  <2>4. QED
    BY <1>1, <1>2, <2>3 DEF SearchOK, Nowhere, At
<1>7. SavedKept' /\ UnavailableIsGone'
  BY <1>1 DEF IInv, SavedKept, UnavailableIsGone, At, Note
<1>8. QED
  BY <1>3, <1>4, <1>5, <1>6, <1>7 DEF IInv

\* A step that changes mail and starts no search: what is gone stays gone.
LEMMA SearchKept ==
    ASSUME IInv, Note,
           \A c \in Command : Searching(c)' => command'[c] = command[c],
           \A c \in Command : \/ command'[c].shown # "unavailable"
                               \/ /\ command'[c].shown = command[c].shown
                                  /\ command'[c].failed = command[c].failed,
           \A m \in Mail : mail[m] = "gone" => mail'[m] = "gone"
    PROVE  SearchInv' /\ UnavailableIsGone'
<1>1. /\ missed \subseteq missed'
      /\ \A c \in Command : Searching(c)' /\ c \notin missed' => ~Nowhere(command[c].mail)'
  BY DEF Note
<1>2. SearchInv'
  <2>1. SUFFICES ASSUME NEW c \in Command, Searching(c)', c \notin missed'
                 PROVE  SearchOK(c)'
    BY DEF SearchInv
  <2>2. command'[c] = command[c]
    BY <2>1
  <2>3. Searching(c) /\ c \notin missed
    BY <1>1, <2>1, <2>2 DEF Searching, At
  <2>4. SearchOK(c) /\ command[c].mail \in Mail
    BY <2>3 DEF IInv, SearchInv, TypeOK, Filled, Searching, At, Mailing
  <2>5. QED
    BY <1>1, <2>1, <2>2, <2>4 DEF SearchOK, At
<1>3. UnavailableIsGone'
  BY <1>1 DEF IInv, UnavailableIsGone
<1>4. QED
  BY <1>2, <1>3

\* The other party burns a mail.
LEMMA VanishKeeps ==
    ASSUME IInv, NEW m \in Mail, Vanish(m), Note
    PROVE  IInv'
<1>1. /\ UNCHANGED hostVars /\ saved' = saved /\ reported' = reported /\ broken' = broken
      /\ command' = command /\ mail[m] = "there" /\ mail' = [mail EXCEPT ![m] = "gone"]
  BY DEF Vanish
<1>2. /\ mail'[m] = "gone"
      /\ \A n \in Mail \ {m} : mail'[n] = mail[n]
  BY <1>1 DEF IInv, TypeOK
<1>3. TypeOK'
  BY <1>1 DEF IInv, TypeOK, hostVars, Note
<1>4. FileInv' /\ UpdateInv' /\ LineInv' /\ PinsHold'
  BY <1>1 DEF IInv, FileInv, UpdateInv, LineInv, PinsHold, Made, Updating, At, LinesOf,
     Known, hostVars
<1>5. MailInv'
  <2>1. \A n \in Mail : mail'[n] = "coming" => mail[n] = "coming"
    BY <1>2
  <2>2. \A c \in Command : At(c, "save") \/ At(c, "write") => command[c].mail \in Mail
    BY DEF IInv, TypeOK, Filled, At, Mailing
  <2>3. QED
    BY <1>1, <2>1, <2>2 DEF IInv, MailInv, At
<1>6. SearchInv' /\ UnavailableIsGone'
  BY <1>1, <1>2, SearchKept
<1>7. SavedKept'
  BY <1>1 DEF IInv, SavedKept, At
<1>8. QED
  BY <1>3, <1>4, <1>5, <1>6, <1>7 DEF IInv

\* burn, as the instance carries it out or not.
LEMMA BurntKeeps ==
    ASSUME IInv, NEW c \in Command, Burnt(c), Note
    PROVE  IInv'
<1> DEFINE m == command[c].mail
<1>1. /\ UNCHANGED hostVars /\ saved' = saved /\ reported' = reported /\ broken' = broken
      /\ End(c) /\ command[c].step = "burn"
      /\ mail' \in {mail, [mail EXCEPT ![m] = IF @ = "there" THEN "gone" ELSE @]}
  BY DEF Burnt, At
<1>2. TypeOK /\ m \in Mail
  BY <1>1 DEF IInv, TypeOK, Filled, Mailing
<1>3. /\ command' \in [Command -> Run] /\ Others(c) /\ \A d \in Command : Filled(command'[d])
      /\ command'[c].step = "done" /\ command'[c].shown = "nothing"
  BY <1>1, <1>2, EndIs
<1>4. \A n \in Mail : /\ mail[n] = "gone" => mail'[n] = "gone"
                      /\ mail'[n] = "coming" => mail[n] = "coming"
                      /\ mail'[n] \in {"coming", "there", "gone"}
  BY <1>1, <1>2 DEF TypeOK
<1>5. TypeOK'
  <2>1. mail' \in [Mail -> {"coming", "there", "gone"}]
    BY <1>1, <1>2 DEF TypeOK
  <2>2. QED
    BY <1>1, <1>2, <1>3, <2>1 DEF TypeOK, hostVars, Note
<1>6. FileInv' /\ UpdateInv' /\ LineInv' /\ PinsHold'
  BY <1>1, <1>3, HostsKept
<1>7. MailInv'
  <2>1. \A d \in Command : At(d, "save") \/ At(d, "write") => command[d].mail \in Mail
    BY <1>2 DEF TypeOK, Filled, At, Mailing
  <2>2. \A d \in Command : At(d, "save")' \/ At(d, "write")' => d # c /\ command'[d] = command[d]
    BY <1>3 DEF Others, At
  <2>3. QED
    BY <1>1, <1>4, <2>1, <2>2 DEF IInv, MailInv, At
<1>8. SearchInv' /\ UnavailableIsGone'
  <2>1. \A d \in Command : command'[d] = command[d] \/ d = c
    BY <1>3 DEF Others
  <2>2. ~Searching(c)'
    BY <1>3 DEF Searching, At
  <2>3. QED
    BY <1>3, <1>4, <2>1, <2>2, SearchKept
<1>9. SavedKept'
  BY <1>1, <1>3 DEF IInv, SavedKept, At, Others
<1>10. QED
  BY <1>5, <1>6, <1>7, <1>8, <1>9 DEF IInv

-----------------------------------------------------------------------------
\* A command ends, or goes on, and writes nothing.
LEMMA EndKeeps ==
    ASSUME IInv, NEW c \in Command, End(c), UNCHANGED <<hostVars, mailVars>>, Note,
           command[c].step # "write"
    PROVE  IInv'
<1>1. TypeOK /\ UNCHANGED hostVars /\ UNCHANGED mailVars
  BY DEF IInv
<1>2. /\ command' \in [Command -> Run] /\ Others(c)
      /\ \A d \in Command : Filled(command'[d])
      /\ command'[c].step = "done" /\ command'[c].shown = "nothing"
  BY <1>1, EndIs
<1>3. TypeOK'
  BY <1>1, <1>2, TypesKept
<1>4. FileInv' /\ UpdateInv' /\ LineInv' /\ PinsHold'
  BY <1>1, <1>2, HostsKept
<1>5. MailInv' /\ SearchInv' /\ SavedKept' /\ UnavailableIsGone'
  BY <1>1, <1>2, MailsKept
<1>6. QED
  BY <1>3, <1>4, <1>5 DEF IInv

\* A command goes on to a step that its mail allows.
LEMMA GoToKeeps ==
    ASSUME IInv, NEW c \in Command, NEW step \in {"append", "save", "sent", "saved"},
           GoTo(c, step), UNCHANGED <<hostVars, mailVars>>, Note,
           command[c].step \in IF step = "append" THEN {"check"} ELSE {"get", "inbox", "sent"},
           step = "save" => mail[command[c].mail] # "coming",
           (step = "sent" /\ Box[command[c].mail] = "inbox") \/ step = "saved"
               => c \in missed \/ command[c].failed \/ mail[command[c].mail] = "gone"
    PROVE  IInv'
<1>1. TypeOK /\ UNCHANGED hostVars /\ UNCHANGED mailVars
  BY DEF IInv
<1>2. step \in Steps
  BY DEF Steps, Mailing, Writing
<1>3. /\ command' \in [Command -> Run] /\ Others(c) /\ command'[c].step = step
      /\ command'[c].user = command[c].user /\ command'[c].key = command[c].key
      /\ command'[c].mail = command[c].mail /\ command'[c].shown = command[c].shown
      /\ command'[c].failed = command[c].failed
  BY <1>1, <1>2, GoToIs
<1>4. Filled(command'[c])
  BY <1>1, <1>3 DEF TypeOK, Filled, Writing, Mailing
<1>5. TypeOK'
  <2>1. \A d \in Command : Filled(command'[d])
    BY <1>1, <1>3, <1>4 DEF TypeOK, Others
  <2>2. QED
    BY <1>1, <1>3, <2>1, TypesKept
<1>6. FileInv' /\ UpdateInv' /\ LineInv' /\ PinsHold'
  BY <1>1, <1>3, HostsKept
<1>7. command[c].shown = "unavailable" => c \in missed \/ command[c].failed
  BY DEF IInv, UnavailableIsGone
<1>8. MailInv' /\ SearchInv' /\ SavedKept' /\ UnavailableIsGone'
  BY <1>1, <1>3, <1>7, MailsKept
<1>9. QED
  BY <1>5, <1>6, <1>8 DEF IInv

-----------------------------------------------------------------------------
\* save: the mail is fetched, and then written to the file.
LEMMA GetKeeps ==
    ASSUME IInv, NEW c \in Command, Get(c), Note
    PROVE  IInv'
<1>1. command[c].step = "get" /\ UNCHANGED <<hostVars, mailVars>>
  BY DEF Get, At
<1>2. CASE mail[command[c].mail] = "there" /\ GoTo(c, "save")
  BY <1>1, <1>2, GoToKeeps
<1>3. CASE End(c)
  BY <1>1, <1>3, EndKeeps
<1>4. QED
  BY <1>2, <1>3 DEF Get

\* fopen empties the file, which counts as kept while it is written.
LEMMA OpenSavedKeeps ==
    ASSUME IInv, NEW c \in Command, OpenSaved(c), Note
    PROVE  IInv'
<1> DEFINE m == command[c].mail
<1>1. /\ UNCHANGED hostVars /\ mail' = mail /\ reported' = reported /\ broken' = broken
      /\ command[c].step = "save"
  BY DEF OpenSaved, At
<1>2. TypeOK /\ m \in Mail
  BY <1>1 DEF IInv, TypeOK, Filled, Mailing
<1>3. CASE GoTo(c, "write") /\ saved' = [saved EXCEPT ![m] = "torn"]
  <2>1. "write" \in Steps
    BY DEF Steps, Mailing
  <2>2. /\ command' \in [Command -> Run] /\ Others(c) /\ command'[c].step = "write"
        /\ command'[c].mail = m /\ command'[c].shown = command[c].shown
        /\ command'[c].failed = command[c].failed
    BY <1>2, <1>3, <2>1, GoToIs
  <2> HIDE DEF m
  <2>3. /\ saved' \in [Mail -> {"absent", "torn", "whole"}]
        /\ saved'[m] = "torn" /\ \A n \in Mail \ {m} : saved'[n] = saved[n]
    BY <1>2, <1>3 DEF TypeOK
  <2>4. TypeOK'
    <3>1. Filled(command'[c])
      BY <1>2, <2>2 DEF Filled, Writing, Mailing
    <3>2. \A d \in Command : Filled(command'[d])
      BY <1>2, <2>2, <3>1 DEF TypeOK, Others
    <3>3. QED
      BY <1>1, <1>2, <2>2, <2>3, <3>2 DEF TypeOK, hostVars, Note
  <2>5. FileInv' /\ UpdateInv' /\ LineInv' /\ PinsHold'
    BY <1>1, <2>2, HostsKept
  <2>6. mail[m] # "coming"
    BY <1>1 DEF IInv, MailInv, At, m
  <2>7. MailInv'
    BY <1>1, <2>2, <2>3, <2>6 DEF IInv, MailInv, At, Others
  <2>8. SearchInv' /\ UnavailableIsGone'
    <3>1. ~Searching(c)'
      BY <2>2 DEF Searching, At
    <3>2. \A d \in Command : Searching(d)' => d # c /\ command'[d] = command[d]
      BY <2>2, <3>1 DEF Others
    <3>3. QED
      BY <1>1, <2>2, <3>2, SearchKept DEF Others
  <2>9. SavedKept'
    <3>1. SUFFICES ASSUME NEW n \in reported \ broken
                   PROVE  \/ saved'[n] = "whole"
                          \/ \E d \in Command : command'[d].step = "write" /\ command'[d].mail = n
      BY <1>1 DEF SavedKept, At
    <3>2. CASE n = m
      BY <2>2, <3>2
    <3>3. CASE n # m
      <4>1. n \in Mail /\ saved'[n] = saved[n]
        BY <1>2, <2>3, <3>3 DEF TypeOK
      <4>2. saved[n] = "whole" \/ \E d \in Command \ {c} : command[d].step = "write" /\ command[d].mail = n
        BY <1>1 DEF IInv, SavedKept, At
      <4>3. QED
        BY <2>2, <4>1, <4>2 DEF Others
    <3>4. QED
      BY <3>2, <3>3
  <2>10. QED
    BY <2>4, <2>5, <2>7, <2>8, <2>9 DEF IInv
<1>4. CASE End(c) /\ UNCHANGED saved
  <2>1. UNCHANGED <<hostVars, mailVars>>
    BY <1>1, <1>4 DEF mailVars
  <2>2. QED
    BY <1>1, <1>4, <2>1, EndKeeps
<1>5. QED
  BY <1>3, <1>4 DEF OpenSaved

\* The file is closed, whatever the disk held of it.
LEMMA WriteSavedKeeps ==
    ASSUME IInv, NEW c \in Command, WriteSaved(c), Note
    PROVE  IInv'
<1> DEFINE m == command[c].mail
<1>1. /\ UNCHANGED hostVars /\ mail' = mail /\ reported' = reported \cup {m}
      /\ command[c].step = "write" /\ End(c)
      /\ \/ saved' = [saved EXCEPT ![m] = "whole"] /\ broken' = broken
         \/ saved' = [saved EXCEPT ![m] = "torn"] /\ broken' = broken \cup {m}
  BY DEF WriteSaved, At
<1>2. TypeOK /\ m \in Mail
  BY <1>1 DEF IInv, TypeOK, Filled, Mailing
<1>3. /\ command' \in [Command -> Run] /\ Others(c) /\ \A d \in Command : Filled(command'[d])
      /\ command'[c].step = "done" /\ command'[c].shown = "nothing"
  BY <1>1, <1>2, EndIs
<1>4. mail[m] # "coming"
  BY <1>1 DEF IInv, MailInv, At
<1> HIDE DEF m
<1>5. /\ saved' \in [Mail -> {"absent", "torn", "whole"}]
      /\ \A n \in Mail \ {m} : saved'[n] = saved[n]
      /\ saved'[m] = "whole" \/ m \in broken'
      /\ broken \subseteq broken' /\ broken' \subseteq Mail
  BY <1>1, <1>2 DEF TypeOK
<1>6. TypeOK'
  BY <1>1, <1>2, <1>3, <1>5 DEF TypeOK, hostVars, Note
<1>7. FileInv' /\ UpdateInv' /\ LineInv' /\ PinsHold'
  BY <1>1, <1>3, HostsKept
<1>8. MailInv'
  <2>1. \A d \in Command : At(d, "save")' \/ At(d, "write")' => d # c /\ command'[d] = command[d]
    BY <1>3 DEF Others, At
  <2>2. QED
    BY <1>1, <1>4, <1>5, <2>1 DEF IInv, MailInv, At
<1>9. SearchInv' /\ UnavailableIsGone'
  <2>1. \A d \in Command : Searching(d)' => command'[d] = command[d]
    BY <1>3 DEF Others, Searching, At
  <2>2. QED
    BY <1>1, <1>3, <2>1, SearchKept DEF Others
<1>10. SavedKept'
  <2>1. SUFFICES ASSUME NEW n \in reported' \ broken'
                 PROVE  \/ saved'[n] = "whole"
                        \/ \E d \in Command : command'[d].step = "write" /\ command'[d].mail = n
    BY DEF SavedKept, At
  <2>2. CASE n = m
    BY <1>5, <2>2
  <2>3. CASE n # m
    <3>1. n \in Mail /\ saved'[n] = saved[n] /\ n \in reported \ broken
      BY <1>1, <1>2, <1>5, <2>1, <2>3 DEF TypeOK
    <3>2. \/ saved[n] = "whole"
          \/ \E d \in Command \ {c} : command[d].step = "write" /\ command[d].mail = n
      BY <2>3, <3>1 DEF IInv, SavedKept, At, m
    <3>3. QED
      BY <1>3, <3>1, <3>2 DEF Others
  <2>4. QED
    BY <2>2, <2>3
<1>11. QED
  BY <1>6, <1>7, <1>8, <1>9, <1>10 DEF IInv

-----------------------------------------------------------------------------
\* The mail that another one answers is looked for.

LEMMA ShownIs ==
    ASSUME TypeOK, NEW c \in Command, NEW as \in {"id", "saved", "unavailable"}, Shown(c, as)
    PROVE  /\ command' \in [Command -> Run] /\ Others(c)
           /\ \A d \in Command : Filled(command'[d])
           /\ command'[c].step = "done" /\ command'[c].shown = as
           /\ command'[c].failed = command[c].failed
<1> DEFINE b == command[c].failed
           q == [Idle EXCEPT !.step = "done", !.shown = as, !.failed = b]
<1>1. b \in BOOLEAN
  BY DEF TypeOK, Run
<1>2. command' = [command EXCEPT ![c] = q]
  BY DEF Shown
<1> HIDE DEF b
<1>3. q \in Run
  BY <1>1, IdleIsRun DEF Run
<1>4. q.step = "done" /\ q.shown = as /\ q.failed = b
  BY DEF Idle
<1> HIDE DEF q
<1>5. command'[c] = q /\ Others(c) /\ command' \in [Command -> Run]
  BY <1>2, <1>3 DEF TypeOK, Others
<1>6. Filled(q)
  BY <1>4 DEF Filled, Writing, Mailing
<1>7. QED
  BY <1>4, <1>5, <1>6 DEF TypeOK, Others, b

\* A search ends.
LEMMA ShownKeeps ==
    ASSUME IInv, NEW c \in Command, NEW as \in {"id", "saved", "unavailable"}, Shown(c, as),
           Searching(c), UNCHANGED <<hostVars, mailVars>>, Note,
           as = "unavailable" => c \in missed \/ command[c].failed
    PROVE  IInv'
<1>1. /\ TypeOK /\ UNCHANGED hostVars /\ UNCHANGED mailVars
      /\ command[c].step \in {"inbox", "sent", "saved"}
  BY DEF IInv, Searching, At
<1>2. /\ command' \in [Command -> Run] /\ Others(c)
      /\ \A d \in Command : Filled(command'[d])
      /\ command'[c].step = "done" /\ command'[c].shown = as
      /\ command'[c].failed = command[c].failed
  BY <1>1, ShownIs
<1>3. TypeOK'
  BY <1>1, <1>2, TypesKept
<1>4. FileInv' /\ UpdateInv' /\ LineInv' /\ PinsHold'
  BY <1>1, <1>2, HostsKept
<1>5. MailInv' /\ SearchInv' /\ SavedKept' /\ UnavailableIsGone'
  BY <1>1, <1>2, MailsKept
<1>6. QED
  BY <1>3, <1>4, <1>5 DEF IInv

\* A box that does not list a mail of its own: the mail is gone, or the search
\* was for nothing.
LEMMA UnlistedIsGone ==
    ASSUME IInv, NEW c \in Command, Searching(c), ~Listed(command[c].mail, Box[command[c].mail])
    PROVE  c \in missed \/ mail[command[c].mail] = "gone"
<1> DEFINE m == command[c].mail
<1>1. m \in Mail /\ TypeOK
  BY DEF IInv, TypeOK, Filled, Searching, At, Mailing
<1>2. mail[m] # "there"
  BY DEF Listed
<1>3. c \in missed \/ ~Nowhere(m)
  BY DEF IInv, SearchInv, SearchOK
<1>4. c \in missed \/ saved[m] = "whole"
  BY <1>2, <1>3 DEF Nowhere
<1> HIDE DEF m
<1>5. saved[m] = "whole" => mail[m] # "coming"
  BY <1>1 DEF IInv, MailInv
<1>6. mail[m] \in {"coming", "there", "gone"}
  BY <1>1 DEF TypeOK
<1>7. QED
  BY <1>2, <1>4, <1>5, <1>6 DEF m

\* The two boxes are asked for, one after the other.
LEMMA FindListedKeeps ==
    ASSUME IInv, NEW c \in Command, FindListed(c), Note
    PROVE  IInv'
<1> DEFINE m == command[c].mail
<1>1. PICK box \in {"inbox", "sent"} :
        FindInBox(c, box, IF box = "inbox" THEN "sent" ELSE "saved")
  BY DEF FindListed
<1> DEFINE next == IF box = "inbox" THEN "sent" ELSE "saved"
<1>2. /\ command[c].step = box /\ Searching(c) /\ UNCHANGED <<hostVars, mailVars>>
      /\ TypeOK /\ m \in Mail /\ Box[m] \in {"inbox", "sent"}
  <2>1. command[c].step = box /\ Searching(c) /\ UNCHANGED <<hostVars, mailVars>> /\ TypeOK
    BY <1>1 DEF FindInBox, Searching, At, IInv
  <2>2. m \in Mail
    BY <2>1 DEF TypeOK, Filled, Mailing
  <2>3. QED
    BY <2>1, <2>2, RecordsAssumption
<1>3. CASE Listed(m, box) /\ Shown(c, "id")
  BY <1>2, <1>3, ShownKeeps
<1>4. CASE ~Listed(m, box) /\ GoTo(c, next)
  <2>1. (next = "sent" /\ Box[m] = "inbox") \/ next = "saved"
           => c \in missed \/ command[c].failed \/ mail[m] = "gone"
    <3>1. CASE Box[m] = box
      BY <1>2, <1>4, <3>1, UnlistedIsGone
    <3>2. CASE box = "sent" /\ Box[m] = "inbox"
      BY <1>2, <3>2 DEF IInv, SearchInv, SearchOK, At
    <3>3. CASE box = "inbox" /\ Box[m] = "sent"
      BY <3>3
    <3>4. QED
      BY <1>1, <1>2, <3>1, <3>2, <3>3
  <2>2. next \in {"append", "save", "sent", "saved"} /\ next # "append" /\ next # "save"
    OBVIOUS
  <2> HIDE DEF next
  <2>3. QED
    BY <1>1, <1>2, <1>4, <2>1, <2>2, GoToKeeps
<1>5. CASE command' = [command EXCEPT ![c].step = next, ![c].failed = TRUE]
  <2> DEFINE r == command[c]
             q == [r EXCEPT !.step = next, !.failed = TRUE]
  <2>1. r \in Run /\ next \in {"sent", "saved"}
    BY <1>2 DEF TypeOK
  <2>2. command' = [command EXCEPT ![c] = q]
    BY <1>2, <1>5 DEF TypeOK
  <2> HIDE DEF r, next
  <2>3. q \in Run
    BY <2>1 DEF Run, Mailing
  <2>4. q.step = next /\ q.mail = r.mail /\ q.failed = TRUE
    BY <2>1 DEF Run
  <2> HIDE DEF q
  <2>5. command'[c] = q /\ Others(c) /\ command' \in [Command -> Run]
    BY <1>2, <2>2, <2>3 DEF TypeOK, Others
  <2>6. TypeOK'
    <3>1. Filled(q)
      BY <1>2, <2>1, <2>4 DEF Filled, Writing, Mailing, r
    <3>2. \A d \in Command : Filled(command'[d])
      BY <1>2, <2>5, <3>1 DEF TypeOK, Others
    <3>3. QED
      BY <1>2, <2>5, <3>2, TypesKept
  <2>7. FileInv' /\ UpdateInv' /\ LineInv' /\ PinsHold'
    BY <1>1, <1>2, <2>1, <2>4, <2>5, HostsKept
  <2>8. MailInv' /\ SearchInv' /\ SavedKept' /\ UnavailableIsGone'
    BY <1>1, <1>2, <2>1, <2>4, <2>5, MailsKept
  <2>9. QED
    BY <2>6, <2>7, <2>8 DEF IInv
<1>6. QED
  BY <1>1, <1>3, <1>4, <1>5 DEF FindInBox

\* The saved mail is looked at last.
LEMMA FindInSavedKeeps ==
    ASSUME IInv, NEW c \in Command, FindInSaved(c), Note
    PROVE  IInv'
<1> DEFINE m == command[c].mail
           as == IF saved[m] = "whole" THEN "saved" ELSE "unavailable"
<1>1. /\ command[c].step = "saved" /\ Searching(c) /\ UNCHANGED <<hostVars, mailVars>>
      /\ Shown(c, as)
  BY DEF FindInSaved, Searching, At
<1>2. as = "unavailable" => c \in missed \/ command[c].failed
  BY <1>1 DEF IInv, SearchInv, SearchOK, Nowhere, At
<1>3. as \in {"id", "saved", "unavailable"}
  OBVIOUS
<1> HIDE DEF as
<1>4. QED
  BY <1>1, <1>2, <1>3, ShownKeeps

-----------------------------------------------------------------------------
\* A command is killed: mail that it was writing is broken.
LEMMA KillKeeps ==
    ASSUME IInv, NEW c \in Command, Kill(c), Note
    PROVE  IInv'
<1> DEFINE m == command[c].mail
<1>1. /\ UNCHANGED hostVars /\ mail' = mail /\ saved' = saved /\ reported' = reported
      /\ End(c) /\ TypeOK
      /\ broken' = IF command[c].step = "write" THEN broken \cup {m} ELSE broken
  BY DEF Kill, At, IInv
<1>2. CASE command[c].step # "write"
  <2>1. UNCHANGED <<hostVars, mailVars>>
    BY <1>1, <1>2 DEF mailVars
  <2>2. QED
    BY <1>1, <1>2, <2>1, EndKeeps
<1>3. CASE command[c].step = "write"
  <2>1. m \in Mail
    BY <1>1, <1>3 DEF TypeOK, Filled, Mailing
  <2>2. /\ command' \in [Command -> Run] /\ Others(c) /\ \A d \in Command : Filled(command'[d])
        /\ command'[c].step = "done" /\ command'[c].shown = "nothing"
    BY <1>1, EndIs
  <2>3. TypeOK'
    BY <1>1, <1>3, <2>1, <2>2 DEF TypeOK, hostVars, Note
  <2>4. FileInv' /\ UpdateInv' /\ LineInv' /\ PinsHold'
    BY <1>1, <1>3, <2>2, HostsKept
  <2>5. MailInv'
    BY <1>1, <2>2 DEF IInv, MailInv, At, Others
  <2>6. SearchInv' /\ UnavailableIsGone'
    <3>1. \A d \in Command : Searching(d)' => command'[d] = command[d]
      BY <2>2 DEF Others, Searching, At
    <3>2. QED
      BY <1>1, <2>2, <3>1, SearchKept DEF Others
  <2>7. SavedKept'
    BY <1>1, <1>3, <2>2 DEF IInv, SavedKept, At, Others
  <2>8. QED
    BY <2>3, <2>4, <2>5, <2>6, <2>7 DEF IInv
<1>4. QED
  BY <1>2, <1>3

-----------------------------------------------------------------------------
\* Mail is sent, and the key compared.

LEMMA KnownType ==
    ASSUME TypeOK, NEW u
    PROVE  /\ Known(u) \in 0 .. MaxKey \cup {NoKey}
           /\ LinesOf(hosts) \in Seq(Line)
           /\ Known(u) = NoKey <=> \A i \in DOMAIN LinesOf(hosts) : LinesOf(hosts)[i].user # u
<1>1. LinesOf(hosts) \in Seq(Line)
  BY DEF TypeOK, LinesOf
<1>2. QED
  BY <1>1, KeyInType DEF Known

\* The key that is sealed to is the one that is pinned.
LEMMA CheckKeeps ==
    ASSUME IInv, NEW c \in Command, Check(c), Note
    PROVE  IInv'
<1> DEFINE u == command[c].user
           k == command[c].key
<1>1. /\ UNCHANGED mailVars /\ UNCHANGED <<hosts, tmp, content>> /\ UNCHANGED <<newest, pinned, loose>>
      /\ command[c].step = "check" /\ TypeOK
  BY DEF Check, At, IInv
<1>2. u \in User /\ k \in 1 .. MaxKey
  BY <1>1 DEF TypeOK, Filled, Writing
<1>3. CASE GoTo(c, "append") /\ UNCHANGED sealed
  <2>1. UNCHANGED <<hostVars, mailVars>>
    BY <1>1, <1>3 DEF hostVars
  <2>2. QED
    BY <1>1, <1>3, <2>1, GoToKeeps
<1>4. CASE Known(u) \notin {k, NoKey} /\ End(c) /\ UNCHANGED sealed
  <2>1. UNCHANGED <<hostVars, mailVars>>
    BY <1>1, <1>4 DEF hostVars
  <2>2. QED
    BY <1>1, <1>4, <2>1, EndKeeps
<1>5. CASE Known(u) \in {k, Garbled} /\ End(c) /\ Seal(c)
  <2>1. /\ command' \in [Command -> Run] /\ Others(c) /\ \A d \in Command : Filled(command'[d])
        /\ command'[c].step = "done" /\ command'[c].shown = "nothing"
    BY <1>1, <1>5, EndIs
  <2>2. sealed' = [sealed EXCEPT ![u] = @ \cup {k}]
    BY <1>5 DEF Seal
  <2> HIDE DEF u, k
  <2>3. /\ sealed' \in [User -> SUBSET (1 .. MaxKey)]
        /\ sealed'[u] = sealed[u] \cup {k}
        /\ \A v \in User \ {u} : sealed'[v] = sealed[v]
    BY <1>1, <1>2, <2>2 DEF TypeOK
  <2>4. TypeOK'
    BY <1>1, <2>1, <2>3 DEF TypeOK, mailVars, Note
  <2>5. FileInv' /\ UpdateInv' /\ LineInv' /\ \A v : Known(v)' = Known(v)
    BY <1>1, <2>1, FilesKept
  <2>6. PinsHold'
    <3>1. ASSUME NEW v \in User \ loose
          PROVE  Known(v) = pinned[v] /\ sealed'[v] \subseteq {pinned[v]}
      <4>1. Known(v) = pinned[v] /\ sealed[v] \subseteq {pinned[v]}
        BY DEF IInv, PinsHold
      <4>2. v = u => k = pinned[v]
        <5>1. pinned[v] \in 1 .. MaxKey \cup {NoKey}
          BY <1>1 DEF TypeOK
        <5>2. pinned[v] # Garbled
          BY <5>1, RecordsAssumption DEF Garbled, NoKey
        <5>3. QED
          BY <1>5, <4>1, <5>2
      <4>3. QED
        BY <2>3, <4>1, <4>2
    <3>2. QED
      BY <1>1, <2>5, <3>1 DEF PinsHold
  <2>7. MailInv' /\ SearchInv' /\ SavedKept' /\ UnavailableIsGone'
    BY <1>1, <2>1, MailsKept
  <2>8. QED
    BY <2>4, <2>5, <2>6, <2>7 DEF IInv
<1>6. QED
  BY <1>3, <1>4, <1>5 DEF Check

-----------------------------------------------------------------------------
\* A line is added to known_hosts.

\* What the three outcomes have in common: what the file then holds, for users
\* whose line it does not cost.
Appended(c, lines) ==
    /\ lines \in Seq(Line)
    /\ \A v \in User \ loose' :
          /\ \A i \in DOMAIN lines : lines[i].cut => lines[i].user # v
          /\ IF v = command[c].user THEN Known(v) = NoKey /\ ~Unseen(v) /\ KeyIn(lines, v) = command[c].key
             ELSE KeyIn(lines, v) = Known(v)

\* What is left of a line names no other user.
LEMMA CutLines ==
    ASSUME NEW l \in Line, NEW k \in Cuts(l)
    PROVE  k \in Line /\ k.user \in {l.user, Nobody}
<1>1. Garbled \in 0 .. MaxKey
  BY RecordsAssumption DEF Garbled
<1>2. \/ k = [l EXCEPT !.cut = TRUE]
      \/ k = [l EXCEPT !.key = Garbled, !.cut = TRUE]
      \/ k = [user |-> Nobody, key |-> Garbled, cut |-> TRUE]
  BY DEF Cuts
<1>3. CASE k = [l EXCEPT !.cut = TRUE]
  BY <1>3 DEF Line
<1>4. CASE k = [l EXCEPT !.key = Garbled, !.cut = TRUE]
  BY <1>1, <1>4 DEF Line
<1>5. CASE k = [user |-> Nobody, key |-> Garbled, cut |-> TRUE]
  BY <1>1, <1>5 DEF Line
<1>6. QED
  BY <1>2, <1>3, <1>4, <1>5

\* The line of a command names its user and key.
LEMMA NewLineIs ==
    ASSUME TypeOK, NEW c \in Command, command[c].step \in Writing
    PROVE  /\ NewLine(c) \in Line /\ NewLine(c).user = command[c].user
           /\ NewLine(c).key = command[c].key /\ NewLine(c).cut = FALSE
<1>1. command[c].user \in User /\ command[c].key \in 1 .. MaxKey
  BY DEF TypeOK, Filled
<1>2. command[c].key \in 0 .. MaxKey
  BY <1>1
<1>3. QED
  BY <1>1, <1>2 DEF NewLine, Line

\* The file that the line goes to is not the one that will replace it.
LEMMA AppendedKeeps ==
    ASSUME IInv, NEW c \in Command, command[c].step = "append", NEW lines, Appended(c, lines),
           NEW file, file = IF hosts = NoFile THEN c ELSE hosts,
           content' = [content EXCEPT ![file] = lines], hosts' = file, tmp' = tmp,
           loose \subseteq loose', Others(c), command'[c].step = "done"
    PROVE  /\ FileInv' /\ UpdateInv' /\ LineInv'
           /\ \A v \in User \ loose' : Known(v)' = IF v = command[c].user THEN command[c].key
                                                     ELSE Known(v)
<1>1. /\ TypeOK /\ file \in Command /\ file # tmp /\ NoFile \notin Command
      /\ hosts \in {file, NoFile} /\ (hosts = NoFile => file = c)
  BY RecordsAssumption DEF IInv, TypeOK, FileInv, Made
<1>2. /\ content'[file] = lines /\ content'[tmp] = content[tmp]
      /\ \A f \in Command \ {file} : content'[f] = content[f]
  BY <1>1 DEF TypeOK
<1>3. \A d \in Command : Updating(d)' => d # c /\ command'[d] = command[d] /\ Updating(d)
  BY DEF Updating, At, Others
<1>4. \A v \in User \ loose' : KeyIn(lines, v) = Known(v)'
  BY <1>1, <1>2 DEF Known, LinesOf
<1>5. FileInv'
  BY <1>1 DEF IInv, FileInv, Made, Others, TypeOK
<1>6. UpdateInv'
  <2>1. SUFFICES ASSUME User \ loose' # {}, NEW d \in Command, Updating(d)'
                 PROVE  /\ \A e \in Command : Updating(e)' => e = d
                        /\ tmp = command[d].file
                        /\ command[d].step = "copy" =>
                              content[tmp] = <<>> /\ command[d].reads \in {file, NoFile}
    BY <1>2, <1>3 DEF UpdateInv, At
  <2>2. Updating(d) /\ User \ loose # {}
    BY <1>3, <2>1
  <2>3. QED
    BY <1>1, <1>3, <2>2 DEF IInv, UpdateInv, At
<1>7. LineInv'
  <2>1. SUFFICES ASSUME NEW v \in User \ loose'
                 PROVE  /\ \A i \in DOMAIN lines : lines[i].cut => lines[i].user # v
                        /\ \A d \in Command :
                              /\ At(d, "copy")' /\ v # command'[d].user =>
                                    KeyIn(LinesOf(command[d].reads), v)' = Known(v)'
                              /\ At(d, "rename")' =>
                                    /\ KeyIn(content[tmp], v)' = IF v = command'[d].user
                                                                 THEN command'[d].key
                                                                 ELSE Known(v)'
                                    /\ \A i \in DOMAIN content'[tmp] : ~content'[tmp][i].cut
    BY <1>1, <1>2 DEF LineInv, LinesOf
  <2>2. v \in User \ loose
    OBVIOUS
  <2>3. \A i \in DOMAIN lines : lines[i].cut => lines[i].user # v
    BY DEF Appended
  <2>4. ASSUME NEW d \in Command, At(d, "copy")', v # command'[d].user
        PROVE  KeyIn(LinesOf(command[d].reads), v)' = Known(v)'
    <3>1. Updating(d) /\ command'[d] = command[d] /\ command[d].step = "copy"
      BY <1>3, <2>4 DEF Updating, At
    <3>2. command[d].reads \in {hosts, NoFile}
      BY <2>2, <3>1 DEF IInv, UpdateInv, At
    <3>3. CASE command[d].reads = file
      BY <1>1, <1>2, <1>4, <3>1, <3>3 DEF LinesOf
    <3>4. CASE command[d].reads = NoFile
      <4>1. Unseen(command[c].user)
        BY <3>1, <3>4 DEF Unseen, At
      <4>2. v # command[c].user
        BY <4>1 DEF Appended
      <4>3. Known(v)' = Known(v)
        BY <1>4, <4>2 DEF Appended
      <4>4. KeyIn(LinesOf(command[d].reads), v) = Known(v)
        BY <2>2, <2>4, <3>1 DEF IInv, LineInv, At
      <4>5. LinesOf(command[d].reads)' = LinesOf(command[d].reads)
        BY <3>1, <3>4 DEF LinesOf
      <4>6. QED
        BY <4>3, <4>4, <4>5
    <3>5. QED
      BY <1>1, <3>2, <3>3, <3>4
  <2>5. ASSUME NEW d \in Command, At(d, "rename")'
        PROVE  /\ KeyIn(content[tmp], v)' = IF v = command'[d].user THEN command'[d].key
                                            ELSE Known(v)'
               /\ \A i \in DOMAIN content'[tmp] : ~content'[tmp][i].cut
    <3>1. command'[d] = command[d] /\ At(d, "rename")
      BY <1>3, <2>5 DEF Updating, At
    <3>2. Unseen(command[c].user)
      BY <3>1 DEF Unseen
    <3>3. v # command[c].user
      BY <3>2 DEF Appended
    <3>4. Known(v)' = Known(v)
      BY <1>4, <3>3 DEF Appended
    <3>5. /\ KeyIn(content[tmp], v) = IF v = command[d].user THEN command[d].key ELSE Known(v)
          /\ \A i \in DOMAIN content[tmp] : ~content[tmp][i].cut
      BY <2>2, <3>1 DEF IInv, LineInv
    <3>6. QED
      BY <1>2, <3>1, <3>4, <3>5
  <2>6. QED
    BY <2>3, <2>4, <2>5
<1>8. QED
  BY <1>4, <1>5, <1>6, <1>7 DEF Appended

\* add_known_host, whatever the disk held of the line.
LEMMA AppendLineKeeps ==
    ASSUME IInv, NEW c \in Command, AppendLine(c), Note
    PROVE  IInv'
<1> DEFINE u == command[c].user
           k == command[c].key
           old == LinesOf(hosts)
           file == IF hosts = NoFile THEN c ELSE hosts
<1>1. /\ UNCHANGED mailVars /\ tmp' = tmp /\ newest' = newest
      /\ command[c].step = "append" /\ TypeOK /\ End(c)
      /\ pinned' = [pinned EXCEPT ![u] = k] /\ sealed' = [sealed EXCEPT ![u] = @ \cup {k}]
  BY DEF AppendLine, Seal, At, IInv
<1>2. /\ u \in User /\ k \in 1 .. MaxKey /\ old \in Seq(Line) /\ file \in Command
      /\ NewLine(c) \in Line /\ NewLine(c).user = u /\ NewLine(c).key = k /\ NewLine(c).cut = FALSE
  <2>1. u \in User /\ k \in 1 .. MaxKey /\ command[c].step \in Writing /\ file \in Command
    BY <1>1 DEF TypeOK, Filled, Writing
  <2>2. QED
    BY <1>1, <2>1, KnownType, NewLineIs
<1>3. /\ command' \in [Command -> Run] /\ Others(c) /\ \A d \in Command : Filled(command'[d])
      /\ command'[c].step = "done" /\ command'[c].shown = "nothing"
  BY <1>1, EndIs
<1>4. MailInv' /\ SearchInv' /\ SavedKept' /\ UnavailableIsGone'
  BY <1>1, <1>3, MailsKept
<1> HIDE DEF u, k, old, file
<1>5. /\ pinned' \in [User -> 1 .. MaxKey \cup {NoKey}] /\ sealed' \in [User -> SUBSET (1 .. MaxKey)]
      /\ pinned'[u] = k /\ sealed'[u] = sealed[u] \cup {k}
      /\ \A v \in User \ {u} : pinned'[v] = pinned[v] /\ sealed'[v] = sealed[v]
  BY <1>1, <1>2 DEF TypeOK
<1>6. \A v \in User \ {u} : \A i \in DOMAIN old : v \notin loose => (old[i].cut => old[i].user # v)
  BY DEF IInv, LineInv, old
<1>7. ASSUME NEW lines, Appended(c, lines), content' = [content EXCEPT ![file] = lines],
             hosts' = file, loose' \in {loose, loose \cup {u}}
      PROVE  IInv'
  <2>1. /\ FileInv' /\ UpdateInv' /\ LineInv'
        /\ \A v \in User \ loose' : Known(v)' = IF v = u THEN k ELSE Known(v)
    <3>1. loose \subseteq loose'
      BY <1>7
    <3>2. QED
      BY <1>1, <1>3, <1>7, <3>1, AppendedKeeps DEF file, u, k
  <2>2. TypeOK'
    <3>1. content' \in [Command -> Seq(Line)]
      BY <1>1, <1>2, <1>7 DEF TypeOK, Appended
    <3>2. QED
      BY <1>1, <1>2, <1>3, <1>5, <1>7, <3>1 DEF TypeOK, mailVars, Note
  <2>3. PinsHold'
    <3>1. SUFFICES ASSUME NEW v \in User \ loose'
                   PROVE  Known(v)' = pinned'[v] /\ sealed'[v] \subseteq {pinned'[v]}
      BY DEF PinsHold
    <3>2. Known(v) = pinned[v] /\ sealed[v] \subseteq {pinned[v]} /\ v \in User
      BY <1>7, <3>1 DEF IInv, PinsHold
    <3>3. CASE v = u
      <4>1. Known(v) = NoKey
        BY <1>7, <3>3 DEF Appended, u
      <4>2. sealed[v] \in SUBSET (1 .. MaxKey)
        BY <1>1, <3>2 DEF TypeOK
      <4>3. sealed[v] = {}
        BY <3>2, <4>1, <4>2, RecordsAssumption DEF NoKey
      <4>4. QED
        BY <1>5, <2>1, <3>3, <4>3
    <3>4. CASE v # u
      BY <1>5, <2>1, <3>2, <3>4
    <3>5. QED
      BY <3>3, <3>4
  <2>4. QED
    BY <1>4, <2>1, <2>2, <2>3 DEF IInv
<1>8. CASE /\ Write(file, WithLine(old, NewLine(c))) /\ hosts' = file
           /\ loose' = loose \cup {v \in {u} : Unseen(u)}
  <2> DEFINE l == NewLine(c)
             lines == WithLine(old, l)
  <2>1. /\ lines \in Seq(Line)
        /\ ~(old # <<>> /\ old[Len(old)].cut) => lines = Append(old, l)
        /\ \A v : l.user # v /\ (\A i \in DOMAIN old : old[i].cut => old[i].user # v)
                => /\ KeyIn(lines, v) = KeyIn(old, v)
                   /\ \A i \in DOMAIN lines : lines[i].cut => lines[i].user # v
    BY <1>2, WithLineKeeps
  <2>2. l \in Line /\ l.user = u /\ l.key = k /\ ~l.cut
    BY <1>2
  <2> HIDE DEF l, lines
  <2>3. \A v : KeyIn(old, v) = Known(v)
    BY DEF Known, old
  <2>4. ASSUME NEW v \in User \ loose', v # u
        PROVE  /\ \A i \in DOMAIN lines : lines[i].cut => lines[i].user # v
               /\ KeyIn(lines, v) = Known(v)
    <3>1. v \notin loose
      BY <1>8, <2>4
    <3>2. \A i \in DOMAIN old : old[i].cut => old[i].user # v
      BY <1>6, <2>4, <3>1
    <3>3. QED
      BY <2>1, <2>2, <2>3, <2>4, <3>2
  <2>5. ASSUME u \notin loose'
        PROVE  /\ \A i \in DOMAIN lines : lines[i].cut => lines[i].user # u
               /\ Known(u) = NoKey /\ ~Unseen(u) /\ KeyIn(lines, u) = k
    <3>1. ~Unseen(u)
      BY <1>8, <2>5
    <3>2. Known(u) = NoKey /\ ~(old # <<>> /\ old[Len(old)].cut)
      BY <3>1 DEF Unseen, old
    <3>3. lines = Append(old, l)
      BY <2>1, <3>2
    <3>4. KeyIn(lines, u) = k
      BY <1>2, <2>2, <2>3, <3>2, <3>3, KeyInAppend
    <3>5. \A i \in DOMAIN old : old[i].user # u
      BY <1>1, <3>2, KnownType DEF old
    <3>6. \A i \in DOMAIN lines : lines[i].cut => lines[i].user # u
      <4>1. \A i \in DOMAIN lines : (i \in DOMAIN old /\ lines[i] = old[i]) \/ lines[i] = l
        BY <1>2, <3>3
      <4>2. QED
        BY <2>2, <3>5, <4>1
    <3>7. QED
      BY <3>1, <3>2, <3>4, <3>6
  <2>6. Appended(c, lines)
    BY <2>1, <2>4, <2>5 DEF Appended, u, k
  <2>7. content' = [content EXCEPT ![file] = lines] /\ loose' \in {loose, loose \cup {u}}
    BY <1>8 DEF Write, lines, l
  <2>8. QED
    BY <1>7, <1>8, <2>6, <2>7
<1>9. CASE /\ \E l \in Cuts(NewLine(c)) : Write(file, WithLine(old, l))
           /\ hosts' = file /\ loose' = loose \cup {u}
  <2>1. PICK l \in Cuts(NewLine(c)) : Write(file, WithLine(old, l))
    BY <1>9
  <2> DEFINE lines == WithLine(old, l)
  <2>2. l \in Line /\ l.user \in {u, Nobody}
    BY <1>2, CutLines
  <2>3. /\ lines \in Seq(Line)
        /\ \A v : l.user # v /\ (\A i \in DOMAIN old : old[i].cut => old[i].user # v)
                => /\ KeyIn(lines, v) = KeyIn(old, v)
                   /\ \A i \in DOMAIN lines : lines[i].cut => lines[i].user # v
    BY <1>2, <2>2, WithLineKeeps
  <2> HIDE DEF lines
  <2>4. ASSUME NEW v \in User \ loose'
        PROVE  /\ v # u /\ \A i \in DOMAIN lines : lines[i].cut => lines[i].user # v
               /\ KeyIn(lines, v) = Known(v)
    <3>1. v # u /\ v \notin loose
      BY <1>9, <2>4
    <3>2. \A i \in DOMAIN old : old[i].cut => old[i].user # v
      BY <1>6, <3>1
    <3>3. l.user # v
      BY <2>2, <3>1, RecordsAssumption
    <3>4. QED
      BY <2>3, <3>1, <3>2, <3>3 DEF Known, old
  <2>5. Appended(c, lines)
    BY <2>3, <2>4 DEF Appended, u
  <2>6. content' = [content EXCEPT ![file] = lines]
    BY <2>1 DEF Write, lines
  <2>7. QED
    BY <1>7, <1>9, <2>5, <2>6
<1>10. CASE UNCHANGED <<content, hosts>> /\ loose' = loose \cup {u}
  <2>1. FileInv' /\ UpdateInv' /\ LineInv' /\ \A v : Known(v)' = Known(v)
    BY <1>1, <1>3, <1>10, FilesKept
  <2>2. TypeOK'
    BY <1>1, <1>2, <1>3, <1>5, <1>10 DEF TypeOK, mailVars, Note
  <2>3. PinsHold'
    BY <1>5, <1>10, <2>1 DEF IInv, PinsHold
  <2>4. QED
    BY <1>4, <2>1, <2>2, <2>3 DEF IInv
<1>11. QED
  BY <1>8, <1>9, <1>10 DEF AppendLine, u, k, old, file

-----------------------------------------------------------------------------
\* fingerprint --update writes a new file and makes it known_hosts.

\* The step of a second command that rewrites the file makes every line unsafe.
LEMMA OpenKeeps ==
    ASSUME IInv, NEW c \in Command, Open(c), Note
    PROVE  IInv'
<1> DEFINE file == IF tmp = NoFile THEN c ELSE tmp
<1>1. /\ UNCHANGED mailVars /\ hosts' = hosts /\ newest' = newest /\ pinned' = pinned
      /\ sealed' = sealed /\ command[c].step = "open" /\ TypeOK
  BY DEF Open, At, IInv
<1>2. CASE End(c) /\ UNCHANGED <<content, tmp, loose>>
  <2>1. UNCHANGED <<hostVars, mailVars>>
    BY <1>1, <1>2 DEF hostVars
  <2>2. QED
    BY <1>1, <1>2, <2>1, EndKeeps
<1>3. ASSUME Write(file, <<>>), tmp' = file, NEW reads \in {hosts, NoFile},
             command' = [command EXCEPT ![c].step = "copy", ![c].file = file,
                                        ![c].reads = reads],
             loose' = IF \E d \in Command : Updating(d) THEN User
                      ELSE loose \cup Unread(command[c].user, reads)
      PROVE  IInv'
  <2> DEFINE r == command[c]
             q == [r EXCEPT !.step = "copy", !.file = file, !.reads = reads]
  <2>1. /\ r \in Run /\ hosts \in Command \cup {NoFile} /\ reads \in Command \cup {NoFile}
        /\ r.user \in User /\ r.key \in 1 .. MaxKey
    BY <1>1 DEF TypeOK, Filled, Writing
  <2>2. /\ file \in Command /\ (file = hosts => hosts = NoFile) /\ NoFile \notin Command
        /\ (tmp # NoFile => file = tmp) /\ (tmp = NoFile => file = c) /\ hosts # c
    BY <1>1, RecordsAssumption DEF IInv, TypeOK, FileInv, Made
  <2>3. command' = [command EXCEPT ![c] = q] /\ content' = [content EXCEPT ![file] = <<>>]
    BY <1>1, <1>3 DEF TypeOK, Write
  <2> HIDE DEF r, file
  <2>4. q \in Run
    BY <2>1, <2>2 DEF Run, Writing
  <2>5. /\ q.step = "copy" /\ q.file = file /\ q.reads = reads /\ q.user = r.user
        /\ q.key = r.key /\ q.shown = r.shown /\ q.failed = r.failed
    BY <2>1 DEF Run
  <2> HIDE DEF q
  <2>6. command'[c] = q /\ Others(c) /\ command' \in [Command -> Run]
    BY <1>1, <2>3, <2>4 DEF TypeOK, Others
  <2>7. /\ content' \in [Command -> Seq(Line)] /\ content'[file] = <<>>
        /\ \A f \in Command \ {file} : content'[f] = content[f]
    BY <1>1, <2>2, <2>3 DEF TypeOK
  <2>8. TypeOK'
    <3>1. Filled(q)
      BY <2>1, <2>2, <2>5 DEF Filled, Mailing
    <3>2. \A d \in Command : Filled(command'[d])
      BY <1>1, <2>6, <3>1 DEF TypeOK, Others
    <3>3. loose' \subseteq User
      BY <1>1, <1>3 DEF TypeOK, Unread
    <3>4. tmp' \in Command \cup {NoFile}
      BY <1>3, <2>2
    <3>5. QED
      BY <1>1, <2>6, <2>7, <3>2, <3>3, <3>4 DEF TypeOK, mailVars, Note
  <2>9. FileInv'
    <3>1. command'[file].step \in {"copy", "rename", "done"}
      <4>1. file # c => command[file].step \in {"copy", "rename", "done"}
        BY <2>2 DEF IInv, FileInv, Made
      <4>2. QED
        BY <2>2, <2>5, <2>6, <4>1 DEF Others
    <3>2. Made(hosts)'
      BY <1>1, <2>2, <2>5, <2>6 DEF IInv, FileInv, Made, Others, TypeOK
    <3>3. QED
      BY <1>1, <1>3, <2>2, <3>1, <3>2 DEF FileInv, Made
  <2>10. UpdateInv' /\ LineInv' /\ PinsHold'
    <3>1. CASE \E d \in Command : Updating(d)
      BY <1>3, <3>1 DEF UpdateInv, LineInv, PinsHold
    <3>2. CASE ~\E d \in Command : Updating(d)
      <4>1. \A d \in Command : Updating(d)' => d = c
        BY <2>6, <3>2 DEF Updating, At, Others
      <4>2. /\ At(c, "copy")' /\ ~At(c, "rename")'
            /\ loose' = loose \cup Unread(r.user, reads)
        BY <1>3, <2>5, <2>6, <3>2 DEF At, r
      <4>3. LinesOf(hosts)' = LinesOf(hosts)
        BY <1>1, <2>1, <2>2, <2>7 DEF LinesOf
      <4>4. \A v : Known(v)' = Known(v)
        BY <4>3 DEF Known
      <4>5. UpdateInv'
        BY <1>1, <1>3, <2>5, <2>6, <2>7, <4>1 DEF UpdateInv
      <4>6. LineInv'
        <5>1. \A d \in Command : ~At(d, "rename")' /\ (At(d, "copy")' => d = c)
          BY <4>1, <4>2 DEF Updating
        <5>2. ASSUME NEW v \in User \ loose', v # r.user
              PROVE  KeyIn(LinesOf(command[c].reads), v)' = Known(v)'
          <6>1. CASE reads = hosts
            <7>1. LinesOf(command[c].reads)' = LinesOf(hosts)
              <8>1. command'[c].reads = hosts'
                BY <1>1, <2>5, <2>6, <6>1
              <8>2. QED
                BY <4>3, <8>1 DEF LinesOf
            <7>2. QED
              BY <4>4, <7>1 DEF Known
          <6>2. CASE reads = NoFile
            <7>1. Known(v) = NoKey
              BY <4>2, <5>2, <6>2 DEF Unread
            <7>2. LinesOf(command[c].reads)' = <<>>
              BY <2>5, <2>6, <6>2 DEF LinesOf
            <7>3. KeyIn(<<>>, v) = NoKey
              BY DEF KeyIn
            <7>4. QED
              BY <4>4, <7>1, <7>2, <7>3
          <6>3. QED
            BY <6>1, <6>2
        <5>3. command'[c].user = r.user
          BY <2>5, <2>6
        <5>4. \A v \in User \ loose' :
                 \A i \in DOMAIN LinesOf(hosts) : LinesOf(hosts)[i].cut => LinesOf(hosts)[i].user # v
          BY <4>2 DEF IInv, LineInv
        <5>5. QED
          BY <4>3, <5>1, <5>2, <5>3, <5>4 DEF LineInv
      <4>7. PinsHold'
        BY <1>1, <4>2, <4>4 DEF IInv, PinsHold
      <4>8. QED
        BY <4>5, <4>6, <4>7
    <3>3. QED
      BY <3>1, <3>2
  <2>11. MailInv' /\ SearchInv' /\ SavedKept' /\ UnavailableIsGone'
    <3>1. r.shown = "unavailable" => c \in missed \/ r.failed
      BY DEF IInv, UnavailableIsGone, r
    <3>2. QED
      BY <1>1, <2>5, <2>6, <3>1, MailsKept DEF r
  <2>12. QED
    BY <2>8, <2>9, <2>10, <2>11 DEF IInv
<1>4. CASE /\ Write(file, <<>>) /\ tmp' = file
           /\ \E reads \in {hosts, NoFile} :
                 /\ command' = [command EXCEPT ![c].step = "copy", ![c].file = file,
                                               ![c].reads = reads]
                 /\ loose' = IF \E d \in Command : Updating(d) THEN User
                             ELSE loose \cup Unread(command[c].user, reads)
  <2> HIDE DEF file
  <2> QED
    BY <1>3, <1>4
<1>5. QED
  BY <1>2, <1>4 DEF Open

\* Lines over lines are lines.
LEMMA OverType ==
    ASSUME NEW old \in Seq(Line), NEW new \in Seq(Line)
    PROVE  Over(old, new) \in Seq(Line)
<1>1. SubSeq(old, Len(new) + 1, Len(old)) \in Seq(Line)
  OBVIOUS
<1>2. QED
  BY <1>1 DEF Over

\* The new file is written; a cut line makes every line unsafe.
LEMMA CopyKeeps ==
    ASSUME IInv, NEW c \in Command, Copy(c), Note
    PROVE  IInv'
<1> DEFINE r == command[c]
           lines == LinesOf(r.reads)
           l == NewLine(c)
           new == Append(LinesBut(r.user, lines), l)
<1>1. /\ UNCHANGED mailVars /\ hosts' = hosts /\ tmp' = tmp /\ newest' = newest
      /\ pinned' = pinned /\ sealed' = sealed /\ r.step = "copy" /\ TypeOK /\ GoTo(c, "rename")
      /\ \/ Write(r.file, Over(content[r.file], new)) /\ UNCHANGED loose
         \/ /\ \E n \in 1 .. Len(new) : \E k \in Cuts(new[n]) :
                 Write(r.file, Over(content[r.file], Append(SubSeq(new, 1, n - 1), k)))
            /\ loose' = User
  BY DEF Copy, At, IInv
<1>2. /\ r.user \in User /\ r.file \in Command /\ r.reads \in Command \cup {NoFile}
      /\ r.step \in Writing /\ NoFile \notin Command
  BY <1>1, RecordsAssumption DEF TypeOK, Filled, Writing, Run
<1>3. l \in Line /\ l.user = r.user /\ l.key = r.key /\ l.cut = FALSE
  BY <1>1, <1>2, NewLineIs
<1>4. lines \in Seq(Line)
  BY <1>1, <1>2 DEF TypeOK, LinesOf
<1> HIDE DEF l, lines
<1>5. /\ new \in Seq(Line) /\ Over(<<>>, new) = new /\ KeyIn(new, r.user) = r.key
      /\ \A v \in User \ {r.user} : KeyIn(new, v) = KeyIn(lines, v)
      /\ \A i \in DOMAIN new : ~new[i].cut
  <2> HIDE DEF r
  <2>1. UpdateOf(new, l, lines)
    BY <1>2, <1>3, <1>4, UpdatedLines
  <2> HIDE DEF new
  <2>2. QED
    BY <1>3, <2>1 DEF UpdateOf
<1>6. /\ command' \in [Command -> Run] /\ Others(c) /\ command'[c].step = "rename"
      /\ command'[c].user = r.user /\ command'[c].key = r.key /\ command'[c].file = r.file
      /\ command'[c].shown = r.shown /\ command'[c].failed = r.failed
  <2>1. "rename" \in Steps
    BY DEF Steps, Writing
  <2>2. QED
    BY <1>1, <2>1, GoToIs
<1> HIDE DEF new
<1>7. MailInv' /\ SearchInv' /\ SavedKept' /\ UnavailableIsGone'
  <2>1. r.shown = "unavailable" => c \in missed \/ r.failed
    BY DEF IInv, UnavailableIsGone
  <2> HIDE DEF r
  <2>2. QED
    BY <1>1, <1>6, <2>1, MailsKept DEF r
<1>8. FileInv'
  BY <1>1, <1>6 DEF IInv, FileInv, Made, Others, TypeOK
<1>9. content' \in [Command -> Seq(Line)] => TypeOK'
  <2>1. Filled(command'[c])
    BY <1>1, <1>2, <1>6 DEF TypeOK, Filled, Writing, Mailing
  <2>2. \A d \in Command : Filled(command'[d])
    BY <1>1, <1>6, <2>1 DEF TypeOK, Others
  <2>3. loose' \subseteq User
    BY <1>1 DEF TypeOK
  <2> HIDE DEF r
  <2>4. QED
    BY <1>1, <1>6, <2>2, <2>3 DEF TypeOK, mailVars, Note
<1>10. content[r.file] \in Seq(Line)
  BY <1>1, <1>2 DEF TypeOK
<1>11. CASE loose' = User /\ \E n \in 1 .. Len(new) : \E k \in Cuts(new[n]) :
                 Write(r.file, Over(content[r.file], Append(SubSeq(new, 1, n - 1), k)))
  <2>1. PICK n \in 1 .. Len(new) : \E k \in Cuts(new[n]) :
          Write(r.file, Over(content[r.file], Append(SubSeq(new, 1, n - 1), k)))
    BY <1>11
  <2>2. PICK k \in Cuts(new[n]) :
          Write(r.file, Over(content[r.file], Append(SubSeq(new, 1, n - 1), k)))
    BY <2>1
  <2>3. k \in Line
    <3>1. new[n] \in Line
      BY <1>5
    <3>2. QED
      BY <3>1, CutLines
  <2>4. Append(SubSeq(new, 1, n - 1), k) \in Seq(Line)
    BY <1>5, <2>3
  <2>5. TypeOK'
    BY <1>1, <1>2, <1>9, <1>10, <2>2, <2>4, OverType DEF TypeOK, Write
  <2>6. UpdateInv' /\ LineInv' /\ PinsHold'
    BY <1>11 DEF UpdateInv, LineInv, PinsHold
  <2>7. QED
    BY <1>7, <1>8, <2>5, <2>6 DEF IInv
<1>12. CASE Write(r.file, Over(content[r.file], new)) /\ loose' = loose
  <2>1. TypeOK'
    BY <1>1, <1>2, <1>5, <1>9, <1>10, <1>12, OverType DEF TypeOK, Write
  <2>2. UpdateInv' /\ LineInv' /\ PinsHold'
    <3>1. CASE User \ loose = {}
      BY <1>12, <3>1 DEF UpdateInv, LineInv, PinsHold
    <3>2. CASE User \ loose # {}
      <4>1. /\ \A d \in Command : Updating(d) => d = c
            /\ tmp = r.file /\ content[tmp] = <<>> /\ r.reads \in {hosts, NoFile}
        BY <1>1, <3>2 DEF IInv, UpdateInv, Updating, At
      <4>2. content'[tmp] = new /\ \A f \in Command \ {tmp} : content'[f] = content[f]
        BY <1>1, <1>2, <1>5, <1>12, <4>1 DEF TypeOK, Write
      <4>3. hosts # tmp
        BY <1>2, <4>1 DEF IInv, FileInv
      <4>4. LinesOf(hosts)' = LinesOf(hosts)
        BY <1>1, <4>2, <4>3 DEF LinesOf, TypeOK
      <4>5. \A v : Known(v)' = Known(v)
        BY <4>4 DEF Known
      <4>6. \A d \in Command : ~At(d, "copy")' /\ (At(d, "rename")' => d = c)
        BY <1>6, <4>1 DEF At, Updating, Others
      <4>7. UpdateInv'
        BY <1>1, <1>6, <4>1, <4>6 DEF UpdateInv, Updating
      <4>8. LineInv'
        <5>1. ASSUME NEW v \in User \ loose
              PROVE  KeyIn(new, v) = IF v = r.user THEN r.key ELSE Known(v)
          <6>1. v # r.user => KeyIn(lines, v) = Known(v)
            BY <1>1 DEF IInv, LineInv, At, lines
          <6>2. QED
            BY <1>5, <6>1
        <5>2. \A v \in User \ loose : \A i \in DOMAIN LinesOf(hosts) :
                LinesOf(hosts)[i].cut => LinesOf(hosts)[i].user # v
          BY DEF IInv, LineInv
        <5> HIDE DEF r
        <5>3. QED
          BY <1>1, <1>5, <1>6, <1>12, <4>2, <4>4, <4>5, <4>6, <5>1, <5>2 DEF LineInv
      <4>9. PinsHold'
        BY <1>1, <1>12, <4>5 DEF IInv, PinsHold
      <4>10. QED
        BY <4>7, <4>8, <4>9
    <3>3. QED
      BY <3>1, <3>2
  <2>3. QED
    BY <1>7, <1>8, <2>1, <2>2 DEF IInv
<1>13. QED
  BY <1>1, <1>11, <1>12

\* The new file takes the place of the old one.
LEMMA RenameKeeps ==
    ASSUME IInv, NEW c \in Command, Rename(c), Note
    PROVE  IInv'
<1> DEFINE u == command[c].user
           k == command[c].key
<1>1. /\ UNCHANGED mailVars /\ content' = content /\ newest' = newest /\ loose' = loose
      /\ command[c].step = "rename" /\ TypeOK /\ End(c)
      /\ pinned' = [pinned EXCEPT ![u] = k] /\ sealed' = [sealed EXCEPT ![u] = {}]
      /\ IF tmp = NoFile THEN hosts' = hosts /\ tmp' = tmp ELSE hosts' = tmp /\ tmp' = NoFile
  BY DEF Rename, At, IInv
<1>2. /\ u \in User /\ k \in 1 .. MaxKey /\ command[c].file \in Command /\ NoFile \notin Command
  BY <1>1, RecordsAssumption DEF TypeOK, Filled, Writing
<1>3. /\ command' \in [Command -> Run] /\ Others(c) /\ \A d \in Command : Filled(command'[d])
      /\ command'[c].step = "done" /\ command'[c].shown = "nothing"
  BY <1>1, EndIs
<1>4. MailInv' /\ SearchInv' /\ SavedKept' /\ UnavailableIsGone'
  BY <1>1, <1>3, MailsKept
<1>5. \A v \in User \ loose :
        /\ tmp \in Command /\ LinesOf(hosts)' = content[tmp]
        /\ KeyIn(content[tmp], v) = IF v = u THEN k ELSE Known(v)
        /\ \A i \in DOMAIN content[tmp] : ~content[tmp][i].cut
        /\ \A d \in Command : ~Updating(d)'
  <2>1. SUFFICES ASSUME NEW v \in User \ loose
                 PROVE  /\ tmp \in Command /\ LinesOf(hosts)' = content[tmp]
                        /\ KeyIn(content[tmp], v) = IF v = u THEN k ELSE Known(v)
                        /\ \A i \in DOMAIN content[tmp] : ~content[tmp][i].cut
                        /\ \A d \in Command : ~Updating(d)'
    OBVIOUS
  <2>2. tmp = command[c].file /\ \A d \in Command : Updating(d) => d = c
    BY <1>1 DEF IInv, UpdateInv, Updating, At
  <2>3. tmp \in Command /\ LinesOf(hosts)' = content[tmp]
    BY <1>1, <1>2, <2>2 DEF LinesOf
  <2>4. /\ KeyIn(content[tmp], v) = IF v = u THEN k ELSE Known(v)
        /\ \A i \in DOMAIN content[tmp] : ~content[tmp][i].cut
    BY <1>1 DEF IInv, LineInv, At
  <2>5. \A d \in Command : ~Updating(d)'
    BY <1>3, <2>2 DEF Updating, At, Others
  <2>6. QED
    BY <2>3, <2>4, <2>5
<1> HIDE DEF u, k
<1>6. /\ pinned' \in [User -> 1 .. MaxKey \cup {NoKey}] /\ sealed' \in [User -> SUBSET (1 .. MaxKey)]
      /\ pinned'[u] = k /\ sealed'[u] = {}
      /\ \A v \in User \ {u} : pinned'[v] = pinned[v] /\ sealed'[v] = sealed[v]
  BY <1>1, <1>2 DEF TypeOK
<1>7. TypeOK'
  BY <1>1, <1>3, <1>6 DEF TypeOK, mailVars, Note
<1>8. FileInv'
  BY <1>1, <1>3 DEF IInv, FileInv, Made, Others, TypeOK
<1>9. UpdateInv'
  BY <1>1, <1>5 DEF UpdateInv
<1>10. LineInv'
  BY <1>1, <1>5 DEF LineInv, Updating
<1>11. PinsHold'
  <2>1. SUFFICES ASSUME NEW v \in User \ loose
                 PROVE  Known(v)' = pinned'[v] /\ sealed'[v] \subseteq {pinned'[v]}
    BY <1>1 DEF PinsHold
  <2>2. Known(v)' = IF v = u THEN k ELSE Known(v)
    BY <1>5 DEF Known
  <2>3. Known(v) = pinned[v] /\ sealed[v] \subseteq {pinned[v]}
    BY DEF IInv, PinsHold
  <2>4. QED
    BY <1>6, <2>2, <2>3
<1>12. QED
  BY <1>4, <1>7, <1>8, <1>9, <1>10, <1>11 DEF IInv

-----------------------------------------------------------------------------
\* Another user has a new key.
LEMMA RotateKeeps ==
    ASSUME IInv, NEW u \in User, Rotate(u), Note
    PROVE  IInv'
<1>1. /\ UNCHANGED mailVars /\ hosts' = hosts /\ tmp' = tmp /\ content' = content
      /\ command' = command /\ pinned' = pinned /\ sealed' = sealed /\ loose' = loose
      /\ newest' = [newest EXCEPT ![u] = @ + 1] /\ newest[u] < MaxKey /\ TypeOK
  BY DEF Rotate, IInv
<1>2. mail' = mail /\ saved' = saved /\ reported' = reported /\ broken' = broken
  BY <1>1 DEF mailVars
<1>3. newest' \in [User -> 1 .. MaxKey]
  <2>1. newest[u] + 1 \in 1 .. MaxKey
    BY <1>1, RecordsAssumption DEF TypeOK
  <2>2. QED
    BY <1>1, <2>1 DEF TypeOK
<1>4. TypeOK'
  BY <1>1, <1>2, <1>3 DEF TypeOK, Note
<1>5. FileInv' /\ UpdateInv' /\ LineInv' /\ PinsHold'
  BY <1>1 DEF IInv, FileInv, UpdateInv, LineInv, PinsHold, Made, Updating, At, LinesOf, Known
<1>6. MailInv' /\ SavedKept'
  BY <1>1, <1>2 DEF IInv, MailInv, SavedKept, At
<1>7. SearchInv' /\ UnavailableIsGone'
  BY <1>1, <1>2, SearchKept
<1>8. QED
  BY <1>4, <1>5, <1>6, <1>7 DEF IInv

\* Nothing happens.
LEMMA StutterKeeps ==
    ASSUME IInv, UNCHANGED vars
    PROVE  IInv'
  BY DEF vars, hostVars, mailVars, IInv, TypeOK, FileInv, UpdateInv, LineInv, MailInv, SearchInv,
     SearchOK, PinsHold, SavedKept, UnavailableIsGone, Made, Updating, Searching, Nowhere, At,
     LinesOf, Known

\* The invariant holds of an empty directory.
LEMMA InitEstablishes == Init => IInv
<1> SUFFICES ASSUME Init
             PROVE  IInv
  OBVIOUS
<1>1. /\ \A c \in Command : command[c] = Idle
      /\ Idle.step = "idle" /\ Idle.shown = "nothing"
  BY DEF Init, Idle
<1>2. \A u : Known(u) = NoKey
  BY DEF Init, Known, KeyIn, LinesOf
<1>3. TypeOK
  <2>1. Filled(Idle)
    BY <1>1 DEF Filled, Writing, Mailing
  <2>2. 1 \in 1 .. MaxKey
    BY RecordsAssumption
  <2>3. <<>> \in Seq(Line)
    OBVIOUS
  <2>4. command \in [Command -> Run]
    BY IdleIsRun DEF Init
  <2>5. QED
    BY <1>1, <2>1, <2>2, <2>3, <2>4 DEF Init, TypeOK
<1>4. FileInv /\ UpdateInv
  BY <1>1 DEF Init, FileInv, Made, UpdateInv, Updating, At
<1>5. LineInv
  BY <1>1 DEF Init, LineInv, LinesOf, At
<1>6. MailInv /\ SearchInv
  BY <1>1 DEF Init, MailInv, SearchInv, Searching, At
<1>7. PinsHold /\ SavedKept /\ UnavailableIsGone
  BY <1>1, <1>2 DEF Init, PinsHold, SavedKept, UnavailableIsGone
<1>8. QED
  BY <1>3, <1>4, <1>5, <1>6, <1>7 DEF IInv

\* Every step keeps it.
LEMMA Inductive == IInv /\ [Next]_vars => IInv'
<1> SUFFICES ASSUME IInv, [Next]_vars
             PROVE  IInv'
  OBVIOUS
<1>1. ASSUME NEW c \in Command, Step(c), Note
      PROVE  IInv'
  <2>1. CASE Send(c) \/ Update(c)
    BY <1>1, <2>1, SendOrUpdateKeeps
  <2>2. CASE Check(c)
    BY <1>1, <2>2, CheckKeeps
  <2>3. CASE AppendLine(c)
    BY <1>1, <2>3, AppendLineKeeps
  <2>4. CASE Open(c)
    BY <1>1, <2>4, OpenKeeps
  <2>5. CASE Copy(c)
    BY <1>1, <2>5, CopyKeeps
  <2>6. CASE Rename(c)
    BY <1>1, <2>6, RenameKeeps
  <2>7. CASE Burn(c) \/ Save(c)
    BY <1>1, <2>7, BurnOrSaveKeeps
  <2>8. CASE Burnt(c)
    BY <1>1, <2>8, BurntKeeps
  <2>9. CASE Get(c)
    BY <1>1, <2>9, GetKeeps
  <2>10. CASE OpenSaved(c)
    BY <1>1, <2>10, OpenSavedKeeps
  <2>11. CASE WriteSaved(c)
    BY <1>1, <2>11, WriteSavedKeeps
  <2>12. CASE Show(c) \/ Read(c)
    BY <1>1, <2>12, ShowOrReadKeeps
  <2>13. CASE FindListed(c)
    BY <1>1, <2>13, FindListedKeeps
  <2>14. CASE FindInSaved(c)
    BY <1>1, <2>14, FindInSavedKeeps
  <2>15. CASE Kill(c)
    BY <1>1, <2>15, KillKeeps
  <2>16. QED
    BY <1>1, <2>1, <2>2, <2>3, <2>4, <2>5, <2>6, <2>7, <2>8, <2>9, <2>10, <2>11, <2>12,
       <2>13, <2>14, <2>15 DEF Step
<1>2. ASSUME NEW u \in User, Rotate(u), Note
      PROVE  IInv'
  BY <1>2, RotateKeeps
<1>3. ASSUME NEW m \in Mail, Arrive(m) \/ Vanish(m), Note
      PROVE  IInv'
  BY <1>3, ArriveKeeps, VanishKeeps
<1>4. CASE UNCHANGED vars
  BY <1>4, StutterKeeps
<1>5. QED
  BY <1>1, <1>2, <1>3, <1>4 DEF Next

\* IInv holds of every execution.
THEOREM Invariance == Spec => []IInv
  BY InitEstablishes, Inductive, PTL DEF Spec

\* Every variable of a client's records has its type, and every command holds
\* what its step needs.
THEOREM TypeCorrect == Spec => []TypeOK
<1>1. IInv => TypeOK
  BY DEF IInv
<1>2. QED
  BY <1>1, Invariance, PTL

\* get_known_host finds the key that was pinned, and mail is sealed to no other:
\* for any number of commands, users and keys, cut writes and killed commands.
THEOREM PinsAlwaysHold == Spec => []PinsHold
<1>1. IInv => PinsHold
  BY DEF IInv
<1>2. QED
  BY <1>1, Invariance, PTL

\* shyake_save reports nothing that shyake read does not find, but for writes
\* that were cut off.
THEOREM SavedMailIsKept == Spec => []SavedKept
<1>1. IInv => SavedKept
  BY DEF IInv
<1>2. QED
  BY <1>1, Invariance, PTL

\* shyake_find_ref misses no mail that is somewhere all the while, whatever is
\* saved and burned between its three looks.
THEOREM UnavailableMailIsGone == Spec => []UnavailableIsGone
<1>1. IInv => UnavailableIsGone
  BY DEF IInv
<1>2. QED
  BY <1>1, Invariance, PTL
=============================================================================
