---------------------------- MODULE EvidenceProofs ----------------------------
(***************************************************************************)
(* Machine-checked proofs about the evidence chain of modules EvidenceChain *)
(* and EvidenceCheckpoints, for any writers, signers, grants and epochs and *)
(* any number of entries, crashes, power losses and restored older chains.  *)
(***************************************************************************)
EXTENDS EvidenceCheckpoints, SequenceTheorems, WellFoundedInduction, TLAPS

-----------------------------------------------------------------------------
(* The inductive invariants.                                               *)

\* An entry's number is below its hash, and its hash has been handed out: this is
\* why a chain is never longer than the number of entries ever written.
Numbered(e) == e.seq < e.id /\ e.id <= ids

\* Entries numbered from 0, with no grant used twice.
Sound(s) ==
  /\ \A i \in DOMAIN s : s[i].seq = i - 1
  /\ \A i, j \in DOMAIN s :
       s[i].kind = "intent" /\ s[j].kind = "intent" /\ s[i].grant = s[j].grant => i = j

\* What a writer has verified.
ViewSound(w) == Sound(view[w]) /\ \A i \in DOMAIN view[w] : Numbered(view[w][i])

\* What the writer that holds the lock is about to record is possible, and once it
\* is written it is the last line.
CallSound(w) ==
  /\ pc[w] # "closed" => epoch[w] \in Epochs
  /\ pc[w] \in {"waiting", "writing", "written"} => req[w] \in Requests
  /\ pc[w] \in {"writing", "written"} /\ req[w].kind = "intent" =>
       req[w].grant \notin Consumed(view[w])
  /\ pc[w] = "writing" =>
       /\ ids < MaxEntries
       /\ req[w].kind = "result" => Unresolved(view[w], req[w].intent)
  /\ pc[w] = "written" =>
       /\ file # <<>> /\ Last(file) \in Entries
       /\ Last(file).seq = Len(view[w]) /\ Last(file).kind = req[w].kind
       /\ req[w].kind = "intent" => Last(file).grant = req[w].grant

\* The grants a writer gave out are in what it has verified, and each was given once.
SpentSound(w) ==
  /\ pc[w] = "closed" => spent[w] = <<>>
  /\ \A i \in DOMAIN spent[w] : spent[w][i] \in Consumed(view[w])
  /\ \A i, j \in DOMAIN spent[w] : i # j => spent[w][i] # spent[w][j]

WriterInv ==
  /\ \A i \in DOMAIN file : file[i] # Torn => Numbered(file[i])
  /\ \A w \in Writers : ViewSound(w) /\ CallSound(w) /\ SpentSound(w)

\* Unless an older chain was put back: what a writer has in memory is the beginning
\* of the file, and all of it while the writer holds the lock.
ViewCurrent(w) ==
  /\ Len(view[w]) <= Len(file) /\ \A i \in DOMAIN view[w] : view[w][i] = file[i]
  /\ pc[w] = "writing" => Len(view[w]) = Len(file)
  /\ pc[w] = "written" => Len(view[w]) + 1 = Len(file)

\* Then no grant is used twice in the file, and what was returned to a caller is in
\* the part that fsync covered.
GrantsApart ==
  \A i, j \in DOMAIN file :
    file[i].kind = "intent" /\ file[j].kind = "intent" /\ file[i].grant = file[j].grant => i = j
AckedDurable == \A e \in acked : e.seq < durable /\ file[e.seq + 1] = e

FileSound == (\A w \in Writers : ViewCurrent(w)) /\ GrantsApart /\ AckedDurable
FileInv == rollbacks = 0 => FileSound

-----------------------------------------------------------------------------
(* Sequences of lines.                                                     *)

LEMMA SmallestOf ==
  ASSUME NEW T \in SUBSET Nat, T # {}
  PROVE  \E m \in T : \A n \in T : m <= n
<1> DEFINE R == {ss \in Nat \X Nat : ss[1] < ss[2]}
<1>1. IsWellFoundedOn(R, Nat)
  BY NatLessThanWellFounded, Zenon DEF OpToRel
<1>2. PICK m \in T : \A n \in T : ~(<<n, m>> \in R)
  <2> HIDE DEF R
  <2> QED BY <1>1, WFMin
<1>3. \A n \in T : ~(n < m)
  <2> TAKE n \in T
  <2>1. <<n, m>> \in Nat \X Nat
    OBVIOUS
  <2> QED BY <1>2, <2>1
<1> QED BY <1>3

\* The grants a chain has consumed, by position.
LEMMA ConsumedAt ==
  ASSUME NEW s, NEW g
  PROVE  g \in Consumed(s) <=> \E i \in DOMAIN s : s[i].kind = "intent" /\ s[i].grant = g
BY DEF Consumed, Of

\* A part of a sequence.
LEMMA Part ==
  ASSUME NEW S, NEW s \in Seq(S), NEW m \in Nat, NEW n \in Nat, m <= n, n <= Len(s)
  PROVE  /\ SubSeq(s, m + 1, n) \in Seq(S) /\ Len(SubSeq(s, m + 1, n)) = n - m
         /\ \A i \in 1..(n - m) : SubSeq(s, m + 1, n)[i] = s[m + i]
<1>1. \A i \in (m + 1)..n : s[i] \in S
  BY ElementOfSeq, LenProperties
<1>2. /\ SubSeq(s, m + 1, n) \in Seq(S)
      /\ Len(SubSeq(s, m + 1, n)) = IF m + 1 <= n THEN n - (m + 1) + 1 ELSE 0
      /\ \A i \in 1 .. n - (m + 1) + 1 : SubSeq(s, m + 1, n)[i] = s[(m + 1) + i - 1]
  <2>1. m + 1 \in Int /\ n \in Int
    OBVIOUS
  <2> HIDE <1>1
  <2> QED BY <1>1, <2>1, SubSeqProperties
<1>3. \A i \in 1..(n - m) : (m + 1) + i - 1 = m + i /\ i \in 1 .. n - (m + 1) + 1
  OBVIOUS
<1> QED BY <1>2, <1>3

\* A verified sequence followed by lines that each verify after what comes before.
LEMMA Grow ==
  ASSUME NEW s \in Seq(Entries), Sound(s), NEW t \in Seq(Entries \cup {Torn}),
         NEW n \in 0..Len(t),
         \A i \in 1..n : Valid(s \o SubSeq(t, 1, i - 1), t[i])
  PROVE  LET u == s \o SubSeq(t, 1, n) IN
         /\ u \in Seq(Entries) /\ Len(u) = Len(s) + n /\ Sound(u)
         /\ \A i \in 1..Len(s) : u[i] = s[i]
         /\ \A i \in 1..n : u[Len(s) + i] = t[i] /\ t[i] \in Entries /\ t[i].seq = Len(s) + i - 1
<1> DEFINE L == Entries \cup {Torn}
<1>0. Len(s) \in Nat /\ Len(t) \in Nat /\ n \in Nat /\ n <= Len(t) /\ s \in Seq(L) /\ t \in Seq(L)
  <2>1. s \in Seq(L)
    OBVIOUS
  <2> QED BY <2>1, LenProperties
\* Each prefix that a line was verified after.
<1>1. ASSUME NEW k \in 0..n
      PROVE  /\ SubSeq(t, 1, k) \in Seq(L) /\ Len(SubSeq(t, 1, k)) = k
             /\ \A i \in 1..k : SubSeq(t, 1, k)[i] = t[i]
             /\ s \o SubSeq(t, 1, k) \in Seq(L)
             /\ Len(s \o SubSeq(t, 1, k)) = Len(s) + k
             /\ DOMAIN (s \o SubSeq(t, 1, k)) = 1..(Len(s) + k)
             /\ \A i \in 1..Len(s) : (s \o SubSeq(t, 1, k))[i] = s[i]
             /\ \A i \in 1..k : (s \o SubSeq(t, 1, k))[Len(s) + i] = t[i]
  <2>1. k \in Nat /\ k <= Len(t) /\ 0 \in Nat /\ 0 <= k
    BY <1>0
  <2>2. /\ SubSeq(t, 0 + 1, k) \in Seq(L) /\ Len(SubSeq(t, 0 + 1, k)) = k - 0
        /\ \A i \in 1..(k - 0) : SubSeq(t, 0 + 1, k)[i] = t[0 + i]
    <3> HIDE DEF L
    <3> QED BY <1>0, <2>1, Part
  <2>3. /\ SubSeq(t, 1, k) \in Seq(L) /\ Len(SubSeq(t, 1, k)) = k
        /\ \A i \in 1..k : SubSeq(t, 1, k)[i] = t[i]
    BY <2>1, <2>2
  <2> DEFINE v == SubSeq(t, 1, k)
  <2>4. /\ s \o v \in Seq(L) /\ Len(s \o v) = Len(s) + Len(v)
        /\ \A i \in 1 .. Len(s) + Len(v) : (s \o v)[i] = IF i <= Len(s) THEN s[i] ELSE v[i - Len(s)]
    <3> HIDE DEF L, v
    <3>1. v \in Seq(L)
      BY <2>3 DEF v
    <3> QED BY <1>0, <3>1, ConcatProperties
  <2>5. DOMAIN (s \o v) = 1..(Len(s) + k)
    <3> HIDE DEF L, v
    <3> QED BY <2>3, <2>4, LenProperties DEF v
  <2>6. \A i \in 1..Len(s) : (s \o v)[i] = s[i]
    BY <1>0, <2>1, <2>3, <2>4
  <2>7. \A i \in 1..k : (s \o v)[Len(s) + i] = t[i]
    <3> SUFFICES ASSUME NEW i \in 1..k PROVE (s \o v)[Len(s) + i] = t[i]
      OBVIOUS
    <3>1. /\ Len(s) + i \in 1 .. Len(s) + Len(v) /\ ~ (Len(s) + i <= Len(s))
          /\ (Len(s) + i) - Len(s) = i
      BY <1>0, <2>1, <2>3
    <3> HIDE DEF v
    <3> QED BY <2>3, <2>4, <3>1 DEF v
  <2> QED BY <2>3, <2>4, <2>5, <2>6, <2>7
<1>2. ASSUME NEW i \in 1..n
      PROVE  /\ t[i] \in Entries /\ t[i].seq = Len(s) + i - 1
             /\ t[i].kind = "intent" => t[i].grant \notin Consumed(s \o SubSeq(t, 1, i - 1))
  <2>1. Valid(s \o SubSeq(t, 1, i - 1), t[i]) /\ i - 1 \in 0..n
    BY <1>0
  <2>2. t[i] \in L
    BY <1>0, ElementOfSeq
  <2>3. t[i] # Torn /\ t[i].seq = Len(s \o SubSeq(t, 1, i - 1))
    BY <2>1 DEF Valid, Linked
  <2>4. Len(s \o SubSeq(t, 1, i - 1)) = Len(s) + (i - 1)
    BY <1>1, <2>1
  <2>5. t[i].kind = "intent" => t[i].grant \notin Consumed(s \o SubSeq(t, 1, i - 1))
    BY <2>1 DEF Valid, KindValid
  <2> QED BY <1>0, <2>2, <2>3, <2>4, <2>5
<1> DEFINE u == s \o SubSeq(t, 1, n)
<1>3. /\ Len(u) = Len(s) + n /\ DOMAIN u = 1..(Len(s) + n) /\ u \in Seq(L)
      /\ \A i \in 1..Len(s) : u[i] = s[i]
      /\ \A i \in 1..n : u[Len(s) + i] = t[i]
  BY <1>0, <1>1
<1> HIDE DEF u
<1>4. ASSUME NEW i \in 1..(Len(s) + n)
      PROVE  i \in 1..Len(s) \/ \E k \in 1..n : i = Len(s) + k
  <2>1. ~ (i <= Len(s)) => i - Len(s) \in 1..n /\ i = Len(s) + (i - Len(s))
    BY <1>0
  <2>2. i <= Len(s) => i \in 1..Len(s)
    BY <1>0
  <2> QED BY <2>1, <2>2
<1>5. u \in Seq(Entries)
  <2>1. \A i \in 1..Len(u) : u[i] \in Entries
    <3> SUFFICES ASSUME NEW i \in 1..Len(u) PROVE u[i] \in Entries
      OBVIOUS
    <3>1. CASE i \in 1..Len(s)
      BY <1>3, <3>1, ElementOfSeq
    <3>2. ASSUME NEW k \in 1..n, i = Len(s) + k PROVE u[i] \in Entries
      BY <1>2, <1>3, <3>2
    <3> QED BY <1>3, <1>4, <3>1, <3>2
  <2> QED BY <1>3, <2>1
<1>6. Sound(u)
  <2>1. \A i \in DOMAIN u : u[i].seq = i - 1
    <3> SUFFICES ASSUME NEW i \in 1..(Len(s) + n) PROVE u[i].seq = i - 1
      BY <1>3
    <3>1. CASE i \in 1..Len(s)
      BY <1>3, <3>1, LenProperties DEF Sound
    <3>2. ASSUME NEW k \in 1..n, i = Len(s) + k PROVE u[i].seq = i - 1
      <4>1. u[i] = t[k] /\ t[k].seq = Len(s) + k - 1
        BY <1>2, <1>3, <3>2
      <4>2. Len(s) + k - 1 = i - 1
        BY <3>2
      <4> QED BY <4>1, <4>2
    <3> QED BY <1>4, <3>1, <3>2
  \* A later intent was checked against everything before it.
  <2>2. ASSUME NEW i \in DOMAIN u, NEW j \in DOMAIN u, i < j,
               u[i].kind = "intent", u[j].kind = "intent", u[i].grant = u[j].grant
        PROVE  FALSE
    <3>0. i \in 1..(Len(s) + n) /\ j \in 1..(Len(s) + n)
      BY <1>3
    <3>1. CASE j \in 1..Len(s)
      <4>1. i \in 1..Len(s) /\ i \in DOMAIN s /\ j \in DOMAIN s /\ i # j
        BY <1>0, <2>2, <3>0, <3>1, LenProperties
      <4>2. u[i] = s[i] /\ u[j] = s[j]
        BY <1>3, <3>1, <4>1
      <4> QED BY <2>2, <4>1, <4>2 DEF Sound
    <3>2. ASSUME NEW k \in 1..n, j = Len(s) + k PROVE FALSE
      <4> DEFINE p == s \o SubSeq(t, 1, k - 1)
      <4>1. k - 1 \in 0..n
        BY <1>0
      <4>2. /\ DOMAIN p = 1..(Len(s) + (k - 1))
            /\ \A x \in 1..Len(s) : p[x] = s[x]
            /\ \A x \in 1..(k - 1) : p[Len(s) + x] = t[x]
        BY <1>1, <4>1
      <4>3. t[k].grant \notin Consumed(p) /\ u[j] = t[k]
        BY <1>2, <1>3, <2>2, <3>2
      <4> HIDE DEF p
      <4>4. i \in DOMAIN p
        BY <1>0, <2>2, <3>0, <3>2, <4>2
      <4>5. p[i] = u[i]
        <5>1. CASE i \in 1..Len(s)
          BY <1>3, <4>2, <5>1
        <5>2. ASSUME NEW x \in 1..n, i = Len(s) + x PROVE p[i] = u[i]
          <6>1. x \in 1..(k - 1)
            BY <1>0, <2>2, <3>2, <5>2
          <6> QED BY <1>3, <4>2, <5>2, <6>1
        <5> QED BY <1>4, <3>0, <5>1, <5>2
      <4> QED BY <2>2, <4>3, <4>4, <4>5, ConsumedAt
    <3> QED BY <1>4, <3>0, <3>1, <3>2
  <2>3. ASSUME NEW i \in DOMAIN u, NEW j \in DOMAIN u,
               u[i].kind = "intent", u[j].kind = "intent", u[i].grant = u[j].grant
        PROVE  i = j
    <3>1. i \in Int /\ j \in Int
      BY <1>3
    <3>2. ~ (i < j) /\ ~ (j < i)
      BY <2>2, <2>3
    <3> QED BY <3>1, <3>2
  <2> QED BY <2>1, <2>3 DEF Sound
<1> QED BY <1>2, <1>3, <1>5, <1>6 DEF u

\* A chain that verifies as a whole.
LEMMA VerifiedSound ==
  ASSUME NEW f \in Seq(Entries \cup {Torn}), Verified(f)
  PROVE  f \in Seq(Entries) /\ Sound(f)
<1> DEFINE L == Entries \cup {Torn}
<1>2. Len(f) \in Nat /\ DOMAIN f = 1..Len(f) /\ Len(f) \in 0..Len(f)
  BY LenProperties
<1>3. <<>> \in Seq(Entries) /\ Sound(<<>>) /\ Len(<<>>) = 0
  BY DEF Sound
<1>4. ASSUME NEW k \in 0..Len(f)
      PROVE  <<>> \o SubSeq(f, 1, k) = SubSeq(f, 1, k)
  <2>1. \A i \in 1..k : f[i] \in L
    BY <1>2, ElementOfSeq
  <2>2. SubSeq(f, 1, k) \in Seq(L)
    <3> HIDE DEF L
    <3>1. k \in Int /\ 1 \in Int
      BY <1>2
    <3> QED BY <2>1, <3>1, SubSeqProperties
  <2> QED BY <2>2, ConcatEmptySeq
<1>5. \A i \in 1..Len(f) : Valid(<<>> \o SubSeq(f, 1, i - 1), f[i])
  <2> TAKE i \in 1..Len(f)
  <2>1. Valid(SubSeq(f, 1, i - 1), f[i]) /\ i - 1 \in 0..Len(f)
    BY <1>2 DEF Verified
  <2> QED BY <1>4, <2>1
<1>6. f = <<>> \o SubSeq(f, 1, Len(f))
  BY <1>2, <1>4, SubSeqFull
<1>7. LET u == <<>> \o SubSeq(f, 1, Len(f)) IN u \in Seq(Entries) /\ Sound(u)
  BY <1>2, <1>3, <1>5, Grow
<1> QED BY <1>6, <1>7

-----------------------------------------------------------------------------
(* Typing and the writers' invariant.                                      *)

FileType == file \in Seq(Entries \cup {Torn}) /\ durable \in 0..Len(file)
WriterType ==
  /\ lock \in Writers \cup {NoOne}
  /\ pc \in [Writers -> PCs] /\ epoch \in [Writers -> Epochs \cup {0}]
  /\ view \in [Writers -> Seq(Entries)] /\ cached \in [Writers -> Nat]
  /\ req \in [Writers -> Requests \cup {Idle}]
HistoryType ==
  /\ ids \in 0..MaxEntries /\ acked \subseteq Entries
  /\ spent \in [Writers -> Seq(Grants)] /\ rollbacks \in 0..MaxRollbacks
Held(w) == cached[w] <= Len(view[w]) /\ ((lock = w) <=> pc[w] \in {"writing", "written"})

WriterSound(w) == Held(w) /\ ViewSound(w) /\ CallSound(w) /\ SpentSound(w)
FileNumbered == \A i \in DOMAIN file : file[i] # Torn => Numbered(file[i])

IInv ==
  /\ FileType /\ WriterType /\ HistoryType /\ FileNumbered
  /\ \A w \in Writers : WriterSound(w)

LEMMA InvParts == IInv <=> TypeOK /\ WriterInv
BY DEF IInv, TypeOK, WriterInv, FileType, WriterType, HistoryType, FileNumbered, WriterSound, Held

LEMMA InvInit == Init => IInv
<1> SUFFICES ASSUME Init PROVE IInv
  OBVIOUS
<1>1. FileType /\ HistoryType /\ FileNumbered
  BY EvidenceAssumption DEF Init, FileType, HistoryType, FileNumbered
<1>2. WriterType
  BY DEF Init, WriterType, PCs
<1>3. ASSUME NEW w \in Writers
      PROVE  WriterSound(w)
  <2>1. lock # w
    BY NoOneAssumption DEF Init
  <2> QED BY <2>1 DEF Init, WriterSound, Held, ViewSound, Sound, CallSound, SpentSound
<1> QED BY <1>1, <1>2, <1>3 DEF IInv

\* Hashes are only added.
LEMMA NumberedKept ==
  ASSUME NEW e \in Entries, Numbered(e), ids \in Nat, ids' \in Nat, ids <= ids'
  PROVE  Numbered(e)'
BY DEF Numbered, Entries

\* A writer the step does not touch keeps its part, if the step writes the file
\* only while that writer does not hold the lock.
LEMMA OthersSound ==
  ASSUME IInv, NEW v \in Writers,
         /\ pc'[v] = pc[v] /\ epoch'[v] = epoch[v] /\ view'[v] = view[v]
         /\ cached'[v] = cached[v] /\ req'[v] = req[v] /\ spent'[v] = spent[v],
         pc[v] \in {"writing", "written"} => UNCHANGED <<file, ids>>,
         (lock' = v) <=> (lock = v),
         ids' \in Nat, ids <= ids'
  PROVE  WriterSound(v)'
<1>1. Held(v) /\ ViewSound(v) /\ CallSound(v) /\ SpentSound(v) /\ ids \in Nat
  BY DEF IInv, WriterSound, HistoryType
<1>2. Held(v)'
  BY <1>1 DEF Held
<1>3. ViewSound(v)'
  <2>1. \A i \in DOMAIN view[v] : view[v][i] \in Entries
    BY LenProperties, ElementOfSeq DEF IInv, WriterType
  <2> QED BY <1>1, <2>1 DEF ViewSound, Numbered, Entries
<1>4. CallSound(v)'
  BY <1>1 DEF CallSound
<1>5. SpentSound(v)'
  BY <1>1 DEF SpentSound
<1> QED BY <1>2, <1>3, <1>4, <1>5 DEF WriterSound

\* Nobody else holds the lock when it is free, or when one writer does.
LEMMA LockOwner ==
  ASSUME IInv, NEW w \in Writers
  PROVE  /\ pc[w] \in {"writing", "written"} <=> lock = w
         /\ lock = NoOne => pc[w] \notin {"writing", "written"}
         /\ lock = w => \A v \in Writers : v # w => pc[v] \notin {"writing", "written"}
BY NoOneAssumption DEF IInv, WriterSound, Held

\* What the sync takes over from the file.
LEMMA NewLines ==
  ASSUME IInv, NEW w \in Writers, cached[w] <= Len(file)
  PROVE  /\ New(w) \in Seq(Entries \cup {Torn}) /\ Len(New(w)) = Len(file) - cached[w]
         /\ DOMAIN New(w) = 1..Len(New(w)) /\ Len(New(w)) \in Nat
         /\ \A i \in 1..Len(New(w)) : New(w)[i] = file[cached[w] + i]
<1>1. file \in Seq(Entries \cup {Torn}) /\ Len(file) \in Nat /\ cached[w] \in Nat
  BY LenProperties DEF IInv, FileType, WriterType
<1>2. New(w) \in Seq(Entries \cup {Torn}) /\ Len(New(w)) = Len(file) - cached[w]
  BY <1>1, Part DEF New
<1>3. \A i \in 1..(Len(file) - cached[w]) : New(w)[i] = file[cached[w] + i]
  BY <1>1, Part DEF New
<1>4. DOMAIN New(w) = 1..Len(New(w)) /\ Len(New(w)) \in Nat
  BY <1>2, LenProperties
<1> QED BY <1>2, <1>3, <1>4

\* Taking lines that verify keeps what is in memory sound, and only adds to it.
LEMMA TakenSound ==
  ASSUME IInv, NEW w \in Writers, cached[w] <= Len(file),
         NEW n \in 0..Len(New(w)),
         \A i \in 1..n : Valid(view[w] \o SubSeq(New(w), 1, i - 1), New(w)[i]),
         Taken(w, n), UNCHANGED ids
  PROVE  /\ view' \in [Writers -> Seq(Entries)] /\ ViewSound(w)'
         /\ view'[w] = view[w] \o SubSeq(New(w), 1, n)
         /\ Len(view'[w]) = Len(view[w]) + n
         /\ \A i \in 1..Len(view[w]) : view'[w][i] = view[w][i]
         /\ \A i \in 1..n : view'[w][Len(view[w]) + i] = New(w)[i]
         /\ \A i \in 1..n : New(w)[i].seq = Len(view[w]) + i - 1
         /\ Consumed(view[w]) \subseteq Consumed(view'[w])
<1>0. view \in [Writers -> Seq(Entries)] /\ view[w] \in Seq(Entries) /\ Sound(view[w])
  BY DEF IInv, WriterType, WriterSound, ViewSound
<1> DEFINE u == view[w] \o SubSeq(New(w), 1, n)
<1>1. /\ u \in Seq(Entries) /\ Len(u) = Len(view[w]) + n /\ Sound(u)
      /\ \A i \in 1..Len(view[w]) : u[i] = view[w][i]
      /\ \A i \in 1..n : /\ u[Len(view[w]) + i] = New(w)[i] /\ New(w)[i] \in Entries
                         /\ New(w)[i].seq = Len(view[w]) + i - 1
  <2>1. New(w) \in Seq(Entries \cup {Torn})
    BY NewLines
  <2> QED BY <1>0, <2>1, Grow
<1>2. view' = [view EXCEPT ![w] = u] /\ view'[w] = u /\ view' \in [Writers -> Seq(Entries)]
  <2>1. view' = [view EXCEPT ![w] = u]
    BY DEF Taken
  <2> HIDE DEF u
  <2> QED BY <1>0, <1>1, <2>1
<1> HIDE DEF u
<1>3. /\ DOMAIN u = 1..Len(u) /\ DOMAIN view[w] = 1..Len(view[w])
      /\ Len(view[w]) \in Nat /\ Len(u) \in Nat /\ n \in Nat
  BY <1>0, <1>1, NewLines, LenProperties
<1>4. \A i \in DOMAIN u : Numbered(u[i])
  <2> SUFFICES ASSUME NEW i \in 1..(Len(view[w]) + n) PROVE Numbered(u[i])
    BY <1>1, <1>3
  <2>1. CASE i \in 1..Len(view[w])
    BY <1>1, <1>3, <2>1 DEF IInv, WriterSound, ViewSound
  <2>2. CASE ~ (i <= Len(view[w]))
    <3>1. PICK k \in 1..n : i = Len(view[w]) + k
      <4>1. i - Len(view[w]) \in 1..n /\ i = Len(view[w]) + (i - Len(view[w]))
        BY <1>3, <2>2
      <4> QED BY <4>1
    <3>2. u[i] = New(w)[k] /\ New(w)[k] \in Entries
      BY <1>1, <3>1
    <3>3. New(w)[k] = file[cached[w] + k] /\ cached[w] + k \in DOMAIN file
      <4>1. /\ file \in Seq(Entries \cup {Torn}) /\ Len(file) \in Nat /\ cached[w] \in Nat
            /\ DOMAIN file = 1..Len(file)
        BY LenProperties DEF IInv, FileType, WriterType
      <4>2. k \in 1..Len(New(w)) /\ Len(New(w)) = Len(file) - cached[w]
        BY <1>3, NewLines
      <4>3. New(w)[k] = file[cached[w] + k]
        BY <4>2, NewLines
      <4>4. cached[w] + k \in 1..Len(file)
        BY SMTT(30), <1>3, <4>1, <4>2
      <4> QED BY <4>1, <4>3, <4>4
    <3>4. New(w)[k] # Torn
      BY <3>2 DEF Entries, Torn
    <3> QED BY <3>2, <3>3, <3>4 DEF IInv, FileNumbered
  <2> QED BY <1>3, <2>1, <2>2
<1>5. ViewSound(w)'
  BY <1>1, <1>2, <1>4 DEF ViewSound, Numbered
<1>6. Consumed(view[w]) \subseteq Consumed(u)
  <2> SUFFICES ASSUME NEW g \in Consumed(view[w]) PROVE g \in Consumed(u)
    OBVIOUS
  <2>1. PICK i \in DOMAIN view[w] : view[w][i].kind = "intent" /\ view[w][i].grant = g
    BY ConsumedAt
  <2>2. i \in DOMAIN u /\ u[i] = view[w][i]
    BY <1>1, <1>3
  <2> QED BY <2>1, <2>2, ConsumedAt
<1> QED BY <1>1, <1>2, <1>5, <1>6 DEF u

\* The sync of a call that succeeds takes all the new lines.
LEMMA SyncedTakes ==
  ASSUME IInv, NEW w \in Writers, Synced(w)
  PROVE  /\ lock = NoOne /\ cached[w] <= Len(file) /\ Taken(w, Len(New(w)))
         /\ Len(New(w)) \in 0..Len(New(w))
         /\ \A i \in 1..Len(New(w)) : Valid(view[w] \o SubSeq(New(w), 1, i - 1), New(w)[i])
         /\ view'[w] = NewView(w)
<1>1. cached[w] <= Len(file) /\ lock = NoOne /\ Taken(w, Len(New(w))) /\ Bad(w) = {}
  BY DEF Synced, SeenKept
<1>2. DOMAIN New(w) = 1..Len(New(w)) /\ Len(New(w)) \in Nat
  BY <1>1, NewLines
<1>3. \A i \in 1..Len(New(w)) : Valid(view[w] \o SubSeq(New(w), 1, i - 1), New(w)[i])
  BY <1>1, <1>2 DEF Bad
<1>4. SubSeq(New(w), 1, Len(New(w))) = New(w)
  BY <1>1, NewLines, SubSeqFull
<1>5. view'[w] = NewView(w)
  BY <1>1, <1>4 DEF Taken, NewView, IInv, WriterType
<1> QED BY <1>1, <1>2, <1>3, <1>5

\* One that fails takes the lines before the first bad one.
LEMMA FailedTakes ==
  ASSUME IInv, NEW w \in Writers, SyncFails(w)
  PROVE  /\ lock = NoOne /\ cached[w] <= Len(file) /\ Taken(w, FirstBad(w) - 1)
         /\ FirstBad(w) \in Bad(w) /\ FirstBad(w) - 1 \in 0..Len(New(w))
         /\ \A i \in 1..(FirstBad(w) - 1) :
              Valid(view[w] \o SubSeq(New(w), 1, i - 1), New(w)[i])
         /\ \A i \in Bad(w) : FirstBad(w) <= i
<1>1. cached[w] <= Len(file) /\ lock = NoOne /\ Taken(w, FirstBad(w) - 1) /\ Bad(w) # {}
  BY DEF SyncFails, SeenKept
<1>2. DOMAIN New(w) = 1..Len(New(w)) /\ Len(New(w)) \in Nat
  BY <1>1, NewLines
<1>3. Bad(w) \in SUBSET Nat /\ Bad(w) \subseteq 1..Len(New(w))
  BY <1>2 DEF Bad
<1>4. \E i \in Bad(w) : \A j \in Bad(w) : i <= j
  BY <1>1, <1>3, SmallestOf
<1>5. FirstBad(w) \in Bad(w) /\ \A j \in Bad(w) : FirstBad(w) <= j
  BY <1>4 DEF FirstBad
<1>6. FirstBad(w) - 1 \in 0..Len(New(w))
  BY <1>2, <1>3, <1>5
<1>7. ASSUME NEW i \in 1..(FirstBad(w) - 1)
      PROVE  Valid(view[w] \o SubSeq(New(w), 1, i - 1), New(w)[i])
  <2>1. i \in DOMAIN New(w) /\ i \notin Bad(w)
    BY <1>2, <1>3, <1>5
  <2> QED BY <2>1 DEF Bad
<1> QED BY <1>1, <1>5, <1>6, <1>7

-----------------------------------------------------------------------------
(* Every step keeps the writers' invariant.                                *)

\* The step of one writer that leaves the others alone.
LEMMA WriterStep ==
  ASSUME IInv, NEW w \in Writers,
         FileType', WriterType', HistoryType', FileNumbered', WriterSound(w)', ids <= ids',
         \A v \in Writers : v # w =>
           /\ pc'[v] = pc[v] /\ epoch'[v] = epoch[v] /\ view'[v] = view[v]
           /\ cached'[v] = cached[v] /\ req'[v] = req[v] /\ spent'[v] = spent[v]
           /\ (lock' = v) <=> (lock = v),
         UNCHANGED <<file, ids>> \/ lock = w
  PROVE  IInv'
<1>1. ids' \in Nat
  BY EvidenceAssumption DEF HistoryType
<1>2. ASSUME NEW v \in Writers, v # w
      PROVE  WriterSound(v)'
  <2>1. pc[v] \in {"writing", "written"} => UNCHANGED <<file, ids>>
    BY <1>2, LockOwner
  <2> QED BY <1>1, <1>2, <2>1, OthersSound
<1> QED BY <1>2 DEF IInv

LEMMA FileKept ==
  ASSUME IInv, UNCHANGED <<file, durable, ids>>
  PROVE  FileType' /\ FileNumbered'
BY DEF IInv, FileType, FileNumbered, Numbered

\* Appending a line to the file.
LEMMA FileGrows ==
  ASSUME IInv, NEW l \in Entries \cup {Torn}, file' = Append(file, l), UNCHANGED durable,
         ids' \in Nat, ids <= ids', l # Torn => Numbered(l)'
  PROVE  FileType' /\ FileNumbered'
<1>1. file \in Seq(Entries \cup {Torn}) /\ durable \in 0..Len(file) /\ ids \in Nat
  BY EvidenceAssumption DEF IInv, FileType, HistoryType
<1>2. Len(file) \in Nat /\ DOMAIN file = 1..Len(file)
  BY <1>1, LenProperties
<1>3. /\ file' \in Seq(Entries \cup {Torn}) /\ Len(file') = Len(file) + 1
      /\ \A i \in 1..Len(file) : file'[i] = file[i]
      /\ file'[Len(file) + 1] = l /\ DOMAIN file' = 1..(Len(file) + 1)
  BY <1>1, <1>2, AppendProperties, LenProperties
<1>4. FileType'
  BY <1>1, <1>2, <1>3 DEF FileType
<1>5. ASSUME NEW i \in DOMAIN file', file'[i] # Torn
      PROVE  file'[i].seq < file'[i].id /\ file'[i].id <= ids'
  <2>1. CASE i \in 1..Len(file)
    <3>1. file'[i] = file[i] /\ file[i] \in Entries /\ Numbered(file[i])
      BY <1>1, <1>2, <1>3, <1>5, <2>1, ElementOfSeq DEF IInv, FileNumbered
    <3> QED BY <1>1, <3>1 DEF Numbered, Entries
  <2>2. CASE i = Len(file) + 1
    BY <1>3, <1>5, <2>2 DEF Numbered
  <2> QED BY <1>2, <1>3, <1>5, <2>1, <2>2
<1> QED BY <1>4, <1>5 DEF FileNumbered, Numbered

LEMMA OpenInv ==
  ASSUME IInv, NEW w \in Writers, NEW e \in Epochs, Open(w, e)
  PROVE  IInv'
<1>0. UNCHANGED <<file, durable, lock, req, ids, acked, spent, rollbacks>> /\ lock = NoOne
  BY DEF Open, chainVars, history
<1>1. file \in Seq(Entries) /\ Sound(file) /\ Len(file) \in Nat
  BY VerifiedSound, LenProperties DEF Open, IInv, FileType
<1>2. WriterType'
  BY <1>0, <1>1 DEF Open, IInv, WriterType, PCs
<1>3. HistoryType'
  BY <1>0 DEF IInv, HistoryType
<1>4. /\ pc'[w] = "idle" /\ view'[w] = file /\ cached'[w] = Len(file) /\ epoch'[w] = e
      /\ spent[w] = <<>> /\ pc[w] = "closed"
  BY DEF Open, IInv, WriterType, WriterSound, SpentSound
<1>5. \A i \in DOMAIN file : Numbered(file[i])
  <2>1. \A i \in DOMAIN file : file[i] \in Entries /\ file[i] # Torn
    <3>1. \A i \in DOMAIN file : file[i] \in Entries
      BY <1>1, LenProperties, ElementOfSeq
    <3> QED BY <3>1 DEF Entries, Torn
  <2> QED BY <2>1 DEF IInv, FileNumbered
<1>6. WriterSound(w)'
  <2>1. Held(w)'
    BY <1>0, <1>1, <1>4, NoOneAssumption DEF Held
  <2>2. ViewSound(w)'
    BY <1>0, <1>1, <1>4, <1>5 DEF ViewSound, Numbered
  <2>3. CallSound(w)' /\ SpentSound(w)'
    BY <1>0, <1>4 DEF CallSound, SpentSound
  <2> QED BY <2>1, <2>2, <2>3 DEF WriterSound
<1>7. \A v \in Writers : v # w =>
        pc'[v] = pc[v] /\ epoch'[v] = epoch[v] /\ view'[v] = view[v] /\ cached'[v] = cached[v]
  BY DEF Open, IInv, WriterType
<1> QED BY <1>0, <1>2, <1>3, <1>6, <1>7, FileKept, WriterStep, EvidenceAssumption DEF IInv, HistoryType

\* A writer that keeps nothing.
LEMMA GoneSound ==
  ASSUME IInv, NEW w \in Writers, Gone(w), lock' = IF lock = w THEN NoOne ELSE lock
  PROVE  /\ WriterType' /\ HistoryType' /\ WriterSound(w)' /\ ids <= ids'
         /\ \A v \in Writers : v # w =>
              /\ pc'[v] = pc[v] /\ epoch'[v] = epoch[v] /\ view'[v] = view[v]
              /\ cached'[v] = cached[v] /\ req'[v] = req[v] /\ spent'[v] = spent[v]
              /\ (lock' = v) <=> (lock = v)
<1>1. WriterType'
  <2>1. <<>> \in Seq(Entries)
    OBVIOUS
  <2> QED BY <2>1 DEF Gone, IInv, WriterType, PCs
<1>2. HistoryType' /\ ids <= ids'
  <2>1. <<>> \in Seq(Grants)
    OBVIOUS
  <2> QED BY <2>1, EvidenceAssumption DEF Gone, IInv, HistoryType
<1>3. /\ pc'[w] = "closed" /\ view'[w] = <<>> /\ cached'[w] = 0 /\ spent'[w] = <<>> /\ lock' # w
  BY NoOneAssumption DEF Gone, IInv, WriterType, HistoryType
<1>4. WriterSound(w)'
  BY <1>3 DEF WriterSound, Held, ViewSound, Sound, CallSound, SpentSound
<1>5. \A v \in Writers : v # w =>
         /\ pc'[v] = pc[v] /\ epoch'[v] = epoch[v] /\ view'[v] = view[v]
         /\ cached'[v] = cached[v] /\ req'[v] = req[v] /\ spent'[v] = spent[v]
  BY DEF Gone, IInv, WriterType, HistoryType
<1> QED BY <1>1, <1>2, <1>4, <1>5, NoOneAssumption

LEMMA CloseInv ==
  ASSUME IInv, NEW w \in Writers, Close(w)
  PROVE  IInv'
<1>1. Gone(w) /\ UNCHANGED <<file, lock, durable, ids>> /\ lock # w
  BY LockOwner DEF Close, Gone
<1> QED BY <1>1, GoneSound, FileKept, WriterStep

LEMMA CrashInv ==
  ASSUME IInv, NEW w \in Writers, Crash(w)
  PROVE  IInv'
<1>1. Gone(w) /\ UNCHANGED <<durable, ids>> /\ lock' = IF lock = w THEN NoOne ELSE lock
  BY DEF Crash, Gone
<1>2. CASE UNCHANGED file
  BY <1>1, <1>2, GoneSound, FileKept, WriterStep
<1>3. CASE pc[w] = "writing" /\ file' = Append(file, Torn)
  <2>1. lock = w
    BY <1>3, LockOwner
  <2>2. FileType' /\ FileNumbered'
    BY <1>1, <1>3, FileGrows, EvidenceAssumption DEF IInv, HistoryType
  <2> QED BY <1>1, <2>1, <2>2, GoneSound, WriterStep
<1> QED BY <1>2, <1>3 DEF Crash

LEMMA CallInv ==
  ASSUME IInv, NEW w \in Writers, NEW r \in Requests, Call(w, r)
  PROVE  IInv'
<1>0. UNCHANGED <<file, durable, lock, epoch, view, cached, ids, acked, spent, rollbacks>>
  BY DEF Call, chainVars, history
<1>1. WriterType' /\ HistoryType'
  BY <1>0 DEF Call, IInv, WriterType, HistoryType, PCs
<1>2. pc[w] = "idle" /\ pc'[w] = "waiting" /\ req'[w] = r
  BY DEF Call, IInv, WriterType
<1>3. WriterSound(w)
  BY DEF IInv
<1>4. WriterSound(w)'
  <2>1. Held(w)' /\ ViewSound(w)' /\ SpentSound(w)'
    BY <1>0, <1>2, <1>3 DEF WriterSound, Held, ViewSound, Numbered, SpentSound
  <2>2. CallSound(w)'
    BY <1>0, <1>2, <1>3 DEF WriterSound, CallSound
  <2> QED BY <2>1, <2>2 DEF WriterSound
<1>5. \A v \in Writers : v # w => pc'[v] = pc[v] /\ req'[v] = req[v]
  BY DEF Call, IInv, WriterType
<1> QED BY <1>0, <1>1, <1>4, <1>5, FileKept, WriterStep, EvidenceAssumption DEF IInv, HistoryType

\* The call ends without a record: the writer is idle or poisoned, and what it has
\* in memory is as it was, or has grown.
LEMMA ReturnInv ==
  ASSUME IInv, NEW w \in Writers, NEW state \in {"idle", "poisoned"}, Return(w, state),
         pc[w] # "closed", lock \in {NoOne, w}, FileType', FileNumbered',
         UNCHANGED file \/ lock = w,
         view' \in [Writers -> Seq(Entries)], cached' \in [Writers -> Nat],
         \A v \in Writers : v # w => view'[v] = view[v] /\ cached'[v] = cached[v],
         ViewSound(w)', cached'[w] <= Len(view'[w]), Consumed(view[w]) \subseteq Consumed(view'[w])
  PROVE  IInv'
<1>0. UNCHANGED <<epoch, ids, acked, spent, rollbacks>> /\ lock' = NoOne
  BY DEF Return
<1>1. WriterType' /\ HistoryType'
  BY <1>0 DEF Return, IInv, WriterType, HistoryType, PCs
<1>2. pc'[w] = state /\ req'[w] = Idle
  BY DEF Return, IInv, WriterType
<1>3. WriterSound(w)
  BY DEF IInv
<1>4. WriterSound(w)'
  <2>1. Held(w)'
    BY <1>0, <1>2, NoOneAssumption DEF Held
  <2>2. CallSound(w)'
    BY <1>0, <1>2, <1>3 DEF WriterSound, CallSound
  <2>3. SpentSound(w)'
    BY <1>0, <1>2, <1>3 DEF WriterSound, SpentSound
  <2> QED BY <2>1, <2>2, <2>3 DEF WriterSound
<1>5. \A v \in Writers : v # w => /\ pc'[v] = pc[v] /\ req'[v] = req[v]
                                  /\ (lock' = v) <=> (lock = v)
  BY <1>0, NoOneAssumption DEF Return, IInv, WriterType
<1>6. ids <= ids'
  BY <1>0, EvidenceAssumption DEF IInv, HistoryType
<1> QED BY <1>0, <1>1, <1>4, <1>5, <1>6, WriterStep

\* It ends and leaves what is in memory alone.
LEMMA QuietReturnInv ==
  ASSUME IInv, NEW w \in Writers, NEW state \in {"idle", "poisoned"}, Return(w, state),
         pc[w] # "closed", lock \in {NoOne, w}, FileType', FileNumbered',
         UNCHANGED file \/ lock = w, UNCHANGED <<view, cached>>
  PROVE  IInv'
<1>1. /\ view' \in [Writers -> Seq(Entries)] /\ cached' \in [Writers -> Nat]
      /\ ViewSound(w) /\ cached[w] <= Len(view[w])
  BY DEF IInv, WriterType, WriterSound, Held
<1>2. ViewSound(w)'
  BY <1>1 DEF Return, ViewSound, Numbered
<1> QED BY <1>1, <1>2, ReturnInv

LEMMA SyncPoisonsInv ==
  ASSUME IInv, NEW w \in Writers, SyncPoisons(w)
  PROVE  IInv'
<1>1. /\ Return(w, "poisoned") /\ UNCHANGED <<file, durable, view, cached, ids>>
      /\ pc[w] # "closed" /\ lock = NoOne
  BY DEF SyncPoisons, Return
<1> QED BY <1>1, FileKept, QuietReturnInv

LEMMA SyncFailsInv ==
  ASSUME IInv, NEW w \in Writers, SyncFails(w)
  PROVE  IInv'
<1>1. PICK state \in {"idle", "poisoned"} : Return(w, state)
  BY DEF SyncFails
<1>2. pc[w] # "closed" /\ lock = NoOne /\ UNCHANGED <<file, durable, cached, ids>>
  BY <1>1 DEF SyncFails, Return
<1>3. /\ view' \in [Writers -> Seq(Entries)] /\ ViewSound(w)'
      /\ Len(view'[w]) = Len(view[w]) + (FirstBad(w) - 1)
      /\ Consumed(view[w]) \subseteq Consumed(view'[w])
  BY <1>2, FailedTakes, TakenSound
<1>4. \A v \in Writers : v # w => view'[v] = view[v]
  BY FailedTakes DEF Taken, IInv, WriterType
<1>5. cached' \in [Writers -> Nat] /\ cached'[w] <= Len(view'[w])
  <2>1. cached[w] <= Len(view[w]) /\ Len(view[w]) \in Nat /\ cached \in [Writers -> Nat]
    BY LenProperties DEF IInv, WriterType, WriterSound, Held
  <2>2. FirstBad(w) - 1 \in Nat
    BY FailedTakes, NewLines
  <2> QED BY <1>2, <1>3, <2>1, <2>2
<1> QED BY <1>1, <1>2, <1>3, <1>4, <1>5, FileKept, ReturnInv

\* What a successful sync leaves in memory.
LEMMA SyncedSound ==
  ASSUME IInv, NEW w \in Writers, Synced(w), UNCHANGED ids
  PROVE  /\ view' \in [Writers -> Seq(Entries)] /\ cached' \in [Writers -> Nat]
         /\ ViewSound(w)' /\ cached'[w] <= Len(view'[w])
         /\ Consumed(view[w]) \subseteq Consumed(view'[w]) /\ view'[w] = NewView(w)
         /\ \A v \in Writers : v # w => view'[v] = view[v] /\ cached'[v] = cached[v]
         /\ lock = NoOne
<1>1. /\ view' \in [Writers -> Seq(Entries)] /\ ViewSound(w)'
      /\ Len(view'[w]) = Len(view[w]) + Len(New(w))
      /\ Consumed(view[w]) \subseteq Consumed(view'[w]) /\ view'[w] = NewView(w)
      /\ lock = NoOne /\ cached[w] <= Len(file)
  BY SyncedTakes, TakenSound
<1>2. \A v \in Writers : v # w => view'[v] = view[v] /\ cached'[v] = cached[v]
  BY SyncedTakes DEF Synced, Taken, IInv, WriterType
<1>3. /\ cached[w] <= Len(view[w]) /\ Len(view[w]) \in Nat /\ cached \in [Writers -> Nat]
      /\ Len(file) \in Nat /\ cached' = [cached EXCEPT ![w] = Len(file)]
      /\ Len(New(w)) = Len(file) - cached[w]
  BY <1>1, NewLines, LenProperties DEF Synced, IInv, WriterType, FileType, WriterSound, Held
<1>4. cached' \in [Writers -> Nat] /\ cached'[w] <= Len(view'[w])
  <2>1. cached' \in [Writers -> Nat] /\ cached'[w] = Len(file) /\ cached[w] \in Nat
    BY <1>3
  <2>2. Len(file) <= Len(view[w]) + Len(New(w))
    BY <1>3, <2>1
  <2> QED BY <1>1, <2>1, <2>2
<1> QED BY <1>1, <1>2, <1>4

LEMMA RefuseInv ==
  ASSUME IInv, NEW w \in Writers, Refuse(w)
  PROVE  IInv'
<1>1. /\ Synced(w) /\ Return(w, "idle") /\ UNCHANGED <<file, durable, ids>> /\ pc[w] # "closed"
  BY DEF Refuse, Return
<1> QED BY <1>1, SyncedSound, FileKept, ReturnInv

LEMMA GetHeadInv ==
  ASSUME IInv, NEW w \in Writers, GetHead(w)
  PROVE  IInv'
<1>1. /\ Synced(w) /\ pc[w] = "idle"
      /\ UNCHANGED <<file, durable, lock, pc, epoch, req, ids, acked, spent, rollbacks>>
  BY DEF GetHead, chainVars, history
<1>2. WriterType' /\ HistoryType'
  BY <1>1, SyncedSound DEF IInv, WriterType, HistoryType
<1>3. /\ ViewSound(w)' /\ cached'[w] <= Len(view'[w])
      /\ Consumed(view[w]) \subseteq Consumed(view'[w])
      /\ \A v \in Writers : v # w => view'[v] = view[v] /\ cached'[v] = cached[v]
  BY <1>1, SyncedSound
<1>4. Held(w) /\ CallSound(w) /\ SpentSound(w)
  BY DEF IInv, WriterSound
<1>5. WriterSound(w)'
  <2>1. Held(w)' /\ SpentSound(w)'
    BY <1>1, <1>3, <1>4 DEF Held, SpentSound
  <2>2. CallSound(w)'
    BY <1>1, <1>4 DEF CallSound
  <2> QED BY <1>3, <2>1, <2>2 DEF WriterSound
<1>6. ids <= ids'
  BY <1>1, EvidenceAssumption DEF IInv, HistoryType
<1> QED BY <1>1, <1>2, <1>3, <1>5, <1>6, FileKept, WriterStep

LEMMA AdmitInv ==
  ASSUME IInv, NEW w \in Writers, Admit(w)
  PROVE  IInv'
<1>1. /\ Synced(w) /\ pc[w] = "waiting" /\ Allowed(w) /\ ids < MaxEntries /\ lock' = w
      /\ UNCHANGED <<file, durable, epoch, req, ids, acked, spent, rollbacks>>
  BY DEF Admit, history
<1>2. WriterType' /\ HistoryType'
  BY <1>1, SyncedSound DEF Admit, IInv, WriterType, HistoryType, PCs
<1>3. pc'[w] = "writing" /\ \A v \in Writers : v # w => pc'[v] = pc[v]
  BY DEF Admit, IInv, WriterType
<1>6. /\ ViewSound(w)' /\ cached'[w] <= Len(view'[w])
      /\ Consumed(view[w]) \subseteq Consumed(view'[w])
      /\ \A v \in Writers : v # w => view'[v] = view[v] /\ cached'[v] = cached[v]
  BY <1>1, SyncedSound
<1>4. WriterSound(w)'
  <2>1. Held(w)' /\ SpentSound(w)'
    BY <1>1, <1>3, <1>6 DEF IInv, WriterSound, Held, SpentSound
  <2>2. /\ req[w].kind = "intent" => req[w].grant \notin Consumed(view'[w])
        /\ req[w].kind = "result" => Unresolved(view'[w], req[w].intent)
    BY <1>1, SyncedSound DEF Allowed
  <2>3. CallSound(w)'
    BY <1>1, <1>3, <2>2 DEF IInv, WriterSound, CallSound
  <2> QED BY <1>6, <2>1, <2>3 DEF WriterSound
<1>5. \A v \in Writers : v # w => ((lock' = v) <=> (lock = v))
  BY <1>1, SyncedSound, NoOneAssumption
<1>7. ids <= ids'
  BY <1>1, EvidenceAssumption DEF IInv, HistoryType
<1> QED BY <1>1, <1>2, <1>3, <1>4, <1>5, <1>6, <1>7, FileKept, WriterStep

LEMMA SignFailsInv ==
  ASSUME IInv, NEW w \in Writers, SignFails(w)
  PROVE  IInv'
<1>1. /\ Return(w, "idle") /\ UNCHANGED <<file, durable, view, cached, ids>> /\ pc[w] # "closed"
  BY DEF SignFails, Return
<1>2. lock = w
  BY LockOwner DEF SignFails
<1> QED BY <1>1, <1>2, FileKept, QuietReturnInv

LEMMA FsyncFailsInv ==
  ASSUME IInv, NEW w \in Writers, FsyncFails(w)
  PROVE  IInv'
<1>1. /\ Return(w, "poisoned") /\ UNCHANGED <<file, durable, view, cached, ids>> /\ pc[w] # "closed"
  BY DEF FsyncFails, Return
<1>2. lock = w
  BY LockOwner DEF FsyncFails
<1> QED BY <1>1, <1>2, FileKept, QuietReturnInv

LEMMA WriteFailsInv ==
  ASSUME IInv, NEW w \in Writers, WriteFails(w)
  PROVE  IInv'
<1>1. /\ Return(w, "poisoned") /\ UNCHANGED <<durable, view, cached, ids>> /\ pc[w] # "closed"
      /\ file' \in {file, Append(file, Torn)}
  BY DEF WriteFails, Return
<1>2. lock = w
  BY LockOwner DEF WriteFails
<1>3. FileType' /\ FileNumbered'
  BY <1>1, FileKept, FileGrows, EvidenceAssumption DEF IInv, HistoryType
<1> QED BY <1>1, <1>2, <1>3, QuietReturnInv

LEMMA RequestKinds ==
  ASSUME NEW r \in Requests
  PROVE  \/ r.kind = "intent" /\ r.grant \in Grants
         \/ r.kind = "result" /\ r.intent \in 0..(MaxEntries - 1)
BY DEF Requests, Intent, Result

\* What is in memory is no longer than the number of entries ever written.
LEMMA ViewBounded ==
  ASSUME IInv, NEW w \in Writers
  PROVE  /\ Len(view[w]) \in 0..ids /\ LastHash(view[w]) \in 0..MaxEntries
<1>1. /\ view[w] \in Seq(Entries) /\ Len(view[w]) \in Nat /\ DOMAIN view[w] = 1..Len(view[w])
      /\ ids \in 0..MaxEntries /\ ids \in Nat /\ MaxEntries \in Nat
  BY LenProperties, EvidenceAssumption DEF IInv, WriterType, HistoryType
<1>2. CASE view[w] = <<>>
  BY <1>1, <1>2 DEF LastHash, Genesis
<1>3. CASE view[w] # <<>>
  <2>1. Len(view[w]) \in DOMAIN view[w] /\ Last(view[w]) \in Entries
    BY <1>1, <1>3, EmptySeq, ElementOfSeq DEF Last
  <2>2. Last(view[w]).seq = Len(view[w]) - 1 /\ Numbered(Last(view[w]))
    BY <2>1 DEF IInv, WriterSound, ViewSound, Sound, Last
  <2>3. Last(view[w]).id \in 1..MaxEntries
    BY <2>1 DEF Entries
  <2> QED BY <1>1, <1>3, <2>2, <2>3 DEF Numbered, LastHash
<1> QED BY <1>2, <1>3

\* The record a writer appends is well-formed and numbered after what it has seen.
LEMMA RecordSound ==
  ASSUME IInv, NEW w \in Writers, pc[w] = "writing"
  PROVE  /\ Record(w) \in Entries /\ Record(w).seq < Record(w).id /\ Record(w).id = ids + 1
         /\ Record(w).seq = Len(view[w]) /\ Record(w).kind = req[w].kind
         /\ req[w].kind = "intent" => Record(w).grant = req[w].grant
<1>0. CallSound(w) /\ ViewSound(w)
  BY DEF IInv, WriterSound
<1>1. req[w] \in Requests /\ ids < MaxEntries /\ epoch[w] \in Epochs
  BY <1>0 DEF CallSound
<1>2. /\ view[w] \in Seq(Entries) /\ DOMAIN view[w] = 1..Len(view[w]) /\ Len(view[w]) \in Nat
      /\ ids \in Nat /\ MaxEntries \in Nat
  BY LenProperties, EvidenceAssumption DEF IInv, WriterType, HistoryType
<1>3. /\ Len(view[w]) \in 0..ids /\ LastHash(view[w]) \in 0..MaxEntries
  BY ViewBounded
<1> DEFINE g == IF req[w].kind = "intent" THEN req[w].grant
                ELSE view[w][req[w].intent + 1].grant
           n == IF req[w].kind = "intent" THEN -1 ELSE req[w].intent
<1>4. g \in Grants /\ n \in -1..MaxEntries /\ req[w].kind \in {"intent", "result"}
  <2>1. CASE req[w].kind = "intent"
    BY <1>1, <1>2, <2>1, RequestKinds
  <2>2. CASE req[w].kind = "result"
    <3>1. req[w].intent \in 0..(MaxEntries - 1)
      BY <1>1, <2>2, RequestKinds
    <3>2. PICK k \in DOMAIN view[w] : view[w][k].seq = req[w].intent
      BY <1>0, <2>2 DEF CallSound, Unresolved, Of
    <3>3. k = req[w].intent + 1
      <4>1. view[w][k].seq = k - 1
        BY <1>0 DEF ViewSound, Sound
      <4> QED BY <1>2, <3>1, <3>2, <4>1
    <3>4. view[w][k] \in Entries
      BY <1>2, ElementOfSeq
    <3>5. view[w][req[w].intent + 1].grant \in Grants
      BY <3>3, <3>4 DEF Entries
    <3>6. req[w].intent \in -1..MaxEntries
      BY <1>2, <3>1
    <3> QED BY <2>2, <3>5, <3>6
  <2> QED BY <1>1, <2>1, <2>2, RequestKinds
<1>5. /\ Record(w) = [kind |-> req[w].kind, id |-> ids + 1, seq |-> Len(view[w]),
                     epoch |-> epoch[w], grant |-> g, intent |-> n, prev |-> LastHash(view[w])]
  BY DEF Record
<1> HIDE DEF g, n
<1>6. ids + 1 \in 1..MaxEntries /\ Len(view[w]) \in 0..MaxEntries /\ Len(view[w]) < ids + 1
  BY <1>1, <1>2, <1>3
<1>7. Record(w) \in Entries
  BY <1>1, <1>3, <1>4, <1>5, <1>6 DEF Entries
<1> QED BY <1>5, <1>6, <1>7 DEF g

LEMMA WriteInv ==
  ASSUME IInv, NEW w \in Writers, Write(w)
  PROVE  IInv'
<1>1. /\ pc[w] = "writing" /\ file' = Append(file, Record(w)) /\ ids' = ids + 1
      /\ UNCHANGED <<durable, lock, epoch, view, cached, req, acked, spent, rollbacks>>
  BY DEF Write
<1>2. PICK l \in Entries : l = Record(w)
  BY <1>1, RecordSound
<1>3. /\ l.seq < l.id /\ l.id = ids + 1 /\ l.seq = Len(view[w]) /\ l.kind = req[w].kind
      /\ req[w].kind = "intent" => l.grant = req[w].grant
  BY <1>1, <1>2, RecordSound
<1>4. CallSound(w) /\ ViewSound(w) /\ SpentSound(w) /\ Held(w)
  BY DEF IInv, WriterSound
<1>5. ids \in Nat /\ ids < MaxEntries /\ ids' \in 0..MaxEntries /\ ids' \in Nat /\ ids <= ids'
  BY <1>1, <1>4, EvidenceAssumption DEF IInv, HistoryType, CallSound
<1>6. FileType' /\ FileNumbered'
  <2>1. Numbered(l)'
    BY <1>1, <1>3, <1>5 DEF Numbered
  <2> QED BY <1>1, <1>2, <1>5, <2>1, FileGrows
<1>7. HistoryType' /\ WriterType'
  BY <1>1, <1>5 DEF Write, IInv, HistoryType, WriterType, PCs
<1>8. file' # <<>> /\ Last(file') = l
  <2>1. file \in Seq(Entries \cup {Torn})
    BY DEF IInv, FileType
  <2> QED BY <1>1, <1>2, <2>1, AppendProperties, LenProperties DEF Last
<1>9. pc'[w] = "written" /\ \A v \in Writers : v # w => pc'[v] = pc[v]
  BY DEF Write, IInv, WriterType
<1>10. WriterSound(w)'
  <2>1. Held(w)' /\ SpentSound(w)'
    BY <1>1, <1>4, <1>9 DEF Held, SpentSound
  <2>2. ViewSound(w)'
    <3>1. \A i \in DOMAIN view[w] : view[w][i] \in Entries
      BY LenProperties, ElementOfSeq DEF IInv, WriterType
    <3> QED BY <1>1, <1>4, <1>5, <3>1 DEF ViewSound, Numbered, Entries
  <2>3. CallSound(w)'
    BY <1>1, <1>3, <1>4, <1>8, <1>9 DEF CallSound
  <2> QED BY <2>1, <2>2, <2>3 DEF WriterSound
<1>11. lock = w
  BY <1>1, LockOwner
<1> QED BY <1>1, <1>5, <1>6, <1>7, <1>9, <1>10, <1>11, WriterStep

LEMMA FsyncInv ==
  ASSUME IInv, NEW w \in Writers, Fsync(w)
  PROVE  IInv'
<1>0. /\ pc[w] = "written" /\ durable' = Len(file) /\ UNCHANGED <<file, epoch, ids, rollbacks>>
      /\ view' = [view EXCEPT ![w] = Append(view[w], Last(file))]
      /\ cached' = [cached EXCEPT ![w] = cached[w] + 1]
      /\ acked' = acked \cup {Last(file)} /\ lock' = NoOne
      /\ spent' = [spent EXCEPT ![w] = IF req[w].kind = "intent"
                                       THEN Append(spent[w], req[w].grant) ELSE spent[w]]
  BY DEF Fsync
<1>1. CallSound(w) /\ ViewSound(w) /\ SpentSound(w) /\ Held(w) /\ lock = w
  BY <1>0, LockOwner DEF IInv, WriterSound
<1>2. PICK l \in Entries : l = Last(file)
  BY <1>0, <1>1 DEF CallSound
<1>3. /\ l.seq = Len(view[w]) /\ l.kind = req[w].kind /\ req[w] \in Requests
      /\ req[w].kind = "intent" => l.grant = req[w].grant /\ l.grant \notin Consumed(view[w])
  BY <1>0, <1>1, <1>2 DEF CallSound
<1>4. /\ view[w] \in Seq(Entries) /\ Len(view[w]) \in Nat /\ DOMAIN view[w] = 1..Len(view[w])
      /\ file \in Seq(Entries \cup {Torn}) /\ Len(file) \in Nat /\ DOMAIN file = 1..Len(file)
      /\ file # <<>> /\ spent[w] \in Seq(Grants) /\ cached[w] \in Nat
  BY <1>0, <1>1, LenProperties DEF IInv, WriterType, FileType, HistoryType, CallSound
<1>5. Numbered(l)
  <2>1. Len(file) \in DOMAIN file /\ l = file[Len(file)] /\ l # Torn
    BY <1>2, <1>4, EmptySeq DEF Last, Entries, Torn
  <2> QED BY <2>1 DEF IInv, FileNumbered
\* What the writer has in memory grows by the line it wrote.
<1>6. PICK u \in Seq(Entries) : u = Append(view[w], l)
  BY <1>4, AppendProperties
<1>7. /\ Len(u) = Len(view[w]) + 1 /\ DOMAIN u = 1..(Len(view[w]) + 1)
      /\ \A i \in 1..Len(view[w]) : u[i] = view[w][i]
      /\ u[Len(view[w]) + 1] = l
  BY <1>4, <1>6, AppendProperties, LenProperties
<1>8. \A i \in DOMAIN u : i \in DOMAIN view[w] \/ i = Len(view[w]) + 1
  BY <1>4, <1>7
<1>9. Sound(u)
  <2>1. \A i \in DOMAIN u : u[i].seq = i - 1
    <3>1. l.seq = (Len(view[w]) + 1) - 1
      BY <1>3, <1>4
    <3> QED BY <1>1, <1>4, <1>7, <1>8, <3>1 DEF ViewSound, Sound
  <2>2. ASSUME NEW i \in DOMAIN view[w], u[i].kind = "intent", l.kind = "intent", u[i].grant = l.grant
        PROVE  FALSE
    BY <1>3, <1>4, <1>7, <2>2, ConsumedAt
  <2>3. ASSUME NEW i \in DOMAIN u, NEW j \in DOMAIN u,
               u[i].kind = "intent", u[j].kind = "intent", u[i].grant = u[j].grant
        PROVE  i = j
    <3>1. CASE i \in DOMAIN view[w] /\ j \in DOMAIN view[w]
      BY <1>1, <1>4, <1>7, <2>3, <3>1 DEF ViewSound, Sound
    <3>2. CASE i \in DOMAIN view[w] /\ j = Len(view[w]) + 1
      BY <1>7, <2>2, <2>3, <3>2
    <3>3. CASE j \in DOMAIN view[w] /\ i = Len(view[w]) + 1
      BY <1>7, <2>2, <2>3, <3>3
    <3> QED BY <1>8, <2>3, <3>1, <3>2, <3>3
  <2> QED BY <2>1, <2>3 DEF Sound
<1>10. \A i \in DOMAIN u : Numbered(u[i])
  BY <1>1, <1>4, <1>5, <1>7, <1>8 DEF ViewSound
<1>11. /\ view' = [view EXCEPT ![w] = u] /\ view'[w] = u
       /\ WriterType' /\ pc'[w] = "idle" /\ req'[w] = Idle
       /\ cached'[w] = cached[w] + 1
       /\ \A v \in Writers : v # w => /\ view'[v] = view[v] /\ cached'[v] = cached[v]
                                      /\ pc'[v] = pc[v] /\ req'[v] = req[v]
  BY <1>0, <1>2, <1>4, <1>6 DEF Fsync, IInv, WriterType, PCs
<1>12. ViewSound(w)' /\ Held(w)'
  <2>1. ViewSound(w)'
    BY <1>0, <1>9, <1>10, <1>11 DEF ViewSound, Numbered
  <2>2. cached[w] + 1 <= Len(view[w]) + 1
    BY <1>1, <1>4 DEF Held
  <2> QED BY <1>0, <1>7, <1>11, <2>1, <2>2, NoOneAssumption DEF Held
<1>13. Consumed(view[w]) \subseteq Consumed(u) /\ (l.kind = "intent" => l.grant \in Consumed(u))
  <2>1. ASSUME NEW g \in Consumed(view[w]) PROVE g \in Consumed(u)
    <3>1. PICK i \in DOMAIN view[w] : view[w][i].kind = "intent" /\ view[w][i].grant = g
      BY ConsumedAt
    <3>2. i \in DOMAIN u /\ u[i] = view[w][i]
      BY <1>4, <1>7
    <3> QED BY <3>1, <3>2, ConsumedAt
  <2>2. Len(view[w]) + 1 \in DOMAIN u
    BY <1>4, <1>7
  <2> QED BY <1>7, <2>1, <2>2, ConsumedAt
\* A grant given out was not among those given before.
<1>14. /\ SpentSound(w)' /\ spent' \in [Writers -> Seq(Grants)]
       /\ \A v \in Writers : v # w => spent'[v] = spent[v]
  <2>0. spent \in [Writers -> Seq(Grants)] /\ Len(spent[w]) \in Nat /\ DOMAIN spent[w] = 1..Len(spent[w])
    BY <1>4, LenProperties DEF IInv, HistoryType
  <2>1. CASE req[w].kind = "intent"
    <3>1. PICK g \in Grants : g = req[w].grant
      BY <1>3, <2>1, RequestKinds
    <3>2. g \notin Consumed(view[w]) /\ g \in Consumed(u)
      BY <1>3, <1>13, <2>1, <3>1
    <3>3. PICK t \in Seq(Grants) : t = Append(spent[w], g)
      BY <1>4, AppendProperties
    <3>4. /\ DOMAIN t = 1..(Len(spent[w]) + 1) /\ t[Len(spent[w]) + 1] = g
          /\ \A i \in 1..Len(spent[w]) : t[i] = spent[w][i]
      BY <1>4, <3>3, AppendProperties, LenProperties
    <3>5. \A i \in DOMAIN t : i \in DOMAIN spent[w] \/ i = Len(spent[w]) + 1
      BY <2>0, <3>4
    <3>6. \A i \in DOMAIN spent[w] : spent[w][i] \in Consumed(view[w]) /\ t[i] = spent[w][i]
      BY <1>1, <2>0, <3>4 DEF SpentSound
    <3>7. \A i \in DOMAIN t : t[i] \in Consumed(u)
      BY <1>13, <3>2, <3>4, <3>5, <3>6
    <3>8. ASSUME NEW i \in DOMAIN t, NEW j \in DOMAIN t, i # j PROVE t[i] # t[j]
      BY <1>1, <3>2, <3>4, <3>5, <3>6, <3>8 DEF SpentSound
    <3>9. spent' = [spent EXCEPT ![w] = t]
      BY <1>0, <2>1, <3>1, <3>3
    <3>10. spent'[w] = t /\ spent' \in [Writers -> Seq(Grants)]
           /\ \A v \in Writers : v # w => spent'[v] = spent[v]
      BY <2>0, <3>9
    <3> QED BY <1>11, <3>7, <3>8, <3>10 DEF SpentSound
  <2>2. CASE req[w].kind # "intent"
    <3>1. spent' = spent
      BY <1>0, <2>0, <2>2
    <3> QED BY <1>1, <1>11, <1>13, <2>0, <3>1 DEF SpentSound
  <2> QED BY <2>1, <2>2
<1>15. CallSound(w)'
  BY <1>0, <1>1, <1>11 DEF CallSound
<1>16. WriterSound(w)'
  BY <1>12, <1>14, <1>15 DEF WriterSound
<1>17. FileType' /\ FileNumbered'
  BY <1>0, <1>4 DEF IInv, FileType, FileNumbered, Numbered
<1>18. HistoryType' /\ ids <= ids'
  BY <1>0, <1>2, <1>14, EvidenceAssumption DEF IInv, HistoryType
<1>19. \A v \in Writers : v # w => /\ epoch'[v] = epoch[v] /\ ((lock' = v) <=> (lock = v))
  BY <1>0, <1>1, NoOneAssumption
<1> QED BY <1>0, <1>1, <1>11, <1>14, <1>16, <1>17, <1>18, <1>19, WriterStep

\* A prefix of the file, perhaps with a torn line after it.
LEMMA SurvivorsSound ==
  ASSUME NEW S, Torn \in S, NEW f \in Seq(S), NEW n \in 0..Len(f), NEW g \in Survivors(f, n)
  PROVE  /\ g \in Seq(S) /\ Len(g) >= n
         /\ \A i \in DOMAIN g : g[i] = Torn \/ (i \in DOMAIN f /\ g[i] = f[i])
         /\ \A i \in 1..n : i \in DOMAIN g /\ g[i] = f[i]
<1>0. Len(f) \in Nat /\ DOMAIN f = 1..Len(f)
  BY LenProperties
<1>1. PICK k \in n..Len(f) : g \in {SubSeq(f, 1, k), Append(SubSeq(f, 1, k), Torn)}
  <2>1. n..(Len(f) - 1) \subseteq n..Len(f)
    BY <1>0
  <2> QED BY <2>1 DEF Survivors
<1>2. PICK p : p = SubSeq(f, 1, k)
  OBVIOUS
<1>3. /\ p \in Seq(S) /\ Len(p) = k /\ DOMAIN p = 1..k /\ k \in Nat
      /\ \A i \in 1..k : p[i] = f[i]
  <2>1. k \in Nat /\ k <= Len(f) /\ 0 \in Nat /\ 0 <= k
    BY <1>0
  <2>2. /\ SubSeq(f, 0 + 1, k) \in Seq(S) /\ Len(SubSeq(f, 0 + 1, k)) = k - 0
        /\ \A i \in 1..(k - 0) : SubSeq(f, 0 + 1, k)[i] = f[0 + i]
    BY <2>1, Part
  <2>3. p \in Seq(S) /\ Len(p) = k /\ \A i \in 1..k : p[i] = f[i]
    BY <1>2, <2>1, <2>2
  <2> QED BY <2>1, <2>3, LenProperties
<1>4. CASE g = p
  BY <1>0, <1>3, <1>4
<1>5. CASE g = Append(p, Torn)
  <2>1. /\ g \in Seq(S) /\ Len(g) = k + 1 /\ DOMAIN g = 1..(k + 1) /\ g[k + 1] = Torn
        /\ \A i \in 1..k : g[i] = p[i]
    BY <1>3, <1>5, AppendProperties, LenProperties
  <2>2. \A i \in DOMAIN g : g[i] = Torn \/ (i \in DOMAIN f /\ g[i] = f[i])
    <3> SUFFICES ASSUME NEW i \in DOMAIN g PROVE g[i] = Torn \/ (i \in DOMAIN f /\ g[i] = f[i])
      OBVIOUS
    <3>1. i \in 1..k \/ i = k + 1
      BY <1>3, <2>1
    <3>2. i \in 1..k => i \in DOMAIN f
      BY <1>0, <1>3
    <3> QED BY <1>3, <2>1, <3>1, <3>2
  <2>3. \A i \in 1..n : i \in DOMAIN g /\ i \in 1..k
    BY <1>0, <1>3, <2>1
  <2> QED BY <1>0, <1>3, <2>1, <2>2, <2>3
<1> QED BY <1>1, <1>2, <1>4, <1>5

LEMMA PowerLossInv ==
  ASSUME IInv, PowerLoss
  PROVE  IInv'
<1>0. file \in Seq(Entries \cup {Torn}) /\ durable \in 0..Len(file) /\ ids \in Nat
  BY EvidenceAssumption DEF IInv, FileType, HistoryType
<1>1. PICK g \in Survivors(file, durable) : g = file'
  BY DEF PowerLoss
<1>2. /\ g \in Seq(Entries \cup {Torn}) /\ Len(g) \in Nat
      /\ \A i \in DOMAIN g : g[i] = Torn \/ (i \in DOMAIN file /\ g[i] = file[i])
  BY <1>0, SurvivorsSound, LenProperties
<1>3. FileType' /\ FileNumbered'
  BY <1>1, <1>2 DEF PowerLoss, IInv, FileType, FileNumbered, Numbered
<1>4. WriterType'
  BY DEF PowerLoss, WriterType, PCs
<1>5. HistoryType'
  BY DEF PowerLoss, IInv, HistoryType
<1>6. ASSUME NEW w \in Writers
      PROVE  WriterSound(w)'
  <2>1. lock' # w /\ pc'[w] = "closed" /\ view'[w] = <<>> /\ cached'[w] = 0 /\ spent'[w] = <<>>
    BY NoOneAssumption DEF PowerLoss
  <2> QED BY <2>1 DEF WriterSound, Held, ViewSound, Sound, CallSound, SpentSound
<1> QED BY <1>3, <1>4, <1>5, <1>6 DEF IInv

LEMMA RollbackInv ==
  ASSUME IInv, Rollback
  PROVE  IInv'
<1>0. /\ file \in Seq(Entries \cup {Torn}) /\ Len(file) \in Nat /\ DOMAIN file = 1..Len(file)
      /\ lock = NoOne /\ rollbacks < MaxRollbacks
      /\ UNCHANGED <<lock, pc, epoch, view, cached, req, ids, acked, spent>>
      /\ rollbacks' = rollbacks + 1
  BY LenProperties DEF Rollback, IInv, FileType, writerVars
<1>1. PICK n \in 0..(Len(file) - 1) : file' = SubSeq(file, 1, n) /\ durable' = n
  BY DEF Rollback
<1>2. /\ SubSeq(file, 1, n) \in Seq(Entries \cup {Torn}) /\ Len(SubSeq(file, 1, n)) = n
      /\ \A i \in 1..n : SubSeq(file, 1, n)[i] = file[i]
  <2>1. n \in Nat /\ n <= Len(file) /\ 0 \in Nat /\ 0 <= n
    BY <1>0
  <2>2. /\ SubSeq(file, 0 + 1, n) \in Seq(Entries \cup {Torn})
        /\ Len(SubSeq(file, 0 + 1, n)) = n - 0
        /\ \A i \in 1..(n - 0) : SubSeq(file, 0 + 1, n)[i] = file[0 + i]
    BY <1>0, <2>1, Part
  <2> QED BY <2>1, <2>2
<1>3. /\ file' \in Seq(Entries \cup {Torn}) /\ Len(file') = n /\ DOMAIN file' = 1..n
      /\ \A i \in 1..n : file'[i] = file[i] /\ i \in DOMAIN file
  <2>1. file' \in Seq(Entries \cup {Torn}) /\ Len(file') = n /\ \A i \in 1..n : file'[i] = file[i]
    BY <1>1, <1>2
  <2>2. \A i \in 1..n : i \in DOMAIN file
    BY <1>0
  <2> QED BY <2>1, <2>2, LenProperties
<1>4. FileType'
  BY <1>0, <1>1, <1>3 DEF FileType
<1>5. FileNumbered'
  BY <1>0, <1>3 DEF IInv, FileNumbered, Numbered
<1>6. WriterType' /\ HistoryType'
  BY <1>0, EvidenceAssumption DEF IInv, WriterType, HistoryType
<1>7. ASSUME NEW w \in Writers PROVE WriterSound(w)'
  <2>1. pc[w] \notin {"writing", "written"} /\ ids \in Nat
    BY <1>0, LockOwner, EvidenceAssumption DEF IInv, HistoryType
  <2> QED BY <1>0, <2>1, OthersSound
<1> QED BY <1>4, <1>5, <1>6, <1>7 DEF IInv

LEMMA InvStep ==
  ASSUME IInv, [Next]_vars
  PROVE  IInv'
<1>1. CASE WriterNext
  BY <1>1, OpenInv, CallInv, GetHeadInv, SyncPoisonsInv, SyncFailsInv, RefuseInv, AdmitInv,
     SignFailsInv, WriteInv, WriteFailsInv, FsyncInv, FsyncFailsInv, CloseInv, CrashInv
     DEF WriterNext
<1>2. CASE UNCHANGED vars
  <2>1. FileType' /\ WriterType' /\ HistoryType' /\ FileNumbered'
    BY <1>2 DEF vars, chainVars, writerVars, history, IInv, FileType, WriterType, HistoryType,
                FileNumbered, Numbered
  <2>2. ASSUME NEW w \in Writers PROVE WriterSound(w)'
    BY <1>2, OthersSound, EvidenceAssumption
       DEF vars, chainVars, writerVars, history, IInv, HistoryType
  <2> QED BY <2>1, <2>2 DEF IInv
<1> QED BY <1>1, <1>2, PowerLossInv, RollbackInv DEF Next

\* The invariant of the writers holds in every reachable state.
LEMMA WriterInvariant == Spec => []IInv
<1>1. IInv /\ [Next]_vars => IInv'
  BY InvStep
<1> QED BY <1>1, InvInit, PTL DEF Spec

\* Typing: every variable of the chain's model holds a value of its kind, in
\* particular no chain outgrows the number of entries written; and the lock is held
\* exactly by the writer that is between its sync and its fsync.
THEOREM ChainTyping == Spec => []TypeOK
BY WriterInvariant, InvParts, PTL

\* An open writer does not give a grant twice (append_intent under the lock), even
\* when an older chain is put back in place under it.
THEOREM GrantsSpentOnce == Spec => []WriterSpendsOnce
<1>1. IInv => WriterSpendsOnce
  BY DEF IInv, WriterSound, SpentSound, WriterSpendsOnce
<1> QED BY <1>1, WriterInvariant, PTL

-----------------------------------------------------------------------------
(* The file, as long as no older chain is put back.                        *)

\* A sync that finds what it has seen continues it with the next lines of the file.
LEMMA TakenCurrent ==
  ASSUME IInv, NEW w \in Writers, ViewCurrent(w), SeenKept(w),
         NEW n \in 0..Len(New(w)),
         \A i \in 1..n : Valid(view[w] \o SubSeq(New(w), 1, i - 1), New(w)[i]),
         Taken(w, n), UNCHANGED ids
  PROVE  /\ Len(view'[w]) <= Len(file) /\ DOMAIN view'[w] = 1..Len(view'[w])
         /\ \A i \in DOMAIN view'[w] : view'[w][i] = file[i]
         /\ n = Len(New(w)) => Len(view'[w]) = Len(file)
<1>0. /\ Len(view[w]) \in Nat /\ Len(file) \in Nat /\ cached[w] \in Nat /\ cached[w] <= Len(file)
      /\ DOMAIN view[w] = 1..Len(view[w]) /\ cached[w] <= Len(view[w])
      /\ view[w] \in Seq(Entries)
  BY LenProperties DEF SeenKept, IInv, FileType, WriterType, WriterSound, Held
<1>1. /\ Len(New(w)) = Len(file) - cached[w]
      /\ \A i \in 1..Len(New(w)) : New(w)[i] = file[cached[w] + i]
  BY <1>0, NewLines
<1>2. /\ view' \in [Writers -> Seq(Entries)] /\ Len(view'[w]) = Len(view[w]) + n
      /\ \A i \in 1..Len(view[w]) : view'[w][i] = view[w][i]
      /\ \A i \in 1..n : view'[w][Len(view[w]) + i] = New(w)[i]
      /\ \A i \in 1..n : New(w)[i].seq = Len(view[w]) + i - 1
  BY <1>0, TakenSound
<1>3. DOMAIN view'[w] = 1..Len(view'[w]) /\ n \in Nat
  BY <1>0, <1>1, <1>2, LenProperties
\* After a sync that stopped half way the first new line is one already seen, and
\* its number does not fit.
<1>4. CASE Len(view[w]) # cached[w]
  <2>1. cached[w] = 0 /\ Len(view[w]) > 0 /\ Len(New(w)) = Len(file) /\ Len(file) > 0
    BY <1>0, <1>1, <1>4 DEF SeenKept, ViewCurrent
  <2>2. ~ (n >= 1)
    <3> SUFFICES ASSUME n >= 1 PROVE FALSE
      OBVIOUS
    <3>1. 1 \in 1..n /\ 1 \in 1..Len(New(w)) /\ 1 \in DOMAIN view[w]
      BY <1>0, <1>3, <2>1
    <3>2. New(w)[1].seq = Len(view[w]) + 1 - 1 /\ New(w)[1] = file[cached[w] + 1]
      BY <1>1, <1>2, <3>1
    <3>3. view[w][1].seq = 1 - 1 /\ view[w][1] = file[1]
      BY <3>1 DEF IInv, WriterSound, ViewSound, Sound, ViewCurrent
    <3>4. cached[w] + 1 = 1
      BY <2>1
    <3> QED BY <1>0, <2>1, <3>2, <3>3, <3>4
  <2>3. n = 0 /\ n # Len(New(w))
    BY <1>0, <1>3, <2>1, <2>2
  <2>4. Len(view'[w]) = Len(view[w])
    BY <1>0, <1>2, <2>3
  <2> QED BY <1>0, <1>2, <1>3, <2>3, <2>4 DEF ViewCurrent
<1>5. CASE Len(view[w]) = cached[w]
  <2>1. Len(view'[w]) <= Len(file) /\ (n = Len(New(w)) => Len(view'[w]) = Len(file))
    BY <1>0, <1>1, <1>2, <1>3, <1>5
  <2>2. ASSUME NEW i \in 1..Len(view'[w]) PROVE view'[w][i] = file[i]
    <3>1. CASE i <= Len(view[w])
      <4>1. i \in 1..Len(view[w])
        BY <1>0, <3>1
      <4> QED BY <1>0, <1>2, <4>1 DEF ViewCurrent
    <3>2. CASE ~ (i <= Len(view[w]))
      <4>1. PICK k \in 1..n : i = Len(view[w]) + k
        <5>1. i - Len(view[w]) \in 1..n /\ i = Len(view[w]) + (i - Len(view[w]))
          BY <1>0, <1>2, <1>3, <3>2
        <5> QED BY <5>1
      <4>2. k \in 1..Len(New(w))
        BY <1>0, <1>1, <1>3
      <4> QED BY <1>1, <1>2, <1>5, <4>1, <4>2
    <3> QED BY <3>1, <3>2
  <2> QED BY <1>3, <2>1, <2>2
<1> QED BY <1>4, <1>5

\* A writer the step does not touch still has the beginning of the file.
LEMMA CurrentKept ==
  ASSUME IInv, NEW v \in Writers, ViewCurrent(v), pc'[v] = pc[v], view'[v] = view[v],
         pc[v] \in {"writing", "written"} => UNCHANGED file,
         Len(file') \in Nat, Len(file) <= Len(file'), \A i \in DOMAIN file : file'[i] = file[i]
  PROVE  ViewCurrent(v)'
<1>1. /\ Len(view[v]) \in Nat /\ Len(file) \in Nat /\ DOMAIN view[v] = 1..Len(view[v])
      /\ DOMAIN file = 1..Len(file)
  BY LenProperties DEF IInv, FileType, WriterType
<1>2. Len(view'[v]) <= Len(file') /\ \A i \in DOMAIN view'[v] : view'[v][i] = file'[i]
  <2>1. Len(view[v]) <= Len(file) /\ \A i \in DOMAIN view[v] : view[v][i] = file[i]
    BY DEF ViewCurrent
  <2>2. Len(view[v]) <= Len(file') /\ \A i \in DOMAIN view[v] : i \in DOMAIN file
    BY <1>1, <2>1
  <2> QED BY <2>1, <2>2
<1> QED BY <1>2 DEF ViewCurrent

\* A step that leaves the file and what was returned alone, and moves one writer.
LEMMA FileQuiet ==
  ASSUME IInv, FileSound, NEW w \in Writers, UNCHANGED <<file, durable, acked>>,
         \A v \in Writers : v # w => pc'[v] = pc[v] /\ view'[v] = view[v],
         ViewCurrent(w)'
  PROVE  FileSound'
<1>1. Len(file) \in Nat
  BY LenProperties DEF IInv, FileType
<1>2. \A v \in Writers : ViewCurrent(v)'
  BY <1>1, CurrentKept DEF FileSound
<1>3. GrantsApart' /\ AckedDurable'
  BY DEF FileSound, GrantsApart, AckedDurable
<1> QED BY <1>2, <1>3 DEF FileSound

\* One line is appended.
LEMMA AppendedLine ==
  ASSUME IInv, NEW l \in Entries \cup {Torn}, file' = Append(file, l)
  PROVE  /\ Len(file) \in Nat /\ Len(file') = Len(file) + 1 /\ DOMAIN file = 1..Len(file)
         /\ DOMAIN file' = 1..(Len(file) + 1)
         /\ \A i \in DOMAIN file : file'[i] = file[i]
         /\ file'[Len(file) + 1] = l
<1>1. file \in Seq(Entries \cup {Torn})
  BY DEF IInv, FileType
<1>2. Len(file) \in Nat /\ DOMAIN file = 1..Len(file)
  BY <1>1, LenProperties
<1>3. /\ file' \in Seq(Entries \cup {Torn}) /\ Len(file') = Len(file) + 1
      /\ \A i \in 1..Len(file) : file'[i] = file[i]
      /\ file'[Len(file) + 1] = l
  BY <1>1, AppendProperties
<1> QED BY <1>2, <1>3, LenProperties

LEMMA FileAppend ==
  ASSUME IInv, FileSound, NEW w \in Writers, lock = w, UNCHANGED <<durable, acked>>,
         NEW l \in Entries \cup {Torn}, file' = Append(file, l),
         l.kind = "intent" => \A i \in DOMAIN file : file[i].kind = "intent" => file[i].grant # l.grant,
         \A v \in Writers : v # w => pc'[v] = pc[v] /\ view'[v] = view[v],
         ViewCurrent(w)'
  PROVE  FileSound'
<1>1. /\ Len(file) \in Nat /\ Len(file') = Len(file) + 1 /\ DOMAIN file = 1..Len(file)
      /\ DOMAIN file' = 1..(Len(file) + 1)
      /\ \A i \in DOMAIN file : file'[i] = file[i]
      /\ file'[Len(file) + 1] = l
  BY AppendedLine
<1>2. ASSUME NEW v \in Writers, v # w PROVE ViewCurrent(v)'
  <2>1. pc[v] \notin {"writing", "written"}
    BY <1>2, LockOwner
  <2>2. Len(file') \in Nat /\ Len(file) <= Len(file')
    BY <1>1
  <2> QED BY <1>1, <1>2, <2>1, <2>2, CurrentKept DEF FileSound
<1>3. GrantsApart'
  <2>1. \A i \in DOMAIN file' : i \in DOMAIN file \/ i = Len(file) + 1
    BY <1>1
  <2> QED BY <1>1, <2>1 DEF FileSound, GrantsApart
<1>4. AckedDurable'
  <2> SUFFICES ASSUME NEW e \in acked PROVE e.seq < durable /\ file'[e.seq + 1] = e
    BY DEF AckedDurable
  <2>1. e.seq < durable /\ file[e.seq + 1] = e /\ e.seq \in Nat /\ durable \in 0..Len(file)
    BY EvidenceAssumption DEF FileSound, AckedDurable, IInv, HistoryType, FileType, Entries
  <2>2. e.seq + 1 \in DOMAIN file
    BY <1>1, <2>1
  <2> QED BY <1>1, <2>1, <2>2
<1> QED BY <1>2, <1>3, <1>4 DEF FileSound

\* Every step keeps the file, unless it puts an older one back.
LEMMA FileStep ==
  ASSUME IInv, FileInv, [Next]_vars
  PROVE  FileInv'
<1> SUFFICES ASSUME rollbacks' = 0 PROVE FileSound'
  BY DEF FileInv
<1>0. rollbacks = 0 /\ FileSound /\ ~ Rollback
  <2>1. rollbacks \in Nat
    BY EvidenceAssumption DEF IInv, HistoryType
  <2>2. ~ Rollback
    BY <2>1 DEF Rollback
  <2>3. rollbacks' = rollbacks
    BY <2>2 DEF Next, WriterNext, PowerLoss, vars, history, Open, Call, GetHead, SyncPoisons,
       SyncFails, Refuse, Admit, SignFails, Write, WriteFails, Fsync, FsyncFails, Close, Crash,
       Gone, Return
  <2> QED BY <2>2, <2>3 DEF FileInv
<1>1. /\ file \in Seq(Entries \cup {Torn}) /\ Len(file) \in Nat /\ DOMAIN file = 1..Len(file)
      /\ durable \in 0..Len(file)
  BY LenProperties DEF IInv, FileType
<1>2. ASSUME NEW w \in Writers
      PROVE  /\ ViewCurrent(w) /\ Len(view[w]) \in Nat /\ DOMAIN view[w] = 1..Len(view[w])
             /\ view[w] \in Seq(Entries)
  BY <1>0, LenProperties DEF IInv, WriterType, FileSound
<1>3. ASSUME NEW w \in Writers, NEW e \in Epochs, Open(w, e) PROVE FileSound'
  <2>1. /\ UNCHANGED <<file, durable, acked>> /\ pc'[w] = "idle" /\ view'[w] = file
        /\ \A v \in Writers : v # w => pc'[v] = pc[v] /\ view'[v] = view[v]
    BY <1>3 DEF Open, IInv, WriterType, chainVars, history
  <2>2. ViewCurrent(w)'
    BY <1>1, <2>1 DEF ViewCurrent
  <2> QED BY <1>0, <2>1, <2>2, FileQuiet
<1>4. ASSUME NEW w \in Writers, Close(w) PROVE FileSound'
  <2>1. /\ UNCHANGED <<file, durable, acked>> /\ pc'[w] = "closed" /\ view'[w] = <<>>
        /\ \A v \in Writers : v # w => pc'[v] = pc[v] /\ view'[v] = view[v]
    BY <1>4 DEF Close, Gone, IInv, WriterType
  <2>2. ViewCurrent(w)'
    BY <1>1, <2>1 DEF ViewCurrent
  <2> QED BY <1>0, <2>1, <2>2, FileQuiet
<1>5. ASSUME NEW w \in Writers, Crash(w) PROVE FileSound'
  <2>1. /\ UNCHANGED <<durable, acked>> /\ pc'[w] = "closed" /\ view'[w] = <<>>
        /\ \A v \in Writers : v # w => pc'[v] = pc[v] /\ view'[v] = view[v]
    BY <1>5 DEF Crash, Gone, IInv, WriterType
  <2>2. CASE UNCHANGED file
    <3>1. ViewCurrent(w)'
      BY <1>1, <2>1, <2>2 DEF ViewCurrent
    <3> QED BY <1>0, <2>1, <2>2, <3>1, FileQuiet
  <2>3. CASE pc[w] = "writing" /\ file' = Append(file, Torn)
    <3>1. lock = w /\ Len(file') \in Nat
      BY <2>3, LockOwner, AppendedLine
    <3>2. ViewCurrent(w)'
      BY <2>1, <3>1 DEF ViewCurrent
    <3>3. Torn.kind # "intent"
      BY DEF Torn
    <3> QED BY <1>0, <2>1, <2>3, <3>1, <3>2, <3>3, FileAppend
  <2> QED BY <1>5, <2>2, <2>3 DEF Crash
<1>6. ASSUME NEW w \in Writers, NEW r \in Requests, Call(w, r) PROVE FileSound'
  <2>1. /\ UNCHANGED <<file, durable, acked, view>> /\ pc'[w] = "waiting"
        /\ \A v \in Writers : v # w => pc'[v] = pc[v]
    BY <1>6 DEF Call, IInv, WriterType, chainVars, history
  <2>2. ViewCurrent(w)'
    BY <1>2, <2>1 DEF ViewCurrent
  <2> QED BY <1>0, <2>1, <2>2, FileQuiet
<1>7. ASSUME NEW w \in Writers, SyncPoisons(w) \/ SignFails(w) \/ FsyncFails(w) PROVE FileSound'
  <2>1. /\ UNCHANGED <<file, durable, acked, view>> /\ pc'[w] \in {"idle", "poisoned"}
        /\ \A v \in Writers : v # w => pc'[v] = pc[v]
    BY <1>7 DEF SyncPoisons, SignFails, FsyncFails, Return, IInv, WriterType
  <2>2. ViewCurrent(w)'
    BY <1>2, <2>1 DEF ViewCurrent
  <2> QED BY <1>0, <2>1, <2>2, FileQuiet
<1>8. ASSUME NEW w \in Writers, SyncFails(w) PROVE FileSound'
  <2>1. /\ UNCHANGED <<file, durable, acked, ids>> /\ pc'[w] \in {"idle", "poisoned"}
        /\ \A v \in Writers : v # w => pc'[v] = pc[v]
        /\ SeenKept(w)
    BY <1>8 DEF SyncFails, Return, IInv, WriterType
  <2>2. \A v \in Writers : v # w => view'[v] = view[v]
    BY <1>8, FailedTakes DEF Taken, IInv, WriterType
  <2>3. /\ Len(view'[w]) <= Len(file) /\ DOMAIN view'[w] = 1..Len(view'[w])
        /\ \A i \in DOMAIN view'[w] : view'[w][i] = file[i]
    BY <1>2, <1>8, <2>1, FailedTakes, TakenCurrent
  <2>4. ViewCurrent(w)'
    BY <2>1, <2>3 DEF ViewCurrent
  <2> QED BY <1>0, <2>1, <2>2, <2>4, FileQuiet
<1>9. ASSUME NEW w \in Writers, Refuse(w) \/ GetHead(w) \/ Admit(w) PROVE FileSound'
  <2>1. /\ UNCHANGED <<file, durable, acked, ids>> /\ pc'[w] \in {"idle", "writing"}
        /\ \A v \in Writers : v # w => pc'[v] = pc[v]
        /\ Synced(w) /\ SeenKept(w)
    BY <1>9 DEF Refuse, GetHead, Admit, Synced, Return, IInv, WriterType, chainVars, history
  <2>2. \A v \in Writers : v # w => view'[v] = view[v]
    BY <2>1 DEF Synced, Taken, IInv, WriterType
  <2>3. /\ Len(view'[w]) = Len(file) /\ DOMAIN view'[w] = 1..Len(view'[w])
        /\ \A i \in DOMAIN view'[w] : view'[w][i] = file[i]
    BY <1>2, <2>1, SyncedTakes, TakenCurrent
  <2>4. ViewCurrent(w)'
    <3>1. Len(view'[w]) <= Len(file')
      BY <1>1, <2>1, <2>3
    <3> QED BY <2>1, <2>3, <3>1 DEF ViewCurrent
  <2> QED BY <1>0, <2>1, <2>2, <2>4, FileQuiet
<1>10. ASSUME NEW w \in Writers, Write(w) PROVE FileSound'
  <2>1. /\ UNCHANGED <<durable, acked, view>> /\ pc[w] = "writing" /\ pc'[w] = "written"
        /\ file' = Append(file, Record(w))
        /\ \A v \in Writers : v # w => pc'[v] = pc[v]
    BY <1>10 DEF Write, IInv, WriterType
  <2>2. PICK l \in Entries : l = Record(w)
    BY <2>1, RecordSound
  <2>3. lock = w
    BY <2>1, LockOwner
  \* The writer has checked the grant against all of the file.
  <2>4. ASSUME l.kind = "intent", NEW i \in DOMAIN file, file[i].kind = "intent"
        PROVE  file[i].grant # l.grant
    <3>1. l.grant \notin Consumed(view[w])
      BY <2>1, <2>2, <2>4, RecordSound DEF IInv, WriterSound, CallSound
    <3>2. i \in DOMAIN view[w] /\ view[w][i] = file[i]
      BY <1>1, <1>2, <2>1 DEF ViewCurrent
    <3> QED BY <2>4, <3>1, <3>2, ConsumedAt
  <2>5. ViewCurrent(w)'
    <3>1. /\ Len(file') = Len(file) + 1 /\ \A i \in DOMAIN file : file'[i] = file[i]
      BY <2>1, <2>2, AppendedLine
    <3>2. Len(view[w]) = Len(file) /\ \A i \in DOMAIN view[w] : view[w][i] = file[i]
      BY <1>2, <2>1 DEF ViewCurrent
    <3>3. \A i \in DOMAIN view[w] : i \in DOMAIN file
      BY <1>1, <1>2, <3>2
    <3>4. Len(view[w]) <= Len(file') /\ Len(view[w]) + 1 = Len(file')
      BY <1>1, <3>1, <3>2
    <3> QED BY <2>1, <3>1, <3>2, <3>3, <3>4 DEF ViewCurrent
  <2> QED BY <1>0, <2>1, <2>2, <2>3, <2>4, <2>5, FileAppend
<1>11. ASSUME NEW w \in Writers, WriteFails(w) PROVE FileSound'
  <2>1. /\ UNCHANGED <<durable, acked, view>> /\ pc[w] = "writing" /\ pc'[w] = "poisoned"
        /\ file' \in {file, Append(file, Torn)}
        /\ \A v \in Writers : v # w => pc'[v] = pc[v]
    BY <1>11 DEF WriteFails, Return, IInv, WriterType
  <2>2. CASE UNCHANGED file
    <3>1. ViewCurrent(w)'
      BY <1>2, <2>1, <2>2 DEF ViewCurrent
    <3> QED BY <1>0, <2>1, <2>2, <3>1, FileQuiet
  <2>3. CASE file' = Append(file, Torn)
    <3>1. /\ Len(file') = Len(file) + 1 /\ \A i \in DOMAIN file : file'[i] = file[i]
      BY <2>3, AppendedLine
    <3>2. Len(view[w]) <= Len(file) /\ \A i \in DOMAIN view[w] : view[w][i] = file[i]
      BY <1>2, <2>1 DEF ViewCurrent
    <3>3. \A i \in DOMAIN view[w] : i \in DOMAIN file
      BY <1>1, <1>2, <3>2
    <3>4. Len(view[w]) <= Len(file')
      BY <1>1, <1>2, <3>1, <3>2
    <3>5. ViewCurrent(w)'
      BY <2>1, <3>1, <3>2, <3>3, <3>4 DEF ViewCurrent
    <3>6. Torn.kind # "intent" /\ lock = w
      BY <2>1, LockOwner DEF Torn
    <3> QED BY <1>0, <2>1, <2>3, <3>5, <3>6, FileAppend
  <2> QED BY <2>1, <2>2, <2>3
<1>12. ASSUME NEW w \in Writers, Fsync(w) PROVE FileSound'
  <2>1. /\ UNCHANGED file /\ durable' = Len(file) /\ pc[w] = "written" /\ pc'[w] = "idle"
        /\ acked' = acked \cup {Last(file)} /\ view'[w] = Append(view[w], Last(file))
        /\ \A v \in Writers : v # w => pc'[v] = pc[v] /\ view'[v] = view[v]
    BY <1>12 DEF Fsync, IInv, WriterType
  <2>2. PICK l \in Entries : l = Last(file) /\ l.seq = Len(view[w])
    BY <2>1 DEF IInv, WriterSound, CallSound
  <2>3. Len(view[w]) + 1 = Len(file) /\ l = file[Len(file)]
    BY <1>2, <2>1, <2>2 DEF ViewCurrent, Last
  <2>9. Len(view[w]) \in Nat /\ Len(file) \in Nat /\ Len(view[w]) + 1 = Len(file)
    BY <1>1, <1>2, <2>3
  <2>4. /\ Len(view'[w]) = Len(file) /\ DOMAIN view'[w] = 1..Len(file)
        /\ \A i \in 1..Len(view[w]) : view'[w][i] = view[w][i]
        /\ view'[w][Len(file)] = l
    <3>1. /\ Len(Append(view[w], l)) = Len(view[w]) + 1 /\ Append(view[w], l) \in Seq(Entries)
          /\ \A i \in 1..Len(view[w]) : Append(view[w], l)[i] = view[w][i]
          /\ Append(view[w], l)[Len(view[w]) + 1] = l
      BY <1>2, AppendProperties
    <3> QED BY <2>1, <2>2, <2>3, <3>1, LenProperties
  <2>5. ViewCurrent(w)'
    <3>1. \A i \in 1..Len(file) : view'[w][i] = file[i]
      <4>1. \A i \in 1..Len(file) : i \in 1..Len(view[w]) \/ i = Len(file)
        BY <2>9
      <4> QED BY <1>2, <2>3, <2>4, <4>1 DEF ViewCurrent
    <3>2. Len(file) <= Len(file)
      BY <2>9
    <3> QED BY <2>1, <2>4, <3>1, <3>2 DEF ViewCurrent
  <2>6. ASSUME NEW v \in Writers, v # w PROVE ViewCurrent(v)'
    BY <1>1, <1>2, <2>1, <2>6, CurrentKept
  <2>7. GrantsApart'
    BY <1>0, <2>1 DEF FileSound, GrantsApart
  <2>8. AckedDurable'
    <3>1. ASSUME NEW e \in acked PROVE e.seq < Len(file) /\ file[e.seq + 1] = e
      <4>1. e.seq < durable /\ file[e.seq + 1] = e /\ e.seq \in Nat
        BY <1>0, EvidenceAssumption DEF FileSound, AckedDurable, IInv, HistoryType, Entries
      <4> QED BY <1>1, <4>1
    <3>2. l.seq < Len(file) /\ file[l.seq + 1] = l
      <4>1. Len(view[w]) < Len(file)
        BY <2>9
      <4> QED BY <2>2, <2>3, <4>1
    <3> QED BY <2>1, <2>2, <3>1, <3>2 DEF AckedDurable
  <2> QED BY <2>5, <2>6, <2>7, <2>8 DEF FileSound
<1>13. CASE PowerLoss
  <2>1. PICK g \in Survivors(file, durable) : g = file'
    BY <1>13 DEF PowerLoss
  <2>2. /\ g \in Seq(Entries \cup {Torn}) /\ Len(g) \in Nat /\ Len(g) >= durable
        /\ \A i \in DOMAIN g : g[i] = Torn \/ (i \in DOMAIN file /\ g[i] = file[i])
        /\ \A i \in 1..durable : i \in DOMAIN g /\ g[i] = file[i]
    BY <1>1, SurvivorsSound, LenProperties
  <2>3. \A w \in Writers : ViewCurrent(w)'
    <3>1. \A w \in Writers : view'[w] = <<>> /\ pc'[w] = "closed"
      BY <1>13 DEF PowerLoss
    <3> QED BY <2>1, <2>2, <3>1 DEF ViewCurrent
  <2>4. GrantsApart'
    BY <1>0, <2>1, <2>2 DEF FileSound, GrantsApart, Torn
  <2>5. AckedDurable'
    <3> SUFFICES ASSUME NEW e \in acked PROVE e.seq < Len(g) /\ g[e.seq + 1] = e
      BY <1>13, <2>1 DEF PowerLoss, AckedDurable
    <3>1. e.seq < durable /\ file[e.seq + 1] = e /\ e.seq \in Nat
      BY <1>0, EvidenceAssumption DEF FileSound, AckedDurable, IInv, HistoryType, Entries
    <3>2. e.seq + 1 \in 1..durable /\ e.seq < Len(g)
      BY <1>1, <2>2, <3>1
    <3> QED BY <2>2, <3>1, <3>2
  <2> QED BY <2>3, <2>4, <2>5 DEF FileSound
<1>14. CASE UNCHANGED vars
  BY <1>0, <1>14 DEF vars, chainVars, writerVars, history, FileSound, ViewCurrent, GrantsApart,
                     AckedDurable
<1> QED
  BY <1>0, <1>3, <1>4, <1>5, <1>6, <1>7, <1>8, <1>9, <1>10, <1>11, <1>12, <1>13, <1>14
     DEF Next, WriterNext

LEMMA FileInit == Init => FileInv
<1> SUFFICES ASSUME Init PROVE FileSound
  BY DEF FileInv
<1> QED BY DEF Init, FileSound, ViewCurrent, GrantsApart, AckedDurable

LEMMA FileInvariant == Spec => []FileInv
<1>1. IInv /\ FileInv /\ [Next]_vars => FileInv'
  BY FileStep
<1> QED BY <1>1, FileInit, WriterInvariant, PTL DEF Spec

\* A record returned to its caller stays where it is (_sign_and_append): no crash
\* and no power loss takes it, unless an older chain is put back.
THEOREM AckedSurvives == Spec => []AckedKept
<1>1. IInv /\ FileInv => AckedKept
  <2> SUFFICES ASSUME IInv, FileInv, rollbacks = 0, NEW e \in acked
               PROVE  e.seq < Len(file) /\ file[e.seq + 1] = e
    BY DEF AckedKept
  <2>1. e.seq < durable /\ file[e.seq + 1] = e /\ e.seq \in Nat
    BY EvidenceAssumption DEF FileInv, FileSound, AckedDurable, IInv, HistoryType, Entries
  <2>2. durable \in 0..Len(file) /\ Len(file) \in Nat
    BY LenProperties DEF IInv, FileType
  <2> QED BY <2>1, <2>2
<1> QED BY <1>1, WriterInvariant, FileInvariant, PTL

\* No two intents returned to callers are for one grant (append_intent), whatever
\* crashes, power losses and failed fsyncs come between and however many writers
\* there are, unless an older chain is put back.
THEOREM GrantSpentOnce == Spec => []SpendOnce
<1>1. IInv /\ FileInv => SpendOnce
  <2> SUFFICES ASSUME IInv, FileInv, rollbacks = 0, NEW d \in acked, NEW e \in acked,
                      d.kind = "intent", e.kind = "intent", d.grant = e.grant
               PROVE  d = e
    BY DEF SpendOnce
  <2>1. /\ d.seq < durable /\ file[d.seq + 1] = d /\ d.seq \in Nat
        /\ e.seq < durable /\ file[e.seq + 1] = e /\ e.seq \in Nat
    BY EvidenceAssumption DEF FileInv, FileSound, AckedDurable, IInv, HistoryType, Entries
  <2>2. durable \in 0..Len(file) /\ Len(file) \in Nat /\ DOMAIN file = 1..Len(file)
    BY LenProperties DEF IInv, FileType
  <2>3. d.seq + 1 \in DOMAIN file /\ e.seq + 1 \in DOMAIN file
    BY <2>1, <2>2
  <2>4. d.seq + 1 = e.seq + 1
    BY <2>1, <2>3 DEF FileInv, FileSound, GrantsApart
  <2> QED BY <2>1, <2>4
<1> QED BY <1>1, WriterInvariant, FileInvariant, PTL

-----------------------------------------------------------------------------
(* The checkpoints.  A hash identifies an entry and, through prev, all that *)
(* comes before it: so a checkpoint's head fixes what it covers.           *)

\* The entries of a file, and those that can be read: the chain's and those the
\* verifier has in hand.
LinesOf(f) == {f[i] : i \in DOMAIN f} \ {Torn}
Known == LinesOf(file) \cup LinesOf(snap.lines)

\* A hash belongs to one entry.
HashesUnique ==
  /\ Known \subseteq Entries /\ \A l \in Known : l.id <= ids
  /\ \A l, m \in Known : l.id = m.id => l = m

Before(hashes, k) == IF k = 1 THEN Genesis ELSE hashes[k - 1]

\* What a checkpoint covers ends at its head, and no entry contradicts it.
Anchor(cp) ==
  /\ cp.count = Len(cp.covers)
  /\ cp.head = IF cp.count = 0 THEN Genesis ELSE cp.covers[cp.count]
  /\ \A k \in DOMAIN cp.covers :
       cp.covers[k] <= ids /\ \A l \in Known : l.id = cp.covers[k] => l.prev = Before(cp.covers, k)

\* A checkpoint that is signed extends the ones in the file.
CandidateSound(s) ==
  spc[s] = "signed" =>
    /\ Anchor(cand[s])
    /\ \A j \in DOMAIN cps :
         Prefix(cps[j].covers, cand[s].covers) /\ cps[j].count < cand[s].count

CpsAnchored == \A j \in DOMAIN cps : cps[j] # Torn => Anchor(cps[j])

HistoryInv ==
  /\ HashesUnique /\ CpsAnchored
  /\ \A s \in Signers : CandidateSound(s)
  /\ OneHistory

CpFileType == cps \in Seq(Checkpoints \cup {Torn}) /\ cpDurable \in 0..Len(cps)
SignerType ==
  /\ spc \in [Signers -> {"idle", "locked", "signed", "written"}]
  /\ cand \in [Signers -> Checkpoints \cup {Torn}]
  /\ cpLock \in Signers \cup {NoOne}
  /\ \A s \in Signers : (cpLock = s) <=> spc[s] # "idle"
\* A signer works from checkpoints that all parse.
AtWork(s) ==
  /\ spc[s] \in {"locked", "signed"} => cps \in Seq(Checkpoints)
  /\ spc[s] = "signed" => cand[s] \in Checkpoints
SnapType == snap \in [lines : Seq(Entries \cup {Torn}), cps : Int]

\* The chain's part of a step of the whole is a step of the chain.
LEMMA ChainStep ==
  ASSUME [CpNext]_allVars
  PROVE  [Next]_vars
BY DEF CpNext, Next, allVars, CpOpen, CpSign, CpRefuse, CpAppend, CpFsync, CpFails, CpDone,
       VerifyRead, VerifyReport, CpPowerLoss

\* Countersigners and verifiers leave the chain alone: with them it is still the chain
\* of EvidenceChain, so what is proved of it above holds in their presence.
THEOREM ChainRefined == CpSpec => Spec
<1>1. CpInit => Init
  BY DEF CpInit
<1>2. [CpNext]_allVars => [Next]_vars
  BY ChainStep
<1> QED BY <1>1, <1>2, PTL DEF CpSpec, Spec

-----------------------------------------------------------------------------
(* Typing of the checkpoints.                                              *)

LEMMA CpTypeParts == CpTypeOK <=> CpFileType /\ SignerType /\ SnapType
BY DEF CpTypeOK, CpFileType, SignerType, SnapType

\* The checkpoint a signer makes of a chain that verifies.
LEMMA CheckpointMade ==
  ASSUME NEW f \in Seq(Entries \cup {Torn}), NEW list \in Seq(Checkpoints), Verified(f)
  PROVE  /\ f \in Seq(Entries)
         /\ Checkpoint(f, list) \in Checkpoints
<1>1. f \in Seq(Entries)
  BY VerifiedSound
<1>2. /\ Len(f) \in Nat /\ Len(list) \in Nat /\ DOMAIN f = 1..Len(f)
      /\ \A i \in DOMAIN f : f[i] \in Entries
  BY <1>1, LenProperties, ElementOfSeq
<1>3. \A i \in DOMAIN f : f[i].id \in Nat /\ f[i].epoch \in Nat
  <2>1. \A e \in Entries : e.id \in 1..MaxEntries /\ e.epoch \in Epochs
    BY DEF Entries
  <2>2. \A n \in 1..MaxEntries : n \in Nat
    BY EvidenceAssumption
  <2> QED BY <1>2, <2>1, <2>2, EvidenceAssumption
<1>4. LastHash(f) \in Nat /\ (IF f = <<>> THEN 0 ELSE LastEpoch(f)) \in Nat
  <2>1. CASE f = <<>>
    BY <2>1 DEF LastHash, Genesis
  <2>2. CASE f # <<>>
    <3>1. Len(f) \in DOMAIN f
      BY <1>1, <1>2, <2>2, EmptySeq
    <3> QED BY <1>3, <2>2, <3>1 DEF LastHash, LastEpoch, Last
  <2> QED BY <2>1, <2>2
<1>5. [i \in DOMAIN f |-> f[i].id] \in Seq(Nat)
  BY <1>2, <1>3, IsASeq
<1>6. (IF list = <<>> THEN <<>> ELSE CpHash(Last(list))) \in {<<>>} \cup (Nat \X Nat \X Nat \X Nat)
  <2>1. CASE list = <<>>
    BY <2>1
  <2>2. CASE list # <<>>
    <3>1. Last(list) \in Checkpoints
      BY <1>2, <2>2, EmptySeq, ElementOfSeq DEF Last
    <3> QED BY <2>2, <3>1 DEF CpHash, Checkpoints
  <2> QED BY <2>1, <2>2
<1> QED BY <1>1, <1>2, <1>4, <1>5, <1>6 DEF Checkpoint, Checkpoints

CpTyped == CpFileType /\ SignerType /\ SnapType /\ \A s \in Signers : AtWork(s)

LEMMA CpTypeInit == CpInit => CpTyped
<1> SUFFICES ASSUME CpInit PROVE CpTyped
  OBVIOUS
<1>1. CpFileType /\ SignerType
  BY SignersAssumption DEF CpInit, CpFileType, SignerType
<1>2. SnapType
  BY DEF CpInit, SnapType, NoSnap
<1>3. \A s \in Signers : AtWork(s)
  BY DEF CpInit, AtWork
<1> QED BY <1>1, <1>2, <1>3 DEF CpTyped

\* Signers work one at a time.
LEMMA OneSigner ==
  ASSUME SignerType, NEW s \in Signers, spc[s] # "idle"
  PROVE  cpLock = s /\ \A t \in Signers : t # s => spc[t] = "idle"
BY DEF SignerType

\* The command ends.
LEMMA CpDoneTypes ==
  ASSUME CpTyped, NEW s \in Signers, spc[s] # "idle", CpDone(s), CpFileType'
  PROVE  CpTyped' /\ \A t \in Signers : spc'[t] = "idle"
<1>1. CpFileType /\ SignerType /\ SnapType
  BY DEF CpTyped
<1>2. /\ spc' \in [Signers -> {"idle", "locked", "signed", "written"}]
      /\ cand' \in [Signers -> Checkpoints \cup {Torn}]
  BY <1>1 DEF CpDone, SignerType
<1>3. cpLock = s /\ cpLock' = NoOne
  BY <1>1, OneSigner DEF CpDone
<1>4. \A t \in Signers : spc'[t] = "idle"
  BY <1>1, OneSigner DEF CpDone, SignerType
<1>5. SignerType'
  BY <1>2, <1>3, <1>4, SignersAssumption DEF SignerType
<1>6. SnapType'
  BY <1>1 DEF CpDone, SnapType
<1>7. \A t \in Signers : AtWork(t)'
  BY <1>4 DEF AtWork
<1> QED BY <1>4, <1>5, <1>6, <1>7 DEF CpTyped

LEMMA CheckpointParses == \A cp \in Checkpoints : cp # Torn
<1> SUFFICES ASSUME NEW cp \in Checkpoints PROVE cp # Torn
  OBVIOUS
<1>1. cp.kind = "checkpoint" /\ Torn.kind = "torn"
  BY DEF Checkpoints, Torn
<1> QED BY <1>1

\* A checkpoint that parses is one.
LEMMA AllParse ==
  ASSUME NEW list \in Seq(Checkpoints \cup {Torn}), \A j \in DOMAIN list : list[j] # Torn
  PROVE  list \in Seq(Checkpoints)
<1>1. Len(list) \in Nat /\ DOMAIN list = 1..Len(list) /\ list = [j \in 1..Len(list) |-> list[j]]
  BY LenProperties
<1>2. \A j \in 1..Len(list) : list[j] \in Checkpoints
  BY <1>1, ElementOfSeq
<1>3. [j \in 1..Len(list) |-> list[j]] \in Seq(Checkpoints)
  BY <1>1, <1>2, IsASeq
<1> QED BY <1>1, <1>3

LEMMA CpTypeStep ==
  ASSUME IInv, CpTyped, [CpNext]_allVars
  PROVE  CpTyped'
<1>0. CpFileType /\ SignerType /\ SnapType /\ \A t \in Signers : AtWork(t)
  BY DEF CpTyped
<1>2. file \in Seq(Entries \cup {Torn})
  BY DEF IInv, FileType
<1>3. cps \in Seq(Checkpoints \cup {Torn}) /\ Len(cps) \in Nat /\ cpDurable \in 0..Len(cps)
  BY <1>0, LenProperties DEF CpFileType
<1>4. CASE UNCHANGED <<cpVars, snap>>
  BY <1>0, <1>4 DEF cpVars, CpTyped, CpFileType, SignerType, SnapType, AtWork
<1>5. ASSUME NEW s \in Signers, CpOpen(s) PROVE CpTyped'
  <2>1. CpFileType' /\ SnapType'
    BY <1>0, <1>5 DEF CpOpen, CpFileType, SnapType
  <2>2. SignerType' /\ spc'[s] = "locked"
    BY <1>0, <1>5, SignersAssumption DEF CpOpen, SignerType
  <2>3. cps' \in Seq(Checkpoints)
    BY <1>3, <1>5, AllParse DEF CpOpen, CpsVerified
  <2>4. ASSUME NEW t \in Signers PROVE AtWork(t)'
    BY <1>0, <1>5, <2>2, <2>3 DEF CpOpen, AtWork, SignerType
  <2> QED BY <2>1, <2>2, <2>4 DEF CpTyped
<1>6. ASSUME NEW s \in Signers, CpSign(s) PROVE CpTyped'
  <2>1. CpFileType' /\ SnapType'
    BY <1>0, <1>6 DEF CpSign, CpFileType, SnapType
  <2>2. PICK c \in Checkpoints : c = Checkpoint(file, cps)
    BY <1>0, <1>2, <1>6, CheckpointMade DEF CpSign, Extends, AtWork
  <2>3. SignerType'
    BY <1>0, <1>6, <2>2 DEF CpSign, SignerType
  <2>4. ASSUME NEW t \in Signers PROVE AtWork(t)'
    BY <1>0, <1>6, <2>2 DEF CpSign, AtWork, SignerType
  <2> QED BY <2>1, <2>3, <2>4 DEF CpTyped
<1>7. ASSUME NEW s \in Signers, CpRefuse(s) PROVE CpTyped'
  <2>1. CpFileType' /\ spc[s] # "idle" /\ CpDone(s)
    BY <1>0, <1>7 DEF CpRefuse, CpFileType
  <2> QED BY <2>1, CpDoneTypes
<1>8. ASSUME NEW s \in Signers, CpAppend(s) PROVE CpTyped'
  <2>1. cand[s] \in Checkpoints /\ cps \in Seq(Checkpoints) /\ spc[s] = "signed"
    BY <1>0, <1>8 DEF CpAppend, AtWork
  <2>2. cps' \in Seq(Checkpoints) /\ Len(cps') = Len(cps) + 1
    BY <1>8, <2>1, AppendProperties DEF CpAppend
  <2>3. cps' \in Seq(Checkpoints \cup {Torn})
    BY <1>3, <1>8, <2>1, AppendProperties DEF CpAppend
  <2>4. CpFileType'
    BY <1>3, <1>8, <2>2, <2>3 DEF CpAppend, CpFileType
  <2>5. SignerType' /\ SnapType'
    BY <1>0, <1>8 DEF CpAppend, SignerType, SnapType
  <2>6. ASSUME NEW t \in Signers PROVE AtWork(t)'
    BY <1>0, <1>8, <2>1, <2>2, OneSigner DEF CpAppend, AtWork, SignerType
  <2> QED BY <2>4, <2>5, <2>6 DEF CpTyped
<1>9. ASSUME NEW s \in Signers, CpFsync(s) PROVE CpTyped'
  <2>1. CpFileType' /\ spc[s] # "idle" /\ CpDone(s)
    BY <1>3, <1>9 DEF CpFsync, CpFileType
  <2> QED BY <2>1, CpDoneTypes
<1>10. ASSUME NEW s \in Signers, CpFails(s) PROVE CpTyped'
  <2>1. cps' = cps \/ cps' = Append(cps, Torn)
    BY <1>10 DEF CpFails
  <2>2. Append(cps, Torn) \in Seq(Checkpoints \cup {Torn}) /\ Len(Append(cps, Torn)) = Len(cps) + 1
    BY <1>3, AppendProperties
  <2>3. CpFileType' /\ spc[s] # "idle" /\ CpDone(s)
    BY <1>3, <1>10, <2>1, <2>2 DEF CpFails, CpFileType
  <2> QED BY <2>3, CpDoneTypes
<1>11. CASE VerifyRead
  <2>1. PICK lines \in {file, Append(file, Torn)} : snap' = [lines |-> lines, cps |-> Len(cps)]
    BY <1>11 DEF VerifyRead
  <2>2. lines \in Seq(Entries \cup {Torn})
    BY <1>2, <2>1, AppendProperties
  <2>3. SnapType'
    BY <1>3, <2>1, <2>2 DEF SnapType
  <2> QED BY <1>0, <1>11, <2>3 DEF VerifyRead, cpVars, CpTyped, CpFileType, SignerType, AtWork
<1>12. CASE VerifyReport
  <2>1. SnapType'
    BY <1>12 DEF VerifyReport, SnapType, NoSnap
  <2> QED BY <1>0, <1>12, <2>1 DEF VerifyReport, cpVars, CpTyped, CpFileType, SignerType, AtWork
<1>13. CASE CpPowerLoss
  <2>1. PICK g \in Survivors(cps, cpDurable) : g = cps'
    BY <1>13 DEF CpPowerLoss
  <2>2. g \in Seq(Checkpoints \cup {Torn}) /\ Len(g) \in Nat
    BY <1>3, SurvivorsSound, LenProperties
  <2>3. CpFileType'
    BY <1>13, <2>1, <2>2 DEF CpPowerLoss, CpFileType
  <2>4. SignerType' /\ \A t \in Signers : AtWork(t)'
    BY <1>13, SignersAssumption DEF CpPowerLoss, SignerType, AtWork
  <2>5. SnapType'
    BY <1>13 DEF CpPowerLoss, SnapType, NoSnap
  <2> QED BY <2>3, <2>4, <2>5 DEF CpTyped
<1> QED BY <1>4, <1>5, <1>6, <1>7, <1>8, <1>9, <1>10, <1>11, <1>12, <1>13
        DEF CpNext, allVars

LEMMA CpTypeInvariant == CpSpec => []CpTyped
<1>1. CpSpec => []IInv
  BY ChainRefined, WriterInvariant, PTL
<1>2. IInv /\ CpTyped /\ [CpNext]_allVars => CpTyped'
  BY CpTypeStep
<1> QED BY <1>1, <1>2, CpTypeInit, PTL DEF CpSpec

\* Typing of the checkpoint file, its signers and the verifier; the file's lock is
\* held exactly by the signer at work.
THEOREM CpTyping == CpSpec => []CpTypeOK
<1>1. CpTyped => CpTypeOK
  BY CpTypeParts DEF CpTyped
<1> QED BY <1>1, CpTypeInvariant, PTL

-----------------------------------------------------------------------------
(* Hashes.                                                                 *)

\* What a step adds to the entries: none, or one with a new hash.
Fresh(K, L) ==
  \/ L \subseteq K /\ ids' = ids
  \/ \E r \in Entries : r.id = ids + 1 /\ ids' = ids + 1 /\ L \subseteq K \cup {r}

\* A torn line is no entry.
LEMMA TornIgnored ==
  ASSUME NEW S, NEW f \in Seq(S), Torn \in S
  PROVE  LinesOf(Append(f, Torn)) = LinesOf(f)
<1>1. Len(f) \in Nat /\ DOMAIN f = 1..Len(f)
  BY LenProperties
<1>2. PICK g : g = Append(f, Torn)
  OBVIOUS
<1>3. /\ DOMAIN g = 1..(Len(f) + 1) /\ g[Len(f) + 1] = Torn
      /\ \A i \in 1..Len(f) : g[i] = f[i]
  BY <1>2, AppendProperties, LenProperties
<1>4. \A i \in DOMAIN g : i \in DOMAIN f \/ i = Len(f) + 1
  BY <1>1, <1>3
<1>5. \A i \in DOMAIN f : i \in DOMAIN g /\ g[i] = f[i]
  BY <1>1, <1>3
<1> QED BY <1>2, <1>3, <1>4, <1>5 DEF LinesOf

LEMMA FileLines ==
  ASSUME IInv, [Next]_vars
  PROVE  Fresh(LinesOf(file), LinesOf(file'))
<1>0. file \in Seq(Entries \cup {Torn}) /\ durable \in 0..Len(file) /\ Len(file) \in Nat
      /\ DOMAIN file = 1..Len(file)
  BY LenProperties DEF IInv, FileType
<1>1. CASE UNCHANGED <<file, ids>>
  BY <1>1 DEF Fresh
<1>2. ASSUME UNCHANGED ids, file' = file \/ file' = Append(file, Torn)
      PROVE  Fresh(LinesOf(file), LinesOf(file'))
  <2>1. LinesOf(Append(file, Torn)) = LinesOf(file)
    BY <1>0, TornIgnored
  <2>2. LinesOf(file') = LinesOf(file)
    BY <1>2, <2>1
  <2> QED BY <1>2, <2>2 DEF Fresh
<1>3. ASSUME NEW w \in Writers, Write(w) PROVE Fresh(LinesOf(file), LinesOf(file'))
  <2>1. PICK r \in Entries : r = Record(w)
    BY <1>3, RecordSound DEF Write
  <2>2. r.id = ids + 1 /\ ids' = ids + 1 /\ file' = Append(file, r)
    BY <1>3, <2>1, RecordSound DEF Write
  <2>3. /\ DOMAIN file' = 1..(Len(file) + 1) /\ \A i \in DOMAIN file : file'[i] = file[i]
        /\ file'[Len(file) + 1] = r
    BY <2>2, AppendedLine
  <2>4. \A i \in DOMAIN file' : i \in DOMAIN file \/ i = Len(file) + 1
    BY <1>0, <2>3
  <2>5. LinesOf(file') \subseteq LinesOf(file) \cup {r}
    BY <2>3, <2>4 DEF LinesOf
  <2> QED BY <2>2, <2>5 DEF Fresh
<1>4. CASE PowerLoss
  <2>1. PICK g \in Survivors(file, durable) : g = file'
    BY <1>4 DEF PowerLoss
  <2>2. \A i \in DOMAIN g : g[i] = Torn \/ (i \in DOMAIN file /\ g[i] = file[i])
    BY <1>0, SurvivorsSound
  <2> QED BY <1>4, <2>1, <2>2 DEF PowerLoss, Fresh, LinesOf
<1>5. CASE Rollback
  <2>1. PICK n \in 0..(Len(file) - 1) : file' = SubSeq(file, 1, n)
    BY <1>5 DEF Rollback
  <2>3. file' \in Survivors(file, 0)
    BY <1>0, <2>1 DEF Survivors
  <2>4. PICK g \in Survivors(file, 0) : g = file'
    BY <2>3
  <2>5. \A i \in DOMAIN g : g[i] = Torn \/ (i \in DOMAIN file /\ g[i] = file[i])
    BY <1>0, SurvivorsSound
  <2> QED BY <1>5, <2>4, <2>5 DEF Rollback, Fresh, LinesOf
<1>6. CASE UNCHANGED vars
  BY <1>1, <1>6 DEF vars, chainVars, history
<1>7. ASSUME NEW w \in Writers,
             \/ \E e \in Epochs : Open(w, e)
             \/ \E r \in Requests : Call(w, r)
             \/ GetHead(w) \/ SyncPoisons(w) \/ SyncFails(w) \/ Refuse(w) \/ Admit(w)
             \/ SignFails(w) \/ Fsync(w) \/ FsyncFails(w) \/ Close(w)
      PROVE  UNCHANGED <<file, ids>>
  BY <1>7 DEF Open, Call, GetHead, SyncPoisons, SyncFails, Refuse, Admit, SignFails, Fsync,
              FsyncFails, Close, Gone, Return, chainVars, history
<1>8. ASSUME NEW w \in Writers, WriteFails(w) \/ Crash(w)
      PROVE  UNCHANGED ids /\ (file' = file \/ file' = Append(file, Torn))
  BY <1>8 DEF WriteFails, Crash, Gone, Return
<1>9. CASE WriterNext
  BY <1>1, <1>2, <1>3, <1>7, <1>8, <1>9 DEF WriterNext
<1> QED BY <1>4, <1>5, <1>6, <1>9 DEF Next

LEMMA KnownStep ==
  ASSUME IInv, [CpNext]_allVars
  PROVE  Fresh(Known, Known')
<1>1. Fresh(LinesOf(file), LinesOf(file'))
  BY ChainStep, FileLines
<1>2. file \in Seq(Entries \cup {Torn})
  BY DEF IInv, FileType
<1>3. LinesOf(snap'.lines) \subseteq Known
  <2>1. CASE UNCHANGED snap
    BY <2>1 DEF Known
  <2>2. CASE snap' = NoSnap
    BY <2>2 DEF NoSnap, LinesOf
  <2>3. CASE VerifyRead
    <3>1. snap'.lines = file \/ snap'.lines = Append(file, Torn)
      BY <2>3 DEF VerifyRead
    <3> QED BY <1>2, <3>1, TornIgnored DEF Known
  <2> QED BY <2>1, <2>2, <2>3
          DEF CpNext, allVars, CpOpen, CpSign, CpRefuse, CpAppend, CpFsync, CpFails, CpDone,
              VerifyReport, CpPowerLoss
<1> QED BY <1>1, <1>3 DEF Fresh, Known

\* Hashes stay unique, and no new entry contradicts a checkpoint.
LEMMA UniqueStep ==
  ASSUME IInv, HashesUnique, [CpNext]_allVars
  PROVE  HashesUnique'
<1>1. Fresh(Known, Known')
  BY KnownStep
<1>2. ids \in Nat
  BY EvidenceAssumption DEF IInv, HistoryType
<1>3. \A l \in Known : l.id \in Nat
  BY EvidenceAssumption DEF HashesUnique, Entries
<1>4. CASE Known' \subseteq Known /\ ids' = ids
  BY <1>4 DEF HashesUnique
<1>5. ASSUME NEW r \in Entries, r.id = ids + 1, ids' = ids + 1, Known' \subseteq Known \cup {r}
      PROVE  HashesUnique'
  <2>1. \A l \in Known : l.id <= ids + 1 /\ l.id # r.id
    BY <1>2, <1>3, <1>5 DEF HashesUnique
  <2>2. r.id <= ids + 1
    BY <1>2, <1>5
  <2> QED BY <1>5, <2>1, <2>2 DEF HashesUnique
<1> QED BY <1>1, <1>4, <1>5 DEF Fresh

LEMMA AnchorKept ==
  ASSUME IInv, NEW cp \in Checkpoints, Anchor(cp), [CpNext]_allVars
  PROVE  Anchor(cp)'
<1>1. Fresh(Known, Known')
  BY KnownStep
<1>2. ids \in Nat
  BY EvidenceAssumption DEF IInv, HistoryType
<1>3. \A k \in DOMAIN cp.covers : cp.covers[k] \in Nat
  BY LenProperties, ElementOfSeq DEF Checkpoints
<1>4. CASE Known' \subseteq Known /\ ids' = ids
  BY <1>4 DEF Anchor
<1>5. ASSUME NEW r \in Entries, r.id = ids + 1, ids' = ids + 1, Known' \subseteq Known \cup {r}
      PROVE  Anchor(cp)'
  <2>1. \A k \in DOMAIN cp.covers : cp.covers[k] <= ids + 1 /\ cp.covers[k] # r.id
    BY <1>2, <1>3, <1>5 DEF Anchor
  <2> QED BY <1>5, <2>1 DEF Anchor
<1> QED BY <1>1, <1>4, <1>5 DEF Fresh

\* Lines each of which carries the hash of the one before it.
Chained(f) == \A k \in DOMAIN f : f[k] # Torn /\ f[k].prev = LastHash(SubSeq(f, 1, k - 1))

\* The hash chain: lines that are linked, and that have a checkpoint's head where the
\* checkpoint says it is, contain all that the checkpoint covers.
LEMMA HashChain ==
  ASSUME NEW f \in Seq(Entries \cup {Torn}), LinesOf(f) \subseteq Known, Chained(f),
         NEW cp \in Checkpoints, Anchor(cp),
         cp.count > 0 => cp.count <= Len(f) /\ f[cp.count].id = cp.head
  PROVE  /\ cp.count <= Len(f) /\ Len(cp.covers) = cp.count
         /\ \A k \in 1..cp.count : cp.covers[k] = f[k].id
<1> DEFINE n == cp.count
<1>1. /\ n \in Nat /\ Len(cp.covers) = n /\ DOMAIN cp.covers = 1..n
      /\ Len(f) \in Nat /\ DOMAIN f = 1..Len(f) /\ n <= Len(f)
  <2>1. cp.covers \in Seq(Nat) /\ cp.count \in Nat /\ Len(cp.covers) = cp.count
    BY DEF Checkpoints, Anchor
  <2>2. Len(f) \in Nat /\ DOMAIN f = 1..Len(f)
    BY LenProperties
  <2>3. DOMAIN cp.covers = 1..Len(cp.covers)
    BY <2>1, LenProperties
  <2> QED BY <2>1, <2>2, <2>3
\* The link of a line that is not the first.
<1>2. ASSUME NEW k \in 1..Len(f), k > 1
      PROVE  f[k].prev = f[k - 1].id
  <2>1. k - 1 \in 1..Len(f) /\ k - 1 \in Nat /\ 0 \in Nat /\ 0 <= k - 1 /\ k - 1 <= Len(f)
    BY <1>1, <1>2
  <2>2. /\ SubSeq(f, 0 + 1, k - 1) \in Seq(Entries \cup {Torn})
        /\ Len(SubSeq(f, 0 + 1, k - 1)) = (k - 1) - 0
        /\ \A i \in 1..((k - 1) - 0) : SubSeq(f, 0 + 1, k - 1)[i] = f[0 + i]
    BY <2>1, Part
  <2>3. PICK p : p = SubSeq(f, 1, k - 1)
    OBVIOUS
  <2>4. Len(p) = k - 1 /\ p[k - 1] = f[k - 1] /\ p # <<>>
    <3>1. Len(p) = k - 1 /\ p[k - 1] = f[k - 1]
      BY <1>2, <2>1, <2>2, <2>3
    <3> QED BY <1>2, <3>1
  <2>5. LastHash(p) = f[k - 1].id
    BY <2>4 DEF LastHash, Last
  <2> QED BY <1>1, <2>3, <2>5 DEF Chained
<1>3. ASSUME NEW k \in 1..n, k > 1, f[k].id = cp.covers[k]
      PROVE  f[k - 1].id = cp.covers[k - 1]
  <2>1. k \in DOMAIN f /\ k \in DOMAIN cp.covers /\ k # 1
    BY <1>1, <1>3
  <2>2. f[k] \in Known
    BY <2>1 DEF Chained, LinesOf
  <2>3. f[k].prev = cp.covers[k - 1]
    BY <1>3, <2>1, <2>2 DEF Anchor, Before
  <2> QED BY <1>1, <1>2, <1>3, <2>1, <2>3
<1>4. SUFFICES ASSUME NEW k \in 1..n, cp.covers[k] # f[k].id
               PROVE  FALSE
  BY <1>1
<1> DEFINE T == {d \in Nat : d < n /\ cp.covers[n - d] # f[n - d].id}
<1>5. T # {}
  <2>1. n - k \in Nat /\ n - k < n /\ n - (n - k) = k
    BY <1>1
  <2> QED BY <1>4, <2>1
<1>6. PICK m \in T : \A d \in T : m <= d
  <2>1. T \in SUBSET Nat
    OBVIOUS
  <2> HIDE DEF T
  <2> QED BY <1>5, <2>1, SmallestOf
<1>7. m \in Nat /\ m < n /\ cp.covers[n - m] # f[n - m].id
  BY <1>6
<1>8. m # 0
  <2>1. f[n].id = cp.covers[n]
    BY <1>1, <1>7 DEF Anchor
  <2>2. m = 0 => n - m = n
    BY <1>1
  <2> QED BY <1>7, <2>1, <2>2
<1>9. PICK j \in 1..n : j = n - (m - 1)
  BY <1>1, <1>7, <1>8
<1>10. j > 1 /\ j - 1 = n - m /\ m - 1 \in Nat /\ m - 1 < n
  BY <1>1, <1>7, <1>8, <1>9
<1>11. f[j].id = cp.covers[j]
  <2>1. m - 1 \notin T
    BY <1>6, <1>7, <1>10
  <2> QED BY <1>9, <1>10, <2>1
<1> QED BY <1>3, <1>7, <1>10, <1>11

-----------------------------------------------------------------------------
(* One history.                                                            *)

\* A prefix, by position.
LEMMA PrefixAt ==
  ASSUME NEW S, NEW s \in Seq(S), NEW t \in Seq(S)
  PROVE  Prefix(s, t) <=> Len(s) <= Len(t) /\ \A k \in 1..Len(s) : s[k] = t[k]
<1>1. /\ Len(s) \in Nat /\ Len(t) \in Nat /\ DOMAIN s = 1..Len(s) /\ DOMAIN t = 1..Len(t)
      /\ s = [k \in 1..Len(s) |-> s[k]]
  BY LenProperties
<1>2. SUFFICES ASSUME Len(s) <= Len(t)
               PROVE  s = SubSeq(t, 1, Len(s)) <=> \A k \in 1..Len(s) : s[k] = t[k]
  BY DEF Prefix
<1>3. /\ SubSeq(t, 0 + 1, Len(s)) \in Seq(S) /\ Len(SubSeq(t, 0 + 1, Len(s))) = Len(s) - 0
      /\ \A i \in 1..(Len(s) - 0) : SubSeq(t, 0 + 1, Len(s))[i] = t[0 + i]
  BY <1>1, <1>2, Part
<1>4. PICK u : u = SubSeq(t, 1, Len(s))
  OBVIOUS
<1>5. u \in Seq(S) /\ Len(u) = Len(s) /\ \A i \in 1..Len(s) : u[i] = t[i]
  BY <1>1, <1>3, <1>4
<1>6. u = [k \in 1..Len(s) |-> u[k]]
  BY <1>5, LenProperties
<1> QED BY <1>1, <1>4, <1>5, <1>6

LEMMA PrefixTrans ==
  ASSUME NEW S, NEW s \in Seq(S), NEW t \in Seq(S), NEW u \in Seq(S), Prefix(s, t), Prefix(t, u)
  PROVE  Prefix(s, u)
<1>1. Len(s) \in Nat /\ Len(t) \in Nat /\ Len(u) \in Nat
  BY LenProperties
<1>2. /\ Len(s) <= Len(t) /\ \A k \in 1..Len(s) : s[k] = t[k]
      /\ Len(t) <= Len(u) /\ \A k \in 1..Len(t) : t[k] = u[k]
  BY PrefixAt
<1>3. Len(s) <= Len(u) /\ \A k \in 1..Len(s) : s[k] = u[k]
  BY <1>1, <1>2
<1> QED BY <1>3, PrefixAt

\* The hashes of a chain.
LEMMA HashesOf ==
  ASSUME NEW f \in Seq(Entries)
  PROVE  LET h == [i \in DOMAIN f |-> f[i].id] IN
         h \in Seq(Nat) /\ Len(h) = Len(f) /\ DOMAIN h = 1..Len(f)
<1>1. Len(f) \in Nat /\ DOMAIN f = 1..Len(f) /\ \A i \in DOMAIN f : f[i] \in Entries
  BY LenProperties, ElementOfSeq
<1>2. \A i \in DOMAIN f : f[i].id \in Nat
  <2>1. \A e \in Entries : e.id \in 1..MaxEntries
    BY DEF Entries
  <2>2. \A n \in 1..MaxEntries : n \in Nat
    BY EvidenceAssumption
  <2> QED BY <1>1, <2>1, <2>2
<1>3. [i \in DOMAIN f |-> f[i].id] \in Seq(Nat)
  BY <1>1, <1>2, IsASeq
<1> QED BY <1>1, <1>3, LenProperties

\* A chain that verifies is linked.
LEMMA VerifiedChained ==
  ASSUME NEW f, Verified(f)
  PROVE  Chained(f)
BY DEF Verified, Valid, Linked, Chained

\* A new checkpoint is anchored in the chain it was made of.
LEMMA NewAnchor ==
  ASSUME IInv, HashesUnique, Verified(file), NEW list \in Seq(Checkpoints)
  PROVE  Anchor(Checkpoint(file, list))
<1>1. file \in Seq(Entries) /\ Chained(file)
  BY VerifiedSound, VerifiedChained DEF IInv, FileType
<1>2. PICK cp \in Checkpoints : cp = Checkpoint(file, list)
  BY CheckpointMade DEF IInv, FileType
<1>3. PICK n \in Nat : n = Len(file)
  BY <1>1, LenProperties
<1>4. /\ DOMAIN file = 1..n /\ cp.count = n /\ cp.head = LastHash(file)
      /\ cp.covers = [i \in DOMAIN file |-> file[i].id]
  BY <1>1, <1>2, <1>3, LenProperties DEF Checkpoint
<1>5. /\ Len(cp.covers) = n /\ DOMAIN cp.covers = 1..n
      /\ \A k \in 1..n : cp.covers[k] = file[k].id
  BY <1>1, <1>3, <1>4, HashesOf
<1>6. cp.head = IF n = 0 THEN Genesis ELSE cp.covers[n]
  <2>1. CASE n = 0
    BY <1>1, <1>3, <1>4, <2>1, EmptySeq DEF LastHash
  <2>2. CASE n # 0
    <3>1. file # <<>> /\ n \in 1..n
      BY <1>3, <2>2, EmptySeq
    <3> QED BY <1>3, <1>4, <1>5, <2>2, <3>1 DEF LastHash, Last
  <2> QED BY <2>1, <2>2
<1>7. ASSUME NEW k \in 1..n
      PROVE  /\ cp.covers[k] <= ids
             /\ \A l \in Known : l.id = cp.covers[k] => l.prev = Before(cp.covers, k)
  <2>1. file[k] \in Known /\ file[k].prev = LastHash(SubSeq(file, 1, k - 1))
    BY <1>1, <1>4 DEF Chained, Known, LinesOf
  <2>2. cp.covers[k] <= ids /\ \A l \in Known : l.id = cp.covers[k] => l = file[k]
    BY <1>5, <2>1 DEF HashesUnique
  <2>3. LastHash(SubSeq(file, 1, k - 1)) = Before(cp.covers, k)
    <3>1. k - 1 \in Nat /\ 0 \in Nat /\ 0 <= k - 1 /\ k - 1 <= Len(file)
      BY <1>3
    <3>2. /\ SubSeq(file, 0 + 1, k - 1) \in Seq(Entries)
          /\ Len(SubSeq(file, 0 + 1, k - 1)) = (k - 1) - 0
          /\ \A i \in 1..((k - 1) - 0) : SubSeq(file, 0 + 1, k - 1)[i] = file[0 + i]
      BY <1>1, <3>1, Part
    <3>3. PICK p : p = SubSeq(file, 1, k - 1)
      OBVIOUS
    <3>4. p \in Seq(Entries) /\ Len(p) = k - 1 /\ \A i \in 1..(k - 1) : p[i] = file[i]
      BY <3>1, <3>2, <3>3
    <3>5. CASE k = 1
      <4>1. p = <<>>
        BY <3>3, <3>4, <3>5, EmptySeq
      <4> QED BY <3>3, <3>5, <4>1 DEF LastHash, Before
    <3>6. CASE k # 1
      <4>1. k - 1 \in 1..(k - 1) /\ k - 1 \in 1..n
        BY <3>6
      <4>2. p # <<>>
        BY <3>4, <3>6
      <4> QED BY <1>5, <3>3, <3>4, <3>6, <4>1, <4>2 DEF LastHash, Last, Before
    <3> QED BY <3>5, <3>6
  <2> QED BY <2>1, <2>2, <2>3
<1>8. Anchor(cp)
  BY <1>4, <1>5, <1>6, <1>7 DEF Anchor
<1> QED BY <1>2, <1>8

\* A chain that extends the last checkpoint extends them all.
LEMMA AllExtended ==
  ASSUME IInv, HistoryInv, cps \in Seq(Checkpoints), Extends(file, cps), NEW j \in DOMAIN cps
  PROVE  /\ Prefix(cps[j].covers, Checkpoint(file, cps).covers)
         /\ cps[j].count < Checkpoint(file, cps).count
<1>1. file \in Seq(Entries) /\ Chained(file) /\ file \in Seq(Entries \cup {Torn})
  BY VerifiedSound, VerifiedChained DEF IInv, FileType, Extends
<1>2. PICK cp \in Checkpoints : cp = Checkpoint(file, cps)
  BY <1>1, CheckpointMade DEF Extends
<1>3. PICK n \in Nat : n = Len(cps) /\ n # 0 /\ DOMAIN cps = 1..n
  BY LenProperties
<1>4. PICK last \in Checkpoints : last = cps[n]
  BY <1>3, ElementOfSeq
<1>5. /\ cps # <<>> /\ Len(file) > last.count
      /\ last.count > 0 => file[last.count].id = last.head
  <2>1. cps # <<>>
    BY <1>3, EmptySeq
  <2> QED BY <1>3, <1>4, <2>1 DEF Extends, Last
<1>6. last # Torn /\ Anchor(last) /\ last.count \in Nat /\ last.covers \in Seq(Nat)
  <2>1. last # Torn /\ last.count \in Nat /\ last.covers \in Seq(Nat)
    BY CheckpointParses DEF Checkpoints
  <2>2. n \in DOMAIN cps
    BY <1>3
  <2> QED BY <1>4, <2>1, <2>2 DEF HistoryInv, CpsAnchored
<1>7. /\ cp.covers = [i \in DOMAIN file |-> file[i].id] /\ cp.count = Len(file)
      /\ cp.covers \in Seq(Nat) /\ Len(cp.covers) = Len(file) /\ Len(file) \in Nat
      /\ DOMAIN file = 1..Len(file)
  BY <1>1, <1>2, HashesOf, LenProperties DEF Checkpoint
<1>8. Prefix(last.covers, cp.covers)
  <2>1. last.count <= Len(file)
    BY <1>5, <1>6, <1>7
  <2>2. LinesOf(file) \subseteq Known
    BY DEF Known
  <2>3. Len(last.covers) = last.count /\ \A k \in 1..last.count : last.covers[k] = file[k].id
    BY <1>1, <1>5, <1>6, <2>1, <2>2, HashChain
  <2>4. \A k \in 1..last.count : k \in DOMAIN file
    BY <1>6, <1>7, <2>1
  <2>5. Len(last.covers) <= Len(cp.covers) /\ \A k \in 1..Len(last.covers) : last.covers[k] = cp.covers[k]
    BY <1>7, <2>1, <2>3, <2>4
  <2> QED BY <1>6, <1>7, <2>5, PrefixAt
<1>9. last.count < cp.count
  BY <1>5, <1>6, <1>7
<1>10. CASE j = n
  BY <1>2, <1>4, <1>8, <1>9, <1>10
<1>11. CASE j # n
  <2>1. j < n /\ cps[j] \in Checkpoints
    BY <1>3, <1>11, ElementOfSeq
  <2>2. cps[j] # Torn /\ cps[j].covers \in Seq(Nat) /\ cps[j].count \in Nat
    BY <2>1, CheckpointParses DEF Checkpoints
  <2>3. Prefix(cps[j].covers, last.covers) /\ cps[j].count < last.count
    <3>1. n \in DOMAIN cps
      BY <1>3
    <3> QED BY <1>4, <1>6, <2>1, <2>2, <3>1 DEF HistoryInv, OneHistory
  <2>4. Prefix(cps[j].covers, cp.covers)
    BY <1>6, <1>7, <1>8, <2>2, <2>3, PrefixTrans
  <2>5. cp.count \in Nat
    BY <1>7
  <2>6. cps[j].count < cp.count
    BY <1>6, <1>9, <2>2, <2>3, <2>5
  <2> QED BY <1>2, <2>4, <2>6
<1> QED BY <1>10, <1>11

LEMMA HistoryInit == CpInit => HistoryInv
<1> SUFFICES ASSUME CpInit PROVE HistoryInv
  OBVIOUS
<1>1. Known = {}
  BY DEF CpInit, Init, Known, LinesOf, NoSnap
<1> QED BY <1>1 DEF CpInit, HistoryInv, HashesUnique, CpsAnchored, CandidateSound, OneHistory

\* A step that leaves the checkpoints and the candidates alone, or drops some.
LEMMA HistoryQuiet ==
  ASSUME IInv, CpTyped, HistoryInv, [CpNext]_allVars,
         \A j \in DOMAIN cps' : cps'[j] = Torn \/ (j \in DOMAIN cps /\ cps'[j] = cps[j]),
         \A s \in Signers : spc'[s] = "signed" =>
           spc[s] = "signed" /\ cand'[s] = cand[s] /\ cps' = cps
  PROVE  HistoryInv'
<1>1. HashesUnique'
  BY UniqueStep DEF HistoryInv
<1>2. CpsAnchored'
  <2> SUFFICES ASSUME NEW j \in DOMAIN cps', cps'[j] # Torn PROVE Anchor(cps[j])'
    BY DEF CpsAnchored
  <2>1. j \in DOMAIN cps /\ cps'[j] = cps[j]
    OBVIOUS
  <2>2. PICK cp \in Checkpoints : cp = cps[j]
    BY <2>1, LenProperties, ElementOfSeq DEF CpTyped, CpFileType
  <2>3. Anchor(cp)
    BY <2>1, <2>2 DEF HistoryInv, CpsAnchored
  <2>4. Anchor(cp)'
    BY <2>2, <2>3, AnchorKept
  <2>5. cp = cps'[j]
    BY <2>1, <2>2
  <2> QED BY <2>4, <2>5
<1>3. ASSUME NEW s \in Signers PROVE CandidateSound(s)'
  <2> SUFFICES ASSUME spc'[s] = "signed"
               PROVE  /\ Anchor(cand[s])'
                      /\ \A j \in DOMAIN cps' :
                           /\ Prefix(cps'[j].covers, cand'[s].covers)
                           /\ cps'[j].count < cand'[s].count
    BY DEF CandidateSound
  <2>1. spc[s] = "signed" /\ cand'[s] = cand[s] /\ cps' = cps
    OBVIOUS
  <2>2. PICK cp \in Checkpoints : cp = cand[s]
    BY <2>1 DEF CpTyped, AtWork
  <2>3. Anchor(cp)'
    BY <2>1, <2>2, AnchorKept DEF HistoryInv, CandidateSound
  <2>4. cp = cand'[s]
    BY <2>1, <2>2
  <2>5. Anchor(cand[s])'
    BY <2>3, <2>4
  <2> QED BY <2>1, <2>5 DEF HistoryInv, CandidateSound
<1>4. OneHistory'
  BY DEF HistoryInv, OneHistory
<1> QED BY <1>1, <1>2, <1>3, <1>4 DEF HistoryInv

\* A checkpoint is signed.
LEMMA HistorySign ==
  ASSUME IInv, CpTyped, HistoryInv, NEW s \in Signers, CpSign(s), [CpNext]_allVars
  PROVE  HistoryInv'
<1>1. /\ cps \in Seq(Checkpoints) /\ Extends(file, cps) /\ UNCHANGED <<cps, file, snap, ids>>
      /\ spc[s] = "locked"
  BY DEF CpTyped, AtWork, CpSign, vars, chainVars, history
<1>2. PICK cp \in Checkpoints : cp = Checkpoint(file, cps)
  BY <1>1, CheckpointMade DEF IInv, FileType, Extends
<1>3. Anchor(cp)
  BY <1>1, <1>2, NewAnchor DEF HistoryInv, Extends
<1>4. \A j \in DOMAIN cps : Prefix(cps[j].covers, cp.covers) /\ cps[j].count < cp.count
  BY <1>1, <1>2, AllExtended
<1>5. cand'[s] = cp /\ \A t \in Signers : t # s => spc'[t] = "idle"
  BY <1>1, <1>2, OneSigner DEF CpSign, CpTyped, SignerType
<1>6. Anchor(cp)'
  BY <1>2, <1>3, AnchorKept
<1>7. CandidateSound(s)'
  <2>1. Anchor(cand[s])'
    BY <1>5, <1>6
  <2> QED BY <1>1, <1>4, <1>5, <2>1 DEF CandidateSound
<1>8. ASSUME NEW t \in Signers PROVE CandidateSound(t)'
  BY <1>5, <1>7 DEF CandidateSound
<1>9. HashesUnique' /\ OneHistory'
  BY <1>1, UniqueStep DEF HistoryInv, OneHistory
<1>10. CpsAnchored'
  <2> SUFFICES ASSUME NEW j \in DOMAIN cps PROVE Anchor(cps[j])'
    BY <1>1 DEF CpsAnchored
  <2>1. PICK c \in Checkpoints : c = cps[j]
    BY <1>1, LenProperties, ElementOfSeq
  <2>2. Anchor(c)'
    BY <2>1, AnchorKept, CheckpointParses DEF HistoryInv, CpsAnchored
  <2>3. c = cps'[j]
    BY <1>1, <2>1
  <2> QED BY <2>2, <2>3
<1> QED BY <1>8, <1>9, <1>10 DEF HistoryInv

\* It is appended.
LEMMA HistoryAppend ==
  ASSUME IInv, CpTyped, HistoryInv, NEW s \in Signers, CpAppend(s), [CpNext]_allVars
  PROVE  HistoryInv'
<1>1. /\ cps \in Seq(Checkpoints) /\ spc[s] = "signed" /\ spc'[s] = "written"
      /\ \A t \in Signers : t # s => spc'[t] = "idle"
  BY OneSigner DEF CpTyped, AtWork, CpAppend, SignerType
<1>2. PICK cp \in Checkpoints : cp = cand[s]
  BY <1>1 DEF CpTyped, AtWork
<1>3. PICK n \in Nat : n = Len(cps)
  BY <1>1, LenProperties
<1>4. /\ DOMAIN cps = 1..n /\ DOMAIN cps' = 1..(n + 1) /\ cps'[n + 1] = cp
      /\ \A j \in 1..n : cps'[j] = cps[j]
  <2>1. cps' = Append(cps, cp)
    BY <1>2 DEF CpAppend
  <2>2. /\ cps' \in Seq(Checkpoints) /\ Len(cps') = n + 1 /\ cps'[n + 1] = cp
        /\ \A j \in 1..n : cps'[j] = cps[j]
    BY <1>1, <1>3, <2>1, AppendProperties
  <2> QED BY <1>1, <1>3, <2>2, LenProperties
<1>5. \A j \in DOMAIN cps' : j \in 1..n \/ j = n + 1
  BY <1>3, <1>4
<1>6. Anchor(cp) /\ \A j \in 1..n : Prefix(cps[j].covers, cp.covers) /\ cps[j].count < cp.count
  BY <1>1, <1>2, <1>4 DEF HistoryInv, CandidateSound
<1>7. HashesUnique'
  BY UniqueStep DEF HistoryInv
<1>8. CpsAnchored'
  <2> SUFFICES ASSUME NEW j \in DOMAIN cps' PROVE Anchor(cps[j])'
    BY DEF CpsAnchored
  <2>1. PICK c \in Checkpoints : c = cps'[j] /\ Anchor(c)
    <3>1. CASE j = n + 1
      BY <1>4, <1>6, <3>1
    <3>2. CASE j \in 1..n
      BY <1>1, <1>3, <1>4, <3>2, ElementOfSeq, CheckpointParses DEF HistoryInv, CpsAnchored
    <3> QED BY <1>5, <3>1, <3>2
  <2>2. Anchor(c)'
    BY <2>1, AnchorKept
  <2> QED BY <2>1, <2>2
<1>9. \A t \in Signers : CandidateSound(t)'
  BY <1>1 DEF CandidateSound
<1>10. OneHistory'
  <2> SUFFICES ASSUME NEW i \in DOMAIN cps', NEW j \in DOMAIN cps', i < j,
                      cps'[i] # Torn, cps'[j] # Torn
               PROVE  Prefix(cps'[i].covers, cps'[j].covers) /\ cps'[i].count < cps'[j].count
    BY DEF OneHistory
  <2>1. i \in 1..n
    BY <1>3, <1>4
  <2>2. CASE j = n + 1
    BY <1>4, <1>6, <2>1, <2>2
  <2>3. CASE j \in 1..n
    BY <1>4, <2>1, <2>3 DEF HistoryInv, OneHistory
  <2> QED BY <1>5, <2>2, <2>3
<1> QED BY <1>7, <1>8, <1>9, <1>10 DEF HistoryInv

LEMMA HistoryStep ==
  ASSUME IInv, CpTyped, HistoryInv, [CpNext]_allVars
  PROVE  HistoryInv'
<1>0. /\ cps \in Seq(Checkpoints \cup {Torn}) /\ Len(cps) \in Nat /\ DOMAIN cps = 1..Len(cps)
      /\ cpDurable \in 0..Len(cps) /\ SignerType
  BY LenProperties DEF CpTyped, CpFileType
<1>1. CASE UNCHANGED <<cps, spc, cand>>
  BY <1>1, HistoryQuiet
\* The command is over for every signer.
<1>2. ASSUME \A s \in Signers : spc'[s] = "idle",
             \A j \in DOMAIN cps' : cps'[j] = Torn \/ (j \in DOMAIN cps /\ cps'[j] = cps[j])
      PROVE  HistoryInv'
  BY <1>2, HistoryQuiet
<1>3. ASSUME NEW s \in Signers, spc[s] # "idle", CpDone(s)
      PROVE  \A t \in Signers : spc'[t] = "idle"
  BY <1>0, <1>3, OneSigner DEF CpDone, SignerType
<1>4. ASSUME NEW s \in Signers, CpOpen(s) PROVE HistoryInv'
  <2>1. \A t \in Signers : spc'[t] # "signed"
    BY <1>0, <1>4, SignersAssumption DEF CpOpen, SignerType
  <2> QED BY <1>4, <2>1, HistoryQuiet DEF CpOpen
<1>5. ASSUME NEW s \in Signers, CpRefuse(s) \/ CpFsync(s) PROVE HistoryInv'
  <2>1. spc[s] # "idle" /\ CpDone(s) /\ cps' = cps
    BY <1>5 DEF CpRefuse, CpFsync
  <2> QED BY <1>2, <1>3, <2>1
<1>6. ASSUME NEW s \in Signers, CpFails(s) PROVE HistoryInv'
  <2>1. spc[s] # "idle" /\ CpDone(s) /\ (cps' = cps \/ cps' = Append(cps, Torn))
    BY <1>6 DEF CpFails
  <2>2. CASE cps' = cps
    BY <1>2, <1>3, <2>1, <2>2
  <2>3. CASE cps' = Append(cps, Torn)
    <3>1. /\ DOMAIN cps' = 1..(Len(cps) + 1) /\ cps'[Len(cps) + 1] = Torn
          /\ \A j \in 1..Len(cps) : cps'[j] = cps[j]
      BY <1>0, <2>3, AppendProperties, LenProperties
    <3>2. \A j \in DOMAIN cps' : j \in 1..Len(cps) \/ j = Len(cps) + 1
      BY <1>0, <3>1
    <3>3. \A j \in DOMAIN cps' : cps'[j] = Torn \/ (j \in DOMAIN cps /\ cps'[j] = cps[j])
      BY <1>0, <3>1, <3>2
    <3> QED BY <1>2, <1>3, <2>1, <3>3
  <2> QED BY <2>1, <2>2, <2>3
<1>7. CASE CpPowerLoss
  <2>1. PICK g \in Survivors(cps, cpDurable) : g = cps'
    BY <1>7 DEF CpPowerLoss
  <2>2. \A j \in DOMAIN g : g[j] = Torn \/ (j \in DOMAIN cps /\ g[j] = cps[j])
    BY <1>0, SurvivorsSound
  <2>3. \A t \in Signers : spc'[t] = "idle"
    BY <1>7 DEF CpPowerLoss
  <2> QED BY <1>2, <2>1, <2>2, <2>3
<1>8. CASE (WriterNext \/ Rollback) /\ UNCHANGED <<cpVars, snap>>
  BY <1>1, <1>8 DEF cpVars
<1>9. CASE VerifyRead \/ VerifyReport \/ UNCHANGED allVars
  BY <1>1, <1>9 DEF VerifyRead, VerifyReport, allVars, cpVars
<1> QED BY <1>4, <1>5, <1>6, <1>7, <1>8, <1>9, HistorySign, HistoryAppend DEF CpNext

LEMMA HistoryInvariant == CpSpec => [](IInv /\ CpTyped /\ HistoryInv)
<1>1. CpSpec => []IInv
  BY ChainRefined, WriterInvariant, PTL
<1>2. IInv /\ CpTyped /\ HistoryInv /\ [CpNext]_allVars => HistoryInv'
  BY HistoryStep
<1> QED BY <1>1, <1>2, CpTypeInvariant, HistoryInit, PTL DEF CpSpec

\* The checkpoints of a file tell one history (cmd_checkpoint), for any number of
\* signers and writers, through power losses and restored older chains: each covers
\* all that the ones before it cover, although a signer compares only one head.
THEOREM CheckpointsTellOneHistory == CpSpec => []OneHistory
<1>1. IInv /\ CpTyped /\ HistoryInv => OneHistory
  BY DEF HistoryInv
<1> QED BY <1>1, HistoryInvariant, PTL

\* A verification without errors means that the chain that was read holds everything
\* that any checkpoint covers (verify), though it compares only the heads.
THEOREM PassingMeansIntact == CpSpec => PassMeansIntact
<1>1. ASSUME IInv, CpTyped, HistoryInv, NEW list \in ReadableCps, VerifyReport,
             Errors(snap.lines, list) = {}, NEW j \in DOMAIN list
      PROVE  Prefix(list[j].covers, [i \in DOMAIN snap.lines |-> snap.lines[i].id])
  <2>1. PICK f \in Seq(Entries \cup {Torn}) : f = snap.lines
    BY <1>1 DEF CpTyped, SnapType
  <2>2. /\ \A i \in DOMAIN f : f[i] # Torn
        /\ \A i \in DOMAIN list : list[i] # Torn
    BY <1>1, <2>1 DEF Errors
  <2>3. list # <<>>
    BY <1>1, <2>1, <2>2 DEF Errors
  <2>4. Chained(f)
    BY <1>1, <2>1, <2>2, <2>3 DEF Errors, Chained, Linked
  <2>5. Anchored(f, list[j])
    BY <1>1, <2>1, <2>2, <2>3 DEF Errors
  <2>6. list = cps
    <3>1. cps \in Seq(Checkpoints \cup {Torn})
      BY <1>1 DEF CpTyped, CpFileType
    <3>2. Len(cps) + 1 \in DOMAIN Append(cps, Torn) /\ Append(cps, Torn)[Len(cps) + 1] = Torn
      BY <3>1, AppendProperties, LenProperties
    <3> QED BY <1>1, <2>2, <3>2 DEF ReadableCps
  <2>7. PICK cp \in Checkpoints : cp = list[j]
    BY <1>1, <2>2, <2>6, LenProperties, ElementOfSeq DEF CpTyped, CpFileType
  <2>8. Anchor(cp)
    BY <1>1, <2>6, <2>7, CheckpointParses DEF HistoryInv, CpsAnchored
  <2>9. LinesOf(f) \subseteq Known
    BY <2>1 DEF Known
  <2>10. cp.count > 0 => cp.count <= Len(f) /\ f[cp.count].id = cp.head
    BY <2>5, <2>7 DEF Anchored
  <2>11. /\ cp.count <= Len(f) /\ Len(cp.covers) = cp.count
         /\ \A k \in 1..cp.count : cp.covers[k] = f[k].id
    BY <2>4, <2>8, <2>9, <2>10, HashChain
  <2>12. f \in Seq(Entries)
    <3>1. Len(f) \in Nat /\ DOMAIN f = 1..Len(f) /\ f = [i \in 1..Len(f) |-> f[i]]
      BY LenProperties
    <3>2. \A i \in 1..Len(f) : f[i] \in Entries
      BY <2>2, <3>1, ElementOfSeq
    <3>3. [i \in 1..Len(f) |-> f[i]] \in Seq(Entries)
      BY <3>1, <3>2, IsASeq
    <3> QED BY <3>1, <3>3
  <2>13. PICK h \in Seq(Nat) : h = [i \in DOMAIN f |-> f[i].id] /\ Len(h) = Len(f)
    BY <2>12, HashesOf
  <2>14. cp.covers \in Seq(Nat) /\ cp.count \in Nat /\ Len(f) \in Nat /\ DOMAIN f = 1..Len(f)
    BY LenProperties DEF Checkpoints
  <2>15. \A k \in 1..cp.count : k \in DOMAIN f
    BY <2>11, <2>14
  <2>16. Len(cp.covers) <= Len(h) /\ \A k \in 1..Len(cp.covers) : cp.covers[k] = h[k]
    BY <2>11, <2>13, <2>15
  <2>17. Prefix(cp.covers, h)
    BY <2>14, <2>16, PrefixAt
  <2> QED BY <2>1, <2>7, <2>13, <2>17
<1>2. IInv /\ CpTyped /\ HistoryInv =>
        [\A list \in ReadableCps : VerifyReport /\ Errors(snap.lines, list) = {} =>
           \A j \in DOMAIN list :
             Prefix(list[j].covers, [i \in DOMAIN snap.lines |-> snap.lines[i].id])]_allVars
  BY <1>1
<1> QED BY <1>2, HistoryInvariant, PTL DEF PassMeansIntact
================================================================================
