---------------------------- MODULE Archive_proofs ----------------------------
(***************************************************************************)
(* For any number of rows, runs, failures, crashes and damages: a sealed    *)
(* file that opens is the whole of what was sealed under its header         *)
(* (WhatOpensIsWhole), plaintext that stays on the disk is reported         *)
(* (PlaintextReported), and archive and reset implements the ledger         *)
(* (ImplementsLedger): no row leaves the database before an archive that    *)
(* opens holds it.                                                         *)
(*                                                                         *)
(* The argument follows frames. Whatever is done to the files, every frame  *)
(* in one of them still is a frame of some sealing, or does not open under  *)
(* any key; and a file whose frames all open under one key, in place and up *)
(* to the end mark, has all the frames of that sealing.                     *)
(***************************************************************************)
EXTENDS Archive, FiniteSetTheorems, SequenceTheorems, TLAPS

-----------------------------------------------------------------------------
(* Chunks *)

\* The sequence of a finite set has each of its elements.
LEMMA SetToSeqElements ==
    ASSUME NEW S, IsFiniteSet(S)
    PROVE  /\ Cardinality(S) \in Nat
           /\ SetToSeq(S) \in [1 .. Cardinality(S) -> S]
           /\ \A x \in S : \E i \in 1 .. Cardinality(S) : SetToSeq(S)[i] = x
<1> DEFINE N == Cardinality(S)
           s == SetToSeq(S)
<1>1. N \in Nat /\ ExistsBijection(1 .. N, S)
  BY FS_CardinalityType
<1>2. PICK f \in [1 .. N -> S] : IsInjective(f)
  BY <1>1 DEF ExistsBijection, Bijection, Injection
<1>3. s \in [1 .. N -> S] /\ IsInjective(s)
  BY <1>2 DEF SetToSeq
<1>4. s \in Injection(1 .. N, S)
  BY <1>3 DEF Injection
<1>5. IsFiniteSet(1 .. N) /\ Cardinality(1 .. N) = N
  BY <1>1, FS_Interval
<1>6. s \in Surjection(1 .. N, S)
  BY <1>4, <1>5, FS_Injection
<1>7. QED
  BY <1>1, <1>3, <1>6 DEF Surjection

\* A database is the union of its chunks, of which there is at least one.
LEMMA ChunksWhole ==
    ASSUME NEW rows \in SUBSET Nat, IsFiniteSet(rows)
    PROVE  /\ Chunks(rows) \in Seq(SUBSET Nat)
           /\ Len(Chunks(rows)) \in Nat \ {0}
           /\ DOMAIN Chunks(rows) = 1 .. Len(Chunks(rows))
           /\ \A x : x \in rows <=> \E i \in 1 .. Len(Chunks(rows)) : x \in Chunks(rows)[i]
<1>1. CASE rows = {}
  <2>1. Chunks(rows) = << {} >>
    BY <1>1 DEF Chunks
  <2>2. << {} >> \in Seq(SUBSET Nat) /\ Len(<< {} >>) = 1 /\ DOMAIN << {} >> = 1 .. 1
    OBVIOUS
  <2>3. << {} >>[1] = {}
    OBVIOUS
  <2>4. QED
    <3> HIDE DEF Chunks
    <3> QED BY <1>1, <2>1, <2>2, <2>3
<1>2. CASE rows # {}
  <2> DEFINE N == Cardinality(rows)
             c == Chunks(rows)
  <2>1. /\ N \in Nat /\ SetToSeq(rows) \in [1 .. N -> rows]
        /\ \A x \in rows : \E i \in 1 .. N : SetToSeq(rows)[i] = x
    BY SetToSeqElements
  <2>2. N # 0
    BY <1>2, FS_EmptySet
  <2>3. c = [i \in 1 .. N |-> {SetToSeq(rows)[i]}]
    BY <1>2 DEF Chunks
  <2>4. c \in [1 .. N -> SUBSET Nat]
    <3>1. \A i \in 1 .. N : {SetToSeq(rows)[i]} \in SUBSET Nat
      BY <2>1
    <3>2. QED
      BY <2>3, <3>1
  <2>5. c \in Seq(SUBSET Nat) /\ Len(c) = N /\ DOMAIN c = 1 .. N
    BY <2>1, <2>4
  <2>6. \A i \in 1 .. N : c[i] = {SetToSeq(rows)[i]}
    BY <2>3
  <2>7. \A x : x \in rows <=> \E i \in 1 .. N : x \in c[i]
    <3>1. ASSUME NEW x \in rows PROVE \E i \in 1 .. N : x \in c[i]
      <4>1. PICK i \in 1 .. N : SetToSeq(rows)[i] = x
        BY <2>1
      <4>2. x \in c[i]
        BY <2>6, <4>1
      <4>3. QED
        BY <4>2
    <3>2. ASSUME NEW i \in 1 .. N, NEW x \in c[i] PROVE x \in rows
      BY <2>1, <2>6
    <3>3. QED
      BY <3>1, <3>2
  <2>8. QED
    BY <2>1, <2>2, <2>5, <2>7
<1>3. QED
  BY <1>1, <1>2

-----------------------------------------------------------------------------
(* Frames *)

\* What was sealed so far: key -> the rows and the identity.
Sealings == [rows : SUBSET Nat, of : Nat]
Sealed(h) ==
    /\ h \in [DOMAIN h -> Sealings] /\ DOMAIN h \subseteq Nat \ {0}
    /\ \A k \in DOMAIN h : IsFiniteSet(h[k].rows)

\* A frame that may open is one of the sealing its key names: the chunk of its
\* place, the end mark on the last one only, the header on the first.
Authentic(frame, h) ==
    frame.key # 0 =>
        /\ frame.key \in DOMAIN h
        /\ frame.at \in 1 .. Len(Chunks(h[frame.key].rows))
        /\ frame.data = Chunks(h[frame.key].rows)[frame.at]
        /\ frame.last => frame.at = Len(Chunks(h[frame.key].rows))
        /\ frame.at = 1 => frame.aad = [key |-> frame.key, of |-> h[frame.key].of]

FileAuthentic(file, h) ==
    /\ file.header.key \in DOMAIN h
    /\ \A i \in DOMAIN file.frames : Authentic(file.frames[i], h)

\* A file of authentic frames that opens is the whole of what its header names.
LEMMA OpensWhole ==
    ASSUME NEW h, Sealed(h), NEW file \in File, FileAuthentic(file, h), Unseals(file)
    PROVE  /\ Content(file) = h[file.header.key].rows
           /\ file.header.of = h[file.header.key].of
           /\ Len(file.frames) = Len(Chunks(h[file.header.key].rows))
           /\ \A i \in 1 .. Len(file.frames) :
                 file.frames[i].data = Chunks(h[file.header.key].rows)[i]
<1> DEFINE k == file.header.key
           c == Chunks(h[k].rows)
           n == Len(file.frames)
           d == [i \in DOMAIN file.frames |-> file.frames[i].data]
<1>1. /\ k \in DOMAIN h /\ k # 0 /\ file.header \in Header
      /\ h[k].rows \in SUBSET Nat /\ IsFiniteSet(h[k].rows)
      /\ file.frames \in Seq(SealedFrame)
  BY DEF FileAuthentic, Sealed, Sealings, File
<1>2. n \in Nat \ {0} /\ DOMAIN file.frames = 1 .. n
  BY <1>1 DEF Unseals
<1>3. c \in Seq(SUBSET Nat) /\ Len(c) \in Nat \ {0}
      /\ \A x : x \in h[k].rows <=> \E i \in 1 .. Len(c) : x \in c[i]
  BY <1>1, ChunksWhole
<1>4. ASSUME NEW i \in 1 .. n
      PROVE  /\ i \in 1 .. Len(c) /\ file.frames[i].data = c[i]
             /\ i = n => n = Len(c)
             /\ i = 1 => file.header = [key |-> k, of |-> h[k].of]
  <2>1. /\ file.frames[i].key = k /\ file.frames[i].at = i
        /\ file.frames[i].last = (i = n)
        /\ i = 1 => file.frames[i].aad = file.header
    BY <1>2 DEF Unseals, Opens
  <2>2. Authentic(file.frames[i], h)
    BY <1>2 DEF FileAuthentic
  <2>3. QED
    BY <1>1, <2>1, <2>2 DEF Authentic
<1>5. n = Len(c) /\ file.header.of = h[k].of
  <2>1. 1 \in 1 .. n /\ n \in 1 .. n
    BY <1>2
  <2>2. QED
    BY <1>4, <2>1
<1>6. \A x : x \in Content(file) <=> \E i \in 1 .. n : x \in file.frames[i].data
  <2>1. Content(file) = UNION {d[i] : i \in DOMAIN d}
    BY DEF Content, Rows, ToSet
  <2>2. DOMAIN d = 1 .. n /\ \A i \in 1 .. n : d[i] = file.frames[i].data
    BY <1>2
  <2>3. \A x : x \in UNION {d[i] : i \in DOMAIN d} <=> \E i \in DOMAIN d : x \in d[i]
    BY Zenon
  <2>4. QED
    BY <2>1, <2>2, <2>3
<1>7. \A x : x \in Content(file) <=> x \in h[k].rows
  BY <1>3, <1>4, <1>5, <1>6
<1>8. Content(file) = h[k].rows
  BY <1>7, SetExtensionality
<1>9. QED
  BY <1>4, <1>5, <1>8

\* Frames stay authentic as more is sealed.
LEMMA AuthenticGrows ==
    ASSUME NEW h, NEW g, DOMAIN h \subseteq DOMAIN g, \A k \in DOMAIN h : g[k] = h[k],
           NEW file, FileAuthentic(file, h)
    PROVE  FileAuthentic(file, g)
BY DEF FileAuthentic, Authentic

\* Sealing a database.
LEMMA SealAuthentic ==
    ASSUME NEW h, Sealed(h), NEW header \in Header, header.key \in DOMAIN h,
           h[header.key].of = header.of
    PROVE  LET file == Seal(Chunks(h[header.key].rows), header)
           IN  file \in File /\ file.header = header /\ FileAuthentic(file, h)
<1> DEFINE c == Chunks(h[header.key].rows)
           file == Seal(c, header)
<1>1. h[header.key].rows \in SUBSET Nat /\ IsFiniteSet(h[header.key].rows)
  BY DEF Sealed, Sealings
<1>2. c \in Seq(SUBSET Nat) /\ Len(c) \in Nat \ {0} /\ DOMAIN c = 1 .. Len(c)
  BY <1>1, ChunksWhole
<1>3. /\ file.header = header
      /\ file.frames = [i \in 1 .. Len(c) |-> Frame(c, i, header)]
      /\ file = [header |-> header, frames |-> file.frames]
  BY DEF Seal
<1> HIDE DEF c, file
<1>4. ASSUME NEW i \in 1 .. Len(c)
      PROVE  Frame(c, i, header) \in SealedFrame
  BY <1>2 DEF Frame, SealedFrame, Header
<1>5. file.frames \in [1 .. Len(c) -> SealedFrame]
  BY <1>3, <1>4
<1>6. file.frames \in Seq(SealedFrame)
  BY <1>2, <1>5
<1>7. file \in File
  BY <1>3, <1>6 DEF File
<1>8. ASSUME NEW i \in 1 .. Len(c)
      PROVE  Authentic(Frame(c, i, header), h)
  <2>1. header = [key |-> header.key, of |-> header.of]
    BY DEF Header
  <2>2. QED
    BY <1>2, <2>1 DEF Frame, Authentic, c
<1>9. FileAuthentic(file, h)
  BY <1>3, <1>5, <1>8 DEF FileAuthentic
<1>10. QED
  BY <1>3, <1>7, <1>9 DEF c, file

\* What a new key adds to the sealings.
LEMMA SealingAdded ==
    ASSUME NEW h, Sealed(h), NEW k \in Nat \ {0}, k \notin DOMAIN h,
           NEW e \in Sealings, IsFiniteSet(e.rows)
    PROVE  LET g == Added(h, k, e)
           IN  /\ Sealed(g) /\ DOMAIN g = DOMAIN h \cup {k} /\ g[k] = e
               /\ \A j \in DOMAIN h : g[j] = h[j]
<1> DEFINE g == Added(h, k, e)
<1>1. /\ DOMAIN g = DOMAIN h \cup {k} /\ g[k] = e
      /\ \A j \in DOMAIN h : g[j] = h[j]
  BY DEF Added
<1>2. g = [j \in DOMAIN g |-> g[j]]
  BY DEF Added
<1> HIDE DEF g
<1>3. Sealed(g)
  BY <1>1, <1>2 DEF Sealed
<1>4. QED
  BY <1>1, <1>3 DEF g

\* A file with other frames.
LEMMA FramesReplaced ==
    ASSUME NEW file, NEW header, NEW frames, NEW n,
           file = [header |-> header, frames |-> frames]
    PROVE  [file EXCEPT !.frames = SubSeq(@, 1, n)]
              = [header |-> header, frames |-> SubSeq(frames, 1, n)]
<1> DEFINE cut == SubSeq(frames, 1, n)
<1>1. file.frames = frames
  OBVIOUS
<1>2. [file EXCEPT !.frames = SubSeq(@, 1, n)] = [file EXCEPT !.frames = cut]
  BY <1>1
<1> HIDE DEF cut
<1>3. [file EXCEPT !.frames = cut] = [header |-> header, frames |-> cut]
  OBVIOUS
<1>4. QED
  BY <1>2, <1>3 DEF cut

\* Sealing anew what opens of a file, all of it or a part without its end.
LEMMA TranscodedAuthentic ==
    ASSUME NEW h, Sealed(h), NEW file \in File, FileAuthentic(file, h),
           NEW s \in Nat \ {0}, s \notin DOMAIN h, NEW n \in 0 .. Len(file.frames),
           \/ n < Len(file.frames) /\ \A i \in 1 .. n : Opens(file, i)
           \/ n = Len(file.frames) /\ Unseals(file)
    PROVE  LET copy == Transcoded(file, [key |-> s, of |-> file.header.of])
               part == [copy EXCEPT !.frames = SubSeq(@, 1, n)]
           IN  /\ Len(copy.frames) = Len(file.frames)
               /\ part \in File
               /\ FileAuthentic(part, Added(h, s, h[file.header.key]))
<1> DEFINE k == file.header.key
           header == [key |-> s, of |-> file.header.of]
           copy == Transcoded(file, header)
           part == [copy EXCEPT !.frames = SubSeq(@, 1, n)]
           g == Added(h, s, h[k])
           c == Chunks(h[k].rows)
           len == Len(file.frames)
<1>1. /\ k \in DOMAIN h /\ k # 0 /\ file.header \in Header /\ header \in Header
      /\ h[k] \in Sealings /\ h[k].rows \in SUBSET Nat /\ IsFiniteSet(h[k].rows)
      /\ file.frames \in Seq(SealedFrame)
  BY DEF FileAuthentic, Sealed, Sealings, File, Header
<1>2. len \in Nat /\ DOMAIN file.frames = 1 .. len
  BY <1>1
<1>3. c \in Seq(SUBSET Nat) /\ Len(c) \in Nat \ {0}
  BY <1>1, ChunksWhole
<1>4. DOMAIN g = DOMAIN h \cup {s} /\ g[s] = h[k]
  BY DEF Added
<1> DEFINE d == [i \in 1 .. len |-> file.frames[i].data]
<1>5. d \in Seq(SUBSET Nat) /\ Len(d) = len
  <2>1. \A i \in 1 .. len : file.frames[i].data \in SUBSET Nat
    <3>1. \A i \in 1 .. len : file.frames[i] \in SealedFrame
      BY <1>1, <1>2
    <3>2. QED
      BY <3>1 DEF SealedFrame
  <2>2. d \in [1 .. len -> SUBSET Nat]
    BY <2>1
  <2>3. QED
    BY <1>2, <2>2
<1>6. /\ copy = [header |-> header, frames |-> [i \in 1 .. len |-> Frame(d, i, header)]]
      /\ copy.header = header
      /\ copy.frames = [i \in 1 .. len |-> Frame(d, i, header)]
  BY <1>2, <1>5 DEF Transcoded, Seal
<1>7. ASSUME NEW i \in 1 .. len
      PROVE  Frame(d, i, header) \in SealedFrame
  BY <1>1, <1>2, <1>5 DEF Frame, SealedFrame
<1>8. copy.frames \in [1 .. len -> SealedFrame]
  BY <1>6, <1>7
<1>9. copy.frames \in Seq(SealedFrame) /\ Len(copy.frames) = len
  BY <1>2, <1>8
<1>10. /\ SubSeq(copy.frames, 1, n) \in Seq(SealedFrame)
       /\ Len(SubSeq(copy.frames, 1, n)) = n
       /\ \A i \in 1 .. n : SubSeq(copy.frames, 1, n)[i] = copy.frames[i]
  BY <1>2, <1>9
<1>11. /\ part = [header |-> header, frames |-> SubSeq(copy.frames, 1, n)]
       /\ part.header = header /\ part.frames = SubSeq(copy.frames, 1, n)
  <2> DEFINE frames == [i \in 1 .. len |-> Frame(d, i, header)]
  <2>1. copy = [header |-> header, frames |-> frames] /\ copy.frames = frames
    BY <1>6
  <2> HIDE DEF copy, header, frames
  <2>2. part = [header |-> header, frames |-> SubSeq(frames, 1, n)]
    BY <2>1, FramesReplaced
  <2>3. QED
    BY <2>1, <2>2
<1> HIDE DEF part, copy, g
<1>12. part \in File
  BY <1>1, <1>10, <1>11 DEF File
<1>13. ASSUME NEW i \in 1 .. n
       PROVE  Authentic(Frame(d, i, header), g)
  <2>1. i \in 1 .. len /\ Opens(file, i)
    BY <1>2 DEF Unseals
  <2>2. Authentic(file.frames[i], h)
    BY <1>2, <2>1 DEF FileAuthentic
  <2>3. /\ i \in 1 .. Len(c) /\ d[i] = c[i]
        /\ i = 1 => file.header.of = h[k].of
    BY <1>1, <2>1, <2>2 DEF Opens, Authentic
  <2>4. i = len => i = Len(c)
    <3>1. i = len => n = len /\ Unseals(file)
      BY <1>2
    <3>2. Unseals(file) => len = Len(c)
      BY OpensWhole
    <3>3. QED
      BY <3>1, <3>2
  <2>5. QED
    BY <1>4, <1>5, <2>3, <2>4 DEF Frame, Authentic
<1>14. FileAuthentic(part, g)
  <2>1. part.header.key \in DOMAIN g
    BY <1>4, <1>11
  <2>2. DOMAIN part.frames = 1 .. n
    BY <1>10, <1>11
  <2>3. \A i \in 1 .. n : part.frames[i] = Frame(d, i, header)
    BY <1>2, <1>6, <1>10, <1>11
  <2>4. QED
    BY <1>13, <2>1, <2>2, <2>3 DEF FileAuthentic
<1>15. QED
  BY <1>9, <1>12, <1>14 DEF part, copy, g

\* Damage makes no frame: each one left is one of the files it happened to, or
\* is altered and opens under no key.
LEMMA DamagedAuthentic ==
    ASSUME NEW h, NEW file \in File, NEW other \in File,
           FileAuthentic(file, h), FileAuthentic(other, h), NEW f \in Damaged(file, other)
    PROVE  f \in File /\ FileAuthentic(f, h)
<1> DEFINE s == file.frames
           o == other.frames
           Good(frame) == frame \in SealedFrame /\ Authentic(frame, h)
<1>1. /\ file.header \in Header /\ other.header \in Header
      /\ s \in Seq(SealedFrame) /\ o \in Seq(SealedFrame)
      /\ file = [header |-> file.header, frames |-> s]
  BY DEF File
<1>2. /\ Len(s) \in Nat /\ DOMAIN s = 1 .. Len(s) /\ \A i \in 1 .. Len(s) : Good(s[i])
      /\ Len(o) \in Nat /\ DOMAIN o = 1 .. Len(o) /\ \A i \in 1 .. Len(o) : Good(o[i])
  BY <1>1 DEF FileAuthentic
<1>3. file.header.key \in DOMAIN h /\ other.header.key \in DOMAIN h
  BY DEF FileAuthentic
<1>4. SUFFICES /\ f.header \in Header /\ f.header.key \in DOMAIN h
               /\ f = [header |-> f.header, frames |-> f.frames]
               /\ f.frames \in Seq(SealedFrame)
               /\ \A i \in 1 .. Len(f.frames) : Authentic(f.frames[i], h)
  BY DEF File, FileAuthentic
<1>5. CASE \E n \in 0 .. Len(s) - 1 : f = [file EXCEPT !.frames = SubSeq(@, 1, n)]
  <2>1. PICK n \in 0 .. Len(s) - 1 : f = [file EXCEPT !.frames = SubSeq(@, 1, n)]
    BY <1>5
  <2>2. f.header = file.header /\ f.frames = SubSeq(s, 1, n)
        /\ f = [header |-> file.header, frames |-> f.frames]
    BY <1>1, <2>1
  <2>3. /\ SubSeq(s, 1, n) \in Seq(SealedFrame) /\ Len(SubSeq(s, 1, n)) = n
        /\ \A i \in 1 .. n : SubSeq(s, 1, n)[i] = s[i]
    BY <1>1, <1>2
  <2>4. QED
    BY <1>1, <1>2, <1>3, <2>2, <2>3
<1>6. CASE \E i \in DOMAIN s : f = [file EXCEPT !.frames[i].key = 0]
  <2>1. PICK i \in DOMAIN s : f = [file EXCEPT !.frames[i].key = 0]
    BY <1>6
  <2>2. f.header = file.header /\ f.frames = [s EXCEPT ![i].key = 0]
        /\ f = [header |-> file.header, frames |-> f.frames]
    BY <1>1, <2>1
  <2>3. [s[i] EXCEPT !.key = 0] \in SealedFrame /\ [s[i] EXCEPT !.key = 0].key = 0
    BY <1>2 DEF SealedFrame
  <2>4. /\ f.frames \in Seq(SealedFrame) /\ Len(f.frames) = Len(s)
        /\ \A j \in 1 .. Len(s) : f.frames[j] = IF j = i THEN [s[i] EXCEPT !.key = 0] ELSE s[j]
    BY <1>1, <1>2, <2>2, <2>3
  <2>5. \A j \in 1 .. Len(s) : Authentic(f.frames[j], h)
    <3>1. ASSUME NEW j \in 1 .. Len(s), j # i PROVE Authentic(f.frames[j], h)
      <4>1. f.frames[j] = s[j] /\ Good(s[j])
        BY <1>2, <2>4, <3>1
      <4>2. QED
        BY <4>1
    <3>2. Authentic(f.frames[i], h)
      BY <1>2, <2>3, <2>4 DEF Authentic
    <3>3. QED
      BY <3>1, <3>2
  <2>6. QED
    BY <1>1, <1>3, <2>2, <2>4, <2>5
<1> DEFINE ls == Len(s)
           lo == Len(o)
<1>13. ls \in Nat /\ lo \in Nat
  BY <1>2
<1>7. CASE \E i \in DOMAIN s : f = [file EXCEPT !.frames = RemoveAt(@, i)]
  <2>1. PICK i \in DOMAIN s : f = [file EXCEPT !.frames = RemoveAt(@, i)]
    BY <1>7
  <2> DEFINE before == SubSeq(s, 1, i - 1)
             after == SubSeq(s, i + 1, Len(s))
  <2>2. f.header = file.header /\ f.frames = before \o after
        /\ f = [header |-> file.header, frames |-> f.frames]
    BY <1>1, <2>1 DEF RemoveAt
  <2>3. /\ before \in Seq(SealedFrame) /\ Len(before) = i - 1
        /\ \A j \in 1 .. i - 1 : before[j] = s[j]
    BY <1>1, <1>2
  <2>4. /\ after \in Seq(SealedFrame) /\ Len(after) = Len(s) - i
        /\ \A j \in 1 .. Len(s) - i : after[j] = s[i + j]
    BY <1>1, <1>2
  <2> HIDE DEF before, after
  <2>5. /\ f.frames \in Seq(SealedFrame) /\ Len(f.frames) = Len(s) - 1
        /\ \A j \in 1 .. Len(s) - 1 :
              f.frames[j] = IF j <= i - 1 THEN before[j] ELSE after[j - (i - 1)]
    BY <1>2, <2>2, <2>3, <2>4, SMTT(20)
  <2>8. i \in 1 .. ls
    BY <1>2
  <2>6. ASSUME NEW j \in 1 .. ls - 1 PROVE Good(f.frames[j])
    <3>1. CASE j <= i - 1
      <4>1. j \in 1 .. i - 1 /\ j \in 1 .. ls
        <5> HIDE DEF ls
        <5> QED BY <1>13, <2>8, <3>1
      <4>2. f.frames[j] = s[j]
        BY <2>3, <2>5, <3>1, <4>1
      <4>3. QED
        BY <1>2, <4>1, <4>2
    <3>2. CASE j > i - 1
      <4>1. /\ j - (i - 1) \in 1 .. ls - i /\ ~(j <= i - 1)
            /\ i + (j - (i - 1)) = j + 1 /\ j + 1 \in 1 .. ls
        <5> HIDE DEF ls
        <5> QED BY <1>13, <2>8, <3>2
      <4>2. f.frames[j] = s[j + 1]
        BY <2>4, <2>5, <4>1
      <4>3. QED
        BY <1>2, <4>1, <4>2
    <3>3. j <= i - 1 \/ j > i - 1
      <4> HIDE DEF ls
      <4> QED BY <1>13, <2>8
    <3>4. QED
      BY <3>1, <3>2, <3>3
  <2>7. QED
    BY <1>1, <1>2, <1>3, <2>2, <2>5, <2>6
<1>8. CASE f = [file EXCEPT !.frames = Reverse(@)]
  <2>1. f.header = file.header /\ f.frames = Reverse(s)
        /\ f = [header |-> file.header, frames |-> f.frames]
    BY <1>1, <1>8
  <2>2. \A i \in 1 .. Len(s) : Len(s) - i + 1 \in 1 .. Len(s)
    BY <1>2
  <2>3. /\ Reverse(s) \in Seq(SealedFrame) /\ Len(Reverse(s)) = Len(s)
        /\ \A i \in 1 .. Len(s) : Reverse(s)[i] = s[Len(s) - i + 1]
    <3>1. Reverse(s) = [i \in 1 .. Len(s) |-> s[Len(s) - i + 1]]
      BY DEF Reverse
    <3>2. Reverse(s) \in [1 .. Len(s) -> SealedFrame]
      BY <1>2, <2>2, <3>1
    <3>3. QED
      BY <1>2, <3>1, <3>2
  <2>4. QED
    BY <1>1, <1>2, <1>3, <2>1, <2>2, <2>3
<1>9. CASE \E i \in DOMAIN s, j \in DOMAIN o : f = [file EXCEPT !.frames[i] = o[j]]
  <2>1. PICK i \in DOMAIN s, j \in DOMAIN o : f = [file EXCEPT !.frames[i] = o[j]]
    BY <1>9
  <2>2. f.header = file.header /\ f.frames = [s EXCEPT ![i] = o[j]]
        /\ f = [header |-> file.header, frames |-> f.frames]
    BY <1>1, <2>1
  <2>3. /\ f.frames \in Seq(SealedFrame) /\ Len(f.frames) = Len(s)
        /\ \A m \in 1 .. Len(s) : f.frames[m] = IF m = i THEN o[j] ELSE s[m]
    BY <1>1, <1>2, <2>2
  <2>4. QED
    BY <1>1, <1>2, <1>3, <2>2, <2>3
<1>10. CASE f = [file EXCEPT !.frames = @ \o o]
  <2>1. f.header = file.header /\ f.frames = s \o o
        /\ f = [header |-> file.header, frames |-> f.frames]
    BY <1>1, <1>10
  <2>2. /\ s \o o \in Seq(SealedFrame) /\ Len(s \o o) = Len(s) + Len(o)
        /\ \A i \in 1 .. Len(s) + Len(o) :
              (s \o o)[i] = IF i <= Len(s) THEN s[i] ELSE o[i - Len(s)]
    BY <1>1, <1>2
  <2>3. ASSUME NEW i \in 1 .. ls + lo PROVE Authentic((s \o o)[i], h)
    <3>1. CASE i <= ls
      <4>1. i \in 1 .. ls
        <5> HIDE DEF ls, lo
        <5> QED BY <1>13, <3>1
      <4>2. QED
        BY <1>2, <2>2, <3>1, <4>1
    <3>2. CASE i > ls
      <4>1. i - ls \in 1 .. lo /\ ~(i <= ls)
        <5> HIDE DEF ls, lo
        <5> QED BY <1>13, <3>2
      <4>2. (s \o o)[i] = o[i - ls]
        BY <2>2, <4>1
      <4>3. QED
        BY <1>2, <4>1, <4>2
    <3>3. i <= ls \/ i > ls
      <4> HIDE DEF ls, lo
      <4> QED BY <1>13
    <3>4. QED
      BY <3>1, <3>2, <3>3
  <2>4. QED
    BY <1>1, <1>3, <2>1, <2>2, <2>3
<1>11. CASE f = [file EXCEPT !.header = other.header]
  BY <1>1, <1>2, <1>3, <1>11
<1>12. CASE f = [file EXCEPT !.header.of = 0]
  <2>1. f.header = [file.header EXCEPT !.of = 0] /\ f.frames = s
        /\ f = [header |-> f.header, frames |-> f.frames]
    BY <1>1, <1>12
  <2>2. f.header \in Header /\ f.header.key = file.header.key
    BY <1>1, <2>1 DEF Header
  <2>3. QED
    BY <1>1, <1>2, <1>3, <2>1, <2>2
<1> DEFINE Cut == {[file EXCEPT !.frames = SubSeq(@, 1, n)] : n \in 0 .. Len(s) - 1}
           Altered == {[file EXCEPT !.frames[i].key = 0] : i \in DOMAIN s}
           Missing == {[file EXCEPT !.frames = RemoveAt(@, i)] : i \in DOMAIN s}
           Spliced == {[file EXCEPT !.frames[i] = o[j]] : i \in DOMAIN s, j \in DOMAIN o}
<1>14. f \in Cut \/ f \in Altered \/ f \in Missing \/ f \in Spliced
       \/ f = [file EXCEPT !.frames = Reverse(@)]
       \/ f = [file EXCEPT !.frames = @ \o o]
       \/ f = [file EXCEPT !.header = other.header]
       \/ f = [file EXCEPT !.header.of = 0]
  <2> DEFINE Turned == [file EXCEPT !.frames = Reverse(@)]
             Joined == [file EXCEPT !.frames = @ \o o]
             Swapped == [file EXCEPT !.header = other.header]
             Renamed == [file EXCEPT !.header.of = 0]
  <2>1. Damaged(file, other) = Cut \cup Altered \cup Missing \cup {Turned} \cup Spliced
                                  \cup {Joined, Swapped, Renamed}
    BY DEF Damaged
  <2> HIDE DEF Cut, Altered, Missing, Spliced, Turned, Joined, Swapped, Renamed
  <2>2. f \in Cut \/ f \in Altered \/ f \in Missing \/ f \in Spliced
        \/ f = Turned \/ f = Joined \/ f = Swapped \/ f = Renamed
    BY <2>1
  <2>3. QED
    BY <2>2 DEF Turned, Joined, Swapped, Renamed
<1>15. f \in Cut => \E n \in 0 .. Len(s) - 1 : f = [file EXCEPT !.frames = SubSeq(@, 1, n)]
  BY Zenon
<1>16. f \in Altered => \E i \in DOMAIN s : f = [file EXCEPT !.frames[i].key = 0]
  BY Zenon
<1>17. f \in Missing => \E i \in DOMAIN s : f = [file EXCEPT !.frames = RemoveAt(@, i)]
  BY Zenon
<1>18. f \in Spliced => \E i \in DOMAIN s, j \in DOMAIN o : f = [file EXCEPT !.frames[i] = o[j]]
  OBVIOUS
<1> HIDE DEF Cut, Altered, Missing, Spliced
<1>19. QED
  BY <1>14, <1>15, <1>16, <1>17, <1>18, <1>5, <1>6, <1>7, <1>8, <1>9, <1>10, <1>11, <1>12

-----------------------------------------------------------------------------
(* The invariant *)

\* The history as it will be once the pending file is published.
Drawn == Added(held, pending.name, [rows |-> live, of |-> uuid])

\* Every file consists of authentic frames, under a header whose key was drawn.
FilesAuthentic ==
    /\ \A n \in DOMAIN archives : FileAuthentic(archives[n], held)
    /\ \A n \in DOMAIN portable : FileAuthentic(portable[n], held)

\* The pending file is one of this run; verified, it opens unless it was damaged since.
PendingDrawn ==
    /\ phase \in {"sealed", "verified", "scrubbed"} => pending # None
    /\ phase \notin {"sealed", "verified", "scrubbed", "failing"} => pending = None
    /\ pending # None =>
          /\ pending.name \notin DOMAIN held
          /\ pending.file.header.key = pending.name
          /\ FileAuthentic(pending.file, Drawn)
          /\ phase \in {"verified", "scrubbed"} =>
                pending.name \in hurt \/ Unseals(pending.file)

\* An archive that was not damaged opens, and is the one of its name.
UnhurtOpens ==
    \A n \in DOMAIN archives \ hurt : Unseals(archives[n]) /\ archives[n].header.key = n

\* The rows are deleted only when an archive was made of them.
DeletesCopied ==
    phase = "published" => \E n \in DOMAIN archives : held[n].rows = live

IInv == TypeOK /\ FilesAuthentic /\ PendingDrawn /\ UnhurtOpens /\ DeletesCopied

\* A new entry of a directory or of the history.
LEMMA AddedEntry ==
    ASSUME NEW dir, NEW name, NEW entry
    PROVE  LET new == Added(dir, name, entry)
           IN  /\ DOMAIN new = DOMAIN dir \cup {name} /\ new[name] = entry
               /\ \A n \in DOMAIN dir : n # name => new[n] = dir[n]
               /\ \A S : dir \in [DOMAIN dir -> S] /\ entry \in S => new \in [DOMAIN new -> S]
BY DEF Added

\* The history is one of sealings.
LEMMA HeldSealed ==
    ASSUME NEW last \in Nat, NEW keys \in Nat, NEW h,
           h \in [DOMAIN h -> [rows : SUBSET (1 .. last), of : Nat]],
           DOMAIN h \subseteq 1 .. keys
    PROVE  Sealed(h)
<1>1. IsFiniteSet(1 .. last)
  <2>1. 1 \in Int /\ last \in Int
    OBVIOUS
  <2>2. QED
    BY <2>1, FS_Interval
<1>2. \A k \in DOMAIN h : h[k] \in [rows : SUBSET (1 .. last), of : Nat]
  OBVIOUS
<1>3. \A k \in DOMAIN h : IsFiniteSet(h[k].rows)
  BY <1>1, <1>2, FS_Subset
<1>4. h \in [DOMAIN h -> Sealings]
  <2>1. \A k \in DOMAIN h : h[k] \in Sealings
    BY <1>2 DEF Sealings
  <2>2. QED
    BY <2>1
<1>5. QED
  BY <1>3, <1>4 DEF Sealed

\* So is the history with the pending file.
LEMMA DrawnSealed ==
    ASSUME TypeOK, NEW name \in Nat \ {0}, name \notin DOMAIN held
    PROVE  LET drawn == Added(held, name, [rows |-> live, of |-> uuid])
           IN  /\ Sealed(drawn) /\ DOMAIN drawn = DOMAIN held \cup {name}
               /\ drawn[name] = [rows |-> live, of |-> uuid]
               /\ \A j \in DOMAIN held : drawn[j] = held[j]
<1>1. Sealed(held)
  BY HeldSealed DEF TypeOK
<1>2. IsFiniteSet(live)
  <2>1. 1 \in Int /\ lastRow \in Int
    BY DEF TypeOK
  <2>2. IsFiniteSet(1 .. lastRow)
    BY <2>1, FS_Interval
  <2>3. QED
    BY <2>2, FS_Subset DEF TypeOK
<1>3. [rows |-> live, of |-> uuid] \in Sealings
  BY DEF TypeOK, Sealings
<1>4. QED
  BY <1>1, <1>2, <1>3, SealingAdded

\* Steps that leave the published files, the history and its damages alone.
LEMMA FilesStay ==
    ASSUME IInv, UNCHANGED <<archives, portable, held, hurt>>
    PROVE  FilesAuthentic' /\ UnhurtOpens'
BY DEF IInv, FilesAuthentic, UnhurtOpens

\* Steps that leave them alone and end with no pending file.
LEMMA NoPending ==
    ASSUME IInv, UNCHANGED <<archives, portable, held, hurt, seals>>,
           lastRow' \in Nat, lastRow <= lastRow', live' \subseteq 1 .. lastRow', uuid' \in Nat,
           phase' \in {"recording", "staged", "deleted", "suspended"}, report' \in Reports,
           staging' \in [{"db", "wal"} -> {"absent", "plain", "zeroed"}],
           stray' \subseteq {"plain", "zeroed", "sealed"},
           pending' = None
    PROVE  IInv'
<1>1. FilesAuthentic' /\ UnhurtOpens'
  BY FilesStay
<1>2. (held \in [DOMAIN held -> [rows : SUBSET (1 .. lastRow), of : Nat]])'
  <2>1. \A k \in DOMAIN held : held[k] \in [rows : SUBSET (1 .. lastRow), of : Nat]
    BY DEF IInv, TypeOK
  <2>2. 1 .. lastRow \subseteq 1 .. lastRow'
    BY DEF IInv, TypeOK
  <2>3. \A k \in DOMAIN held : held[k] \in [rows : SUBSET (1 .. lastRow'), of : Nat]
    BY <2>1, <2>2
  <2>4. held = [k \in DOMAIN held |-> held[k]]
    BY DEF IInv, TypeOK
  <2>5. QED
    BY <2>3, <2>4
<1>3. TypeOK'
  <2>1. phase' \in Phases
    BY DEF Phases
  <2>2. QED
    BY <1>2, <2>1 DEF IInv, TypeOK
<1>4. PendingDrawn' /\ DeletesCopied'
  BY DEF PendingDrawn, DeletesCopied
<1>5. QED
  BY <1>1, <1>3, <1>4 DEF IInv

-----------------------------------------------------------------------------
(* The steps of archive and reset *)

LEMMA InitInv == Init => IInv
<1> SUFFICES ASSUME Init PROVE IInv
  OBVIOUS
<1>1. DOMAIN <<>> = {} /\ <<>> \in [{} -> File]
      /\ <<>> \in [{} -> [rows : SUBSET (1 .. 0), of : Nat]]
  OBVIOUS
<1>2. TypeOK
  BY <1>1 DEF Init, TypeOK, Absent, Phases, Reports
<1>3. FilesAuthentic /\ PendingDrawn /\ UnhurtOpens /\ DeletesCopied
  BY <1>1 DEF Init, FilesAuthentic, PendingDrawn, UnhurtOpens, DeletesCopied
<1>4. QED
  BY <1>2, <1>3 DEF IInv

LEMMA RecordKeeps == ASSUME IInv, Record PROVE IInv'
<1>1. lastRow \in Nat /\ lastRow' = lastRow + 1 /\ live' = live \cup {lastRow'}
      /\ live \subseteq 1 .. lastRow
  BY DEF IInv, TypeOK, Record
<1>2. pending' = None
  BY DEF IInv, PendingDrawn, Record, files
<1>3. QED
  BY <1>1, <1>2, NoPending DEF IInv, TypeOK, Record, files

LEMMA StageKeeps == ASSUME IInv, Stage PROVE IInv'
<1>1. pending = None /\ pending' = None
  BY DEF IInv, PendingDrawn, Stage
<1>2. /\ staging' \in [{"db", "wal"} -> {"absent", "plain", "zeroed"}]
      /\ phase' \in {"staged", "failing"}
  BY DEF Stage, Absent
<1>3. FilesAuthentic' /\ UnhurtOpens'
  BY FilesStay DEF Stage
<1>4. TypeOK'
  BY <1>1, <1>2 DEF IInv, TypeOK, Stage, db, Phases
<1>5. PendingDrawn' /\ DeletesCopied'
  BY <1>1, <1>2 DEF PendingDrawn, DeletesCopied
<1>6. QED
  BY <1>3, <1>4, <1>5 DEF IInv

LEMMA SealStagedKeeps == ASSUME IInv, SealStaged PROVE IInv'
<1> DEFINE header == [key |-> seals', of |-> uuid]
           file == Seal(Chunks(live), header)
           drawn == Added(held, seals', [rows |-> live, of |-> uuid])
<1>1. /\ TypeOK /\ seals \in Nat /\ seals' = seals + 1 /\ pending = None
      /\ UNCHANGED <<live, uuid, lastRow, archives, portable, stray, report, held, hurt>>
      /\ DOMAIN held \subseteq 1 .. seals
  BY DEF IInv, TypeOK, PendingDrawn, SealStaged, db
<1>2. seals' \in Nat \ {0} /\ seals' \notin DOMAIN held /\ DOMAIN held \subseteq 1 .. seals'
  BY <1>1
<1>3. /\ Sealed(drawn) /\ seals' \in DOMAIN drawn
      /\ drawn[seals'] = [rows |-> live, of |-> uuid]
  BY <1>1, <1>2, DrawnSealed
<1>4. header \in Header
  BY <1>1, <1>2 DEF Header, TypeOK
<1>5. file \in File /\ file.header = header /\ FileAuthentic(file, drawn)
  <2>1. header.key = seals' /\ header.of = uuid
    OBVIOUS
  <2>2. drawn[header.key].rows = live /\ drawn[header.key].of = header.of
    BY <1>3, <2>1
  <2> HIDE DEF header, drawn
  <2>3. QED
    BY <1>3, <1>4, <2>1, <2>2, SealAuthentic
<1>6. staging' \in [{"db", "wal"} -> {"absent", "plain", "zeroed"}]
  BY DEF IInv, TypeOK, SealStaged
<1>7. FilesAuthentic' /\ UnhurtOpens'
  BY <1>1, FilesStay
<1>8. CASE pending' = [name |-> seals', file |-> file] /\ phase' = "sealed"
  <2> HIDE DEF file
  <2>1. pending' \in [name : 1 .. seals', file : File]
    BY <1>2, <1>5, <1>8
  <2>2. TypeOK'
    BY <1>1, <1>2, <1>6, <1>8, <2>1 DEF TypeOK, Phases
  <2>3. Drawn' = drawn
    BY <1>1, <1>8 DEF Drawn
  <2>4. pending' # None
    BY <1>2, <2>1, NoneIsNoFile
  <2>5. pending'.name = seals' /\ pending'.file = file
    BY <1>8
  <2>6. PendingDrawn'
    BY <2>4, <1>1, <1>2, <1>5, <1>8, <2>3, <2>5 DEF PendingDrawn
  <2>7. DeletesCopied'
    BY <1>8 DEF DeletesCopied
  <2>8. QED
    BY <1>7, <2>2, <2>6, <2>7 DEF IInv
<1>9. CASE UNCHANGED pending /\ phase' = "failing"
  <2>1. TypeOK'
    BY <1>1, <1>2, <1>6, <1>9 DEF TypeOK, Phases
  <2>2. PendingDrawn' /\ DeletesCopied'
    BY <1>1, <1>9 DEF PendingDrawn, DeletesCopied
  <2>3. QED
    BY <1>7, <2>1, <2>2 DEF IInv
<1>10. QED
  BY <1>8, <1>9 DEF SealStaged

\* Steps that leave the pending file, the rows and the published files alone.
LEMMA PendingStays ==
    ASSUME IInv, UNCHANGED <<db, pending, archives, portable, held, hurt, seals>>,
           pending # None, phase' \in {"verified", "failing", "scrubbed"},
           phase' \in {"verified", "scrubbed"} => pending.name \in hurt \/ Unseals(pending.file),
           report' \in Reports,
           staging' \in [{"db", "wal"} -> {"absent", "plain", "zeroed"}],
           stray' \subseteq {"plain", "zeroed", "sealed"}
    PROVE  IInv'
<1>1. FilesAuthentic' /\ UnhurtOpens'
  BY FilesStay DEF db
<1>2. TypeOK'
  BY DEF IInv, TypeOK, Phases, db
<1>3. Drawn' = Drawn
  BY DEF Drawn, db
<1>4. PendingDrawn'
  BY <1>3 DEF IInv, PendingDrawn
<1>5. DeletesCopied'
  BY DEF DeletesCopied
<1>6. QED
  BY <1>1, <1>2, <1>4, <1>5 DEF IInv

LEMMA VerifyKeeps == ASSUME IInv, Verify PROVE IInv'
<1>1. pending # None
  BY DEF IInv, PendingDrawn, Verify
<1>2. /\ phase' \in {"verified", "failing"}
      /\ phase' \in {"verified", "scrubbed"} => Unseals(pending.file)
  BY DEF Verify
<1>3. QED
  BY <1>1, <1>2, PendingStays DEF IInv, TypeOK, Verify, files

\* What a clean-up leaves of the plaintext.
LEMMA ScrubsLeave ==
    ASSUME NEW scrub \in Scrubs
    PROVE  /\ Left(scrub.left) \subseteq {"plain", "zeroed"}
           /\ scrub.ok \in BOOLEAN
           /\ scrub.ok => Left(scrub.left) = {}
<1>1. PICK d \in {"absent", "zeroed", "plain"}, w \in {"absent", "zeroed", "plain"} :
         scrub = [left |-> [f \in {"db", "wal"} |-> IF f = "db" THEN d ELSE w],
                  ok |-> d = "absent" /\ w = "absent"]
  <2> DEFINE Outcomes(f) == IF Fails("scrub") /\ staging[f] # "absent"
                            THEN {"absent", "zeroed", "plain"} ELSE {"absent"}
  <2>1. PICK d \in Outcomes("db"), w \in Outcomes("wal") :
           scrub = [left |-> [f \in {"db", "wal"} |-> IF f = "db" THEN d ELSE w],
                    ok |-> d = "absent" /\ w = "absent"]
    BY DEF Scrubs
  <2>2. QED
    BY <2>1
<1>2. Left(scrub.left) = {d, w} \ {"absent"}
  BY <1>1 DEF Left
<1>3. scrub.ok = (d = "absent" /\ w = "absent")
  BY <1>1
<1>4. QED
  BY <1>2, <1>3

\* Giving up leaves the published files alone.
LEMMA GiveUpKeeps ==
    ASSUME IInv, NEW scrub, GiveUp(scrub), Left(scrub.left) \subseteq {"plain", "zeroed"},
           UNCHANGED <<db, archives, portable, seals, held, hurt>>
    PROVE  IInv'
<1>1. /\ staging' = Absent /\ pending' = None /\ phase' = "recording"
      /\ report' \in {"archive_failed", "cleanup_failed"}
      /\ stray' \subseteq {"plain", "zeroed", "sealed"}
  BY DEF GiveUp, IInv, TypeOK
<1>2. QED
  BY <1>1, NoPending DEF IInv, TypeOK, db, Absent, Reports

LEMMA CleanKeeps == ASSUME IInv, Clean PROVE IInv'
<1>1. PICK scrub \in Scrubs : GiveUp(scrub)
  BY DEF Clean
<1>2. QED
  BY <1>1, ScrubsLeave, GiveUpKeeps DEF Clean, db

LEMMA ScrubKeeps == ASSUME IInv, Scrub PROVE IInv'
<1>1. PICK scrub \in Scrubs :
         \/ /\ scrub.ok
            /\ staging' = Absent /\ phase' = "scrubbed"
            /\ stray' = stray \cup Left(scrub.left)
            /\ UNCHANGED <<pending, report>>
         \/ ~scrub.ok /\ GiveUp(scrub)
  BY DEF Scrub
<1>2. /\ phase = "verified"
      /\ UNCHANGED <<db, archives, portable, seals, held, hurt>>
  BY DEF Scrub
<1>3. CASE ~scrub.ok /\ GiveUp(scrub)
  BY <1>2, <1>3, ScrubsLeave, GiveUpKeeps
<1>4. CASE /\ scrub.ok /\ staging' = Absent /\ phase' = "scrubbed"
           /\ stray' = stray \cup Left(scrub.left) /\ UNCHANGED <<pending, report>>
  <2>1. pending # None /\ (pending.name \in hurt \/ Unseals(pending.file))
    BY <1>2 DEF IInv, PendingDrawn
  <2>2. stray' \subseteq {"plain", "zeroed", "sealed"} /\ report' \in Reports
        /\ staging' \in [{"db", "wal"} -> {"absent", "plain", "zeroed"}]
    BY <1>4, ScrubsLeave DEF IInv, TypeOK, Absent
  <2>3. QED
    BY <1>2, <1>4, <2>1, <2>2, PendingStays
<1>5. QED
  BY <1>1, <1>3, <1>4

LEMMA PublishKeeps == ASSUME IInv, Publish PROVE IInv'
<1> DEFINE name == pending.name
           entry == [rows |-> live, of |-> uuid]
<1>1. /\ phase = "scrubbed" /\ UNCHANGED <<db, portable, seals, hurt>>
      /\ TypeOK /\ FilesAuthentic /\ UnhurtOpens
  BY DEF IInv, Publish
<1>2. /\ pending # None /\ name \notin DOMAIN held /\ pending.file.header.key = name
      /\ FileAuthentic(pending.file, Drawn)
      /\ name \in hurt \/ Unseals(pending.file)
  BY <1>1 DEF IInv, PendingDrawn
<1>3. name \in 1 .. seals /\ seals \in Nat /\ pending.file \in File
  BY <1>1, <1>2 DEF TypeOK
<1>4. CASE /\ archives' = Added(archives, name, pending.file)
           /\ held' = Added(held, name, entry)
           /\ pending' = None /\ phase' = "published" /\ UNCHANGED <<stray, report, staging>>
  <2>1. held' = Drawn
    BY <1>4 DEF Drawn
  <2>2. /\ DOMAIN held' = DOMAIN held \cup {name} /\ held'[name] = entry
        /\ \A n \in DOMAIN held : held'[n] = held[n]
    BY <1>2, <1>4 DEF Added
  <2>3. /\ DOMAIN archives' = DOMAIN archives \cup {name} /\ archives'[name] = pending.file
        /\ \A n \in DOMAIN archives : n # name => archives'[n] = archives[n]
    BY <1>4 DEF Added
  <2>4. archives' \in [DOMAIN archives' -> File]
    <3>1. archives \in [DOMAIN archives -> File]
      BY <1>1 DEF TypeOK
    <3>2. QED
      BY <1>3, <1>4, <3>1, AddedEntry
  <2>5. held' \in [DOMAIN held' -> [rows : SUBSET (1 .. lastRow'), of : Nat]]
    <3>1. /\ held \in [DOMAIN held -> [rows : SUBSET (1 .. lastRow), of : Nat]]
          /\ entry \in [rows : SUBSET (1 .. lastRow), of : Nat]
      BY <1>1 DEF TypeOK
    <3> HIDE DEF entry
    <3>2. lastRow' = lastRow
      BY <1>1 DEF db
    <3>3. QED
      BY <1>4, <3>1, <3>2, AddedEntry
  <2>6. TypeOK'
    <3>1. /\ DOMAIN archives' \subseteq DOMAIN held' /\ DOMAIN held' \subseteq 1 .. seals'
          /\ portable' \in [DOMAIN portable' -> File] /\ DOMAIN portable' \subseteq DOMAIN held'
      BY <1>1, <1>3, <2>2, <2>3 DEF TypeOK
    <3>2. /\ lastRow' \in Nat /\ live' \subseteq 1 .. lastRow' /\ uuid' \in Nat /\ seals' \in Nat
          /\ phase' \in Phases /\ report' \in Reports
          /\ staging' \in [{"db", "wal"} -> {"absent", "plain", "zeroed"}]
          /\ stray' \subseteq {"plain", "zeroed", "sealed"} /\ hurt' \subseteq Nat
      BY <1>1, <1>4 DEF TypeOK, Phases, db
    <3>3. QED
      BY <1>4, <2>4, <2>5, <3>1, <3>2 DEF TypeOK
  <2>7. FilesAuthentic'
    <3>1. \A n \in DOMAIN portable : FileAuthentic(portable[n], held')
      BY <1>1, <2>2, AuthenticGrows DEF FilesAuthentic
    <3>2. \A n \in DOMAIN archives : FileAuthentic(archives[n], held')
      BY <1>1, <2>2, AuthenticGrows DEF FilesAuthentic
    <3>3. \A n \in DOMAIN archives' : FileAuthentic(archives'[n], held')
      BY <1>2, <2>1, <2>3, <3>2
    <3>4. QED
      BY <1>1, <3>1, <3>3 DEF FilesAuthentic
  <2>8. UnhurtOpens'
    BY <1>1, <1>2, <2>3 DEF UnhurtOpens
  <2>9. PendingDrawn'
    BY <1>4 DEF PendingDrawn
  <2>10. DeletesCopied'
    BY <1>1, <2>2, <2>3 DEF DeletesCopied, db
  <2>11. QED
    BY <2>6, <2>7, <2>8, <2>9, <2>10 DEF IInv
<1>5. CASE GiveUp([left |-> Absent, ok |-> TRUE]) /\ UNCHANGED <<archives, held>>
  <2>1. Left(Absent) = {}
    BY DEF Left, Absent
  <2>2. Left([left |-> Absent, ok |-> TRUE].left) \subseteq {"plain", "zeroed"}
    BY <2>1
  <2>3. QED
    BY <1>1, <1>5, <2>2, GiveUpKeeps
<1>6. QED
  BY <1>4, <1>5 DEF Publish

LEMMA DeleteKeeps == ASSUME IInv, Delete PROVE IInv'
<1>1. /\ phase = "published" /\ pending' = None
      /\ phase' \in {"deleted", "recording"} /\ live' \subseteq 1 .. lastRow
      /\ report' \in Reports
  BY DEF IInv, TypeOK, PendingDrawn, Delete, DeletePhases, files, Reports
<1>2. QED
  BY <1>1, NoPending DEF IInv, TypeOK, Delete, files

LEMMA ReplaceKeeps == ASSUME IInv, Replace PROVE IInv'
<1>1. /\ pending' = None /\ phase' \in {"recording", "suspended"}
      /\ report' \in Reports /\ uuid' \in Nat
  BY DEF IInv, TypeOK, PendingDrawn, Replace, files, Reports
<1>2. QED
  BY <1>1, NoPending DEF IInv, TypeOK, Replace, files

LEMMA CrashKeeps == ASSUME IInv, Crash PROVE IInv'
<1>1. /\ pending' = None /\ phase' = "recording" /\ report' = "crashed" /\ staging' = Absent
  BY DEF Crash
<1>2. stray' \subseteq {"plain", "zeroed", "sealed"}
  <2>1. Left(staging) \subseteq {"plain", "zeroed"}
    BY DEF IInv, TypeOK, Left
  <2>2. QED
    BY <2>1 DEF IInv, TypeOK, Crash
<1>3. QED
  BY <1>1, <1>2, NoPending DEF IInv, TypeOK, Crash, db, Reports, Absent

-----------------------------------------------------------------------------
(* Exports, the erase, and damage *)

\* What an export or its first frames add, under a key drawn for it.
LEMMA ExportKeeps ==
    ASSUME IInv, NEW n \in DOMAIN archives, NEW copy,
           NEW k \in 0 .. Len(archives[n].frames),
           copy = Transcoded(archives[n], [key |-> seals', of |-> archives[n].header.of]),
           \/ k < Len(archives[n].frames) /\ \A i \in 1 .. k : Opens(archives[n], i)
           \/ k = Len(archives[n].frames) /\ Unseals(archives[n]),
           seals' = seals + 1,
           portable' = Added(portable, seals', [copy EXCEPT !.frames = SubSeq(@, 1, k)]),
           held' = Added(held, seals', held[archives[n].header.key]),
           UNCHANGED <<db, phase, staging, pending, archives, stray, report, hurt>>
    PROVE  IInv'
<1> DEFINE s == seals'
           file == archives[n]
           part == [copy EXCEPT !.frames = SubSeq(@, 1, k)]
           entry == held[file.header.key]
<1>1. /\ TypeOK /\ FilesAuthentic /\ PendingDrawn /\ UnhurtOpens /\ DeletesCopied
      /\ Sealed(held) /\ FileAuthentic(file, held) /\ file \in File
  <2>1. Sealed(held)
    BY HeldSealed DEF IInv, TypeOK
  <2>2. QED
    BY <2>1 DEF IInv, TypeOK, FilesAuthentic
<1>2. /\ seals \in Nat /\ s = seals + 1 /\ s \in Nat \ {0} /\ s \notin DOMAIN held
      /\ DOMAIN held \subseteq 1 .. seals /\ DOMAIN held \cup {s} \subseteq 1 .. s
  BY <1>1 DEF TypeOK
<1>3. part \in File /\ FileAuthentic(part, held')
  <2> HIDE DEF s, file
  <2>1. LET c == Transcoded(file, [key |-> s, of |-> file.header.of])
            p == [c EXCEPT !.frames = SubSeq(@, 1, k)]
        IN  p \in File /\ FileAuthentic(p, Added(held, s, held[file.header.key]))
    BY <1>1, <1>2, TranscodedAuthentic DEF file
  <2>2. QED
    BY <2>1 DEF s, file
<1>4. /\ DOMAIN held' = DOMAIN held \cup {s} /\ held'[s] = entry
      /\ \A m \in DOMAIN held : held'[m] = held[m]
  BY <1>2 DEF Added
<1>5. /\ DOMAIN portable' = DOMAIN portable \cup {s} /\ portable'[s] = part
      /\ \A m \in DOMAIN portable : m # s => portable'[m] = portable[m]
  BY DEF Added
<1>6. portable' \in [DOMAIN portable' -> File]
  <2>1. portable \in [DOMAIN portable -> File]
    BY <1>1 DEF TypeOK
  <2> HIDE DEF part
  <2>2. QED
    BY <1>3, <2>1, AddedEntry DEF part
<1>7. held' \in [DOMAIN held' -> [rows : SUBSET (1 .. lastRow'), of : Nat]]
  <2>1. /\ held \in [DOMAIN held -> [rows : SUBSET (1 .. lastRow), of : Nat]]
        /\ lastRow' = lastRow
    BY <1>1 DEF TypeOK, db
  <2>2. entry \in [rows : SUBSET (1 .. lastRow), of : Nat]
    BY <1>1, <2>1 DEF FileAuthentic
  <2> HIDE DEF entry
  <2>3. QED
    BY <2>1, <2>2, AddedEntry DEF entry
<1>8. TypeOK'
  <2>1. /\ archives' \in [DOMAIN archives' -> File]
        /\ DOMAIN archives' \subseteq DOMAIN held' /\ DOMAIN portable' \subseteq DOMAIN held'
        /\ DOMAIN held' \subseteq 1 .. seals'
    BY <1>1, <1>2, <1>4, <1>5 DEF TypeOK
  <2>2. /\ lastRow' \in Nat /\ live' \subseteq 1 .. lastRow' /\ uuid' \in Nat /\ seals' \in Nat
        /\ phase' \in Phases /\ report' \in Reports
        /\ staging' \in [{"db", "wal"} -> {"absent", "plain", "zeroed"}]
        /\ stray' \subseteq {"plain", "zeroed", "sealed"} /\ hurt' \subseteq Nat
    BY <1>1, <1>2 DEF TypeOK, db
  <2>3. pending' \in {None} \cup [name : 1 .. seals', file : File]
    <3>1. 1 .. seals \subseteq 1 .. seals'
      BY <1>2
    <3>2. pending \in {None} \cup [name : 1 .. seals, file : File]
      BY <1>1 DEF TypeOK
    <3>3. QED
      BY <3>1, <3>2
  <2>4. QED
    BY <1>6, <1>7, <2>1, <2>2, <2>3 DEF TypeOK
<1>9. FilesAuthentic'
  <2>1. ASSUME NEW f, FileAuthentic(f, held) PROVE FileAuthentic(f, held')
    BY <1>4, <2>1, AuthenticGrows
  <2>2. /\ \A m \in DOMAIN archives : FileAuthentic(archives[m], held')
        /\ \A m \in DOMAIN portable : FileAuthentic(portable[m], held')
    BY <1>1, <2>1 DEF FilesAuthentic
  <2>3. \A m \in DOMAIN portable' : FileAuthentic(portable'[m], held')
    <3> HIDE DEF part
    <3> QED BY <1>3, <1>5, <2>2
  <2>4. QED
    BY <2>2, <2>3 DEF FilesAuthentic
<1>10. UnhurtOpens'
  BY <1>1 DEF UnhurtOpens
<1>11. PendingDrawn'
  <2>1. CASE pending = None
    BY <1>1, <2>1 DEF PendingDrawn
  <2>2. CASE pending # None
    <3>1. /\ pending.name \in 1 .. seals /\ pending.name \notin DOMAIN held
          /\ FileAuthentic(pending.file, Drawn)
      BY <1>1, <2>2 DEF TypeOK, PendingDrawn
    <3>2. pending.name # s /\ pending.name \notin DOMAIN held'
      BY <1>2, <1>4, <3>1
    <3>3. Drawn' = Added(held', pending.name, [rows |-> live, of |-> uuid])
      BY DEF Drawn, db
    <3>4. DOMAIN Drawn \subseteq DOMAIN Drawn'
          /\ \A m \in DOMAIN Drawn : Drawn'[m] = Drawn[m]
      BY <1>4, <3>1, <3>2, <3>3 DEF Drawn, Added
    <3>5. FileAuthentic(pending.file, Drawn')
      BY <3>1, <3>4, AuthenticGrows
    <3>6. QED
      BY <1>1, <2>2, <3>2, <3>5 DEF PendingDrawn
  <2>3. QED
    BY <2>1, <2>2
<1>12. DeletesCopied'
  <2>1. DOMAIN archives \subseteq DOMAIN held
    BY <1>1 DEF TypeOK
  <2>2. QED
    BY <1>1, <1>4, <2>1 DEF DeletesCopied, db
<1>13. QED
  BY <1>8, <1>9, <1>10, <1>11, <1>12 DEF IInv

LEMMA ExportPassphraseKeeps == ASSUME IInv, ExportPassphrase PROVE IInv'
<1>1. /\ seals' = seals + 1
      /\ UNCHANGED <<db, phase, staging, pending, archives, stray, report, hurt>>
  BY DEF ExportPassphrase
<1>2. PICK n \in DOMAIN archives :
         LET copy == Transcoded(archives[n],
                                [key |-> seals', of |-> archives[n].header.of])
             Export(k) ==
                 /\ portable' = Added(portable, seals',
                                      [copy EXCEPT !.frames = SubSeq(@, 1, k)])
                 /\ held' = Added(held, seals', held[archives[n].header.key])
         IN \/ Unseals(archives[n]) /\ Export(Len(copy.frames))
            \/ ~Unseals(archives[n]) /\ UNCHANGED <<portable, held>>
            \/ /\ Fails("crash")
               /\ \E k \in 0 .. Len(copy.frames) - 1 :
                     (\A i \in 1 .. k : Opens(archives[n], i)) /\ Export(k)
  BY DEF ExportPassphrase
<1> DEFINE file == archives[n]
           len == Len(file.frames)
           copy == Transcoded(file, [key |-> seals', of |-> file.header.of])
           Export(k) == /\ portable' = Added(portable, seals',
                                             [copy EXCEPT !.frames = SubSeq(@, 1, k)])
                        /\ held' = Added(held, seals', held[file.header.key])
<1>3. file.frames \in Seq(SealedFrame) /\ len \in Nat
  BY DEF IInv, TypeOK, File
<1>4. Len(copy.frames) = len
  <2> DEFINE d == [i \in DOMAIN file.frames |-> file.frames[i].data]
             frames == [i \in 1 .. Len(d) |-> Frame(d, i, [key |-> seals', of |-> file.header.of])]
  <2>1. Len(d) = len
    BY <1>3
  <2>2. copy.frames = frames
    BY DEF Transcoded, Seal
  <2> HIDE DEF d
  <2>3. QED
    BY <1>3, <2>1, <2>2
<1>5. ASSUME NEW k \in 0 .. len, Export(k),
             \/ k < len /\ \A i \in 1 .. k : Opens(file, i)
             \/ k = len /\ Unseals(file)
      PROVE  IInv'
  BY <1>1, <1>5, ExportKeeps
<1>6. CASE Unseals(file) /\ Export(Len(copy.frames))
  <2>1. len \in 0 .. len
    BY <1>3
  <2>2. QED
    BY <1>4, <1>5, <1>6, <2>1
<1>7. CASE ~Unseals(file) /\ UNCHANGED <<portable, held>>
  <2>1. TypeOK'
    <3>1. /\ seals' \in Nat /\ 1 .. seals \subseteq 1 .. seals'
          /\ pending \in {None} \cup [name : 1 .. seals, file : File]
      BY <1>1 DEF IInv, TypeOK
    <3>2. pending' \in {None} \cup [name : 1 .. seals', file : File]
      BY <1>1, <3>1
    <3>3. QED
      BY <1>1, <1>7, <3>1, <3>2 DEF IInv, TypeOK, db
  <2>2. Drawn' = Drawn
    BY <1>1, <1>7 DEF Drawn, db
  <2>3. QED
    BY <1>1, <1>7, <2>1, <2>2
       DEF IInv, FilesAuthentic, PendingDrawn, UnhurtOpens, DeletesCopied, db
<1>8. CASE \E k \in 0 .. Len(copy.frames) - 1 :
              (\A i \in 1 .. k : Opens(file, i)) /\ Export(k)
  <2> HIDE DEF Export
  <2>1. PICK k \in 0 .. len - 1 : (\A i \in 1 .. k : Opens(file, i)) /\ Export(k)
    BY <1>4, <1>8
  <2>2. k \in 0 .. len /\ k < len
    BY <1>3
  <2>3. QED
    BY <1>5, <2>1, <2>2
<1>9. QED
  BY <1>2, <1>6, <1>7, <1>8

LEMMA EraseKeeps == ASSUME IInv, Erase PROVE IInv'
<1>1. /\ phase = "recording" /\ pending = None /\ live' \subseteq live /\ uuid' \in Nat
      /\ UNCHANGED <<lastRow, phase, staging, pending, portable, report, seals, held, hurt>>
  BY DEF IInv, TypeOK, PendingDrawn, Erase
<1>2. PICK kept \in SUBSET DOMAIN archives : archives' = [n \in kept |-> archives[n]]
  BY DEF Erase
<1>3. stray' \subseteq stray
  BY DEF Erase
<1>4. /\ DOMAIN archives' = kept /\ \A n \in kept : archives'[n] = archives[n]
      /\ archives' \in [DOMAIN archives' -> File]
  BY <1>2 DEF IInv, TypeOK
<1>5. TypeOK'
  BY <1>1, <1>3, <1>4 DEF IInv, TypeOK
<1>6. FilesAuthentic' /\ UnhurtOpens'
  BY <1>1, <1>4 DEF IInv, FilesAuthentic, UnhurtOpens
<1>7. PendingDrawn' /\ DeletesCopied'
  BY <1>1 DEF PendingDrawn, DeletesCopied
<1>8. QED
  BY <1>5, <1>6, <1>7 DEF IInv

\* One file of a directory is damaged.
LEMMA DirDamaged ==
    ASSUME NEW h, NEW dir, dir \in [DOMAIN dir -> File],
           \A m \in DOMAIN dir : FileAuthentic(dir[m], h),
           NEW n \in DOMAIN dir, NEW other \in File, FileAuthentic(other, h),
           NEW new, new \in {[dir EXCEPT ![n] = f] : f \in Damaged(dir[n], other)}
    PROVE  /\ DOMAIN new = DOMAIN dir /\ new \in [DOMAIN dir -> File]
           /\ \A m \in DOMAIN dir : FileAuthentic(new[m], h)
           /\ \A m \in DOMAIN dir : m # n => new[m] = dir[m]
<1>1. PICK f \in Damaged(dir[n], other) : new = [dir EXCEPT ![n] = f]
  OBVIOUS
<1>2. f \in File /\ FileAuthentic(f, h)
  BY DamagedAuthentic
<1>3. /\ DOMAIN new = DOMAIN dir
      /\ \A m \in DOMAIN dir : new[m] = IF m = n THEN f ELSE dir[m]
  BY <1>1
<1>4. new \in [DOMAIN dir -> File]
  BY <1>1, <1>2
<1>5. QED
  BY <1>2, <1>3, <1>4

LEMMA HurtKeeps == ASSUME IInv, Hurt PROVE IInv'
<1>1. /\ TypeOK /\ FilesAuthentic /\ PendingDrawn /\ UnhurtOpens /\ DeletesCopied
      /\ UNCHANGED <<db, phase, staging, stray, report, seals, held>>
      /\ archives \in [DOMAIN archives -> File] /\ portable \in [DOMAIN portable -> File]
      /\ DOMAIN archives \subseteq Nat
  BY DEF IInv, TypeOK, Hurt
<1>2. ASSUME pending # None,
             NEW other \in {pending.file} \cup {archives[n] : n \in DOMAIN archives},
             NEW f \in Damaged(pending.file, other), f.header.key = pending.name,
             pending' = [pending EXCEPT !.file = f],
             hurt' = hurt \cup (IF phase = "sealed" THEN {} ELSE {pending.name}),
             UNCHANGED <<archives, portable>>
      PROVE  IInv'
  <2>1. /\ pending \in [name : 1 .. seals, file : File]
        /\ pending.name \in 1 .. seals /\ pending.file \in File
        /\ pending.name \notin DOMAIN held /\ FileAuthentic(pending.file, Drawn)
        /\ seals \in Nat
    BY <1>1, <1>2 DEF TypeOK, PendingDrawn
  <2>2. DOMAIN held \subseteq DOMAIN Drawn /\ \A m \in DOMAIN held : Drawn[m] = held[m]
    BY <2>1 DEF Drawn, Added
  <2>3. other \in File /\ FileAuthentic(other, Drawn)
    <3>1. \A n \in DOMAIN archives : archives[n] \in File /\ FileAuthentic(archives[n], Drawn)
      BY <1>1, <2>2, AuthenticGrows DEF FilesAuthentic
    <3>2. QED
      BY <1>2, <2>1, <3>1
  <2>4. f \in File /\ FileAuthentic(f, Drawn)
    BY <2>1, <2>3, DamagedAuthentic
  <2>5. /\ pending' \in [name : 1 .. seals, file : File]
        /\ pending'.name = pending.name /\ pending'.file = f
    BY <1>2, <2>1, <2>4
  <2>6. pending' # None
    BY <2>1, <2>5, NoneIsNoFile
  <2>7. hurt \subseteq hurt' /\ hurt' \subseteq Nat
    BY <1>1, <1>2, <2>1 DEF TypeOK
  <2>8. TypeOK'
    <3>1. pending' \in {None} \cup [name : 1 .. seals', file : File]
      BY <1>1, <2>5
    <3>2. QED
      BY <1>1, <1>2, <2>7, <3>1 DEF TypeOK, db
  <2>9. FilesAuthentic' /\ UnhurtOpens'
    BY <1>1, <1>2, <2>7 DEF FilesAuthentic, UnhurtOpens
  <2>10. Drawn' = Drawn
    BY <1>1, <2>5 DEF Drawn, db
  <2>11. PendingDrawn'
    BY <1>1, <1>2, <2>1, <2>4, <2>5, <2>6, <2>10 DEF PendingDrawn
  <2>12. DeletesCopied'
    BY <1>1, <1>2 DEF DeletesCopied, db
  <2>13. QED
    BY <2>8, <2>9, <2>11, <2>12 DEF IInv
<1>3. ASSUME NEW n \in DOMAIN archives, NEW m \in DOMAIN archives,
             archives' \in {[archives EXCEPT ![n] = f] : f \in Damaged(archives[n], archives[m])},
             hurt' = hurt \cup {n},
             UNCHANGED <<pending, portable>>
      PROVE  IInv'
  <2>1. \A a \in DOMAIN archives : archives[a] \in File /\ FileAuthentic(archives[a], held)
    BY <1>1 DEF FilesAuthentic
  <2>2. /\ DOMAIN archives' = DOMAIN archives /\ archives' \in [DOMAIN archives -> File]
        /\ \A a \in DOMAIN archives : FileAuthentic(archives'[a], held)
        /\ \A a \in DOMAIN archives : a # n => archives'[a] = archives[a]
    BY <1>1, <1>3, <2>1, DirDamaged
  <2>3. TypeOK'
    BY <1>1, <1>3, <2>2 DEF TypeOK, db
  <2>4. FilesAuthentic' /\ UnhurtOpens'
    BY <1>1, <1>3, <2>2 DEF FilesAuthentic, UnhurtOpens
  <2>5. Drawn' = Drawn
    BY <1>1, <1>3 DEF Drawn, db
  <2>6. PendingDrawn'
    BY <1>1, <1>3, <2>5 DEF PendingDrawn
  <2>7. DeletesCopied'
    BY <1>1, <2>2 DEF DeletesCopied, db
  <2>8. QED
    BY <2>3, <2>4, <2>6, <2>7 DEF IInv
<1>4. ASSUME NEW n \in DOMAIN portable, NEW m \in DOMAIN archives,
             portable' \in {[portable EXCEPT ![n] = f] : f \in Damaged(portable[n], archives[m])},
             UNCHANGED <<pending, archives, hurt>>
      PROVE  IInv'
  <2>1. /\ archives[m] \in File /\ FileAuthentic(archives[m], held)
        /\ \A a \in DOMAIN portable : FileAuthentic(portable[a], held)
    BY <1>1 DEF FilesAuthentic
  <2>2. /\ DOMAIN portable' = DOMAIN portable /\ portable' \in [DOMAIN portable -> File]
        /\ \A a \in DOMAIN portable : FileAuthentic(portable'[a], held)
    BY <1>1, <1>4, <2>1, DirDamaged
  <2>3. TypeOK'
    BY <1>1, <1>4, <2>2 DEF TypeOK, db
  <2>4. FilesAuthentic' /\ UnhurtOpens'
    BY <1>1, <1>4, <2>2 DEF FilesAuthentic, UnhurtOpens
  <2>5. Drawn' = Drawn
    BY <1>1, <1>4 DEF Drawn, db
  <2>6. PendingDrawn' /\ DeletesCopied'
    BY <1>1, <1>4, <2>5 DEF PendingDrawn, DeletesCopied, db
  <2>7. QED
    BY <2>3, <2>4, <2>6 DEF IInv
<1>5. QED
  BY <1>2, <1>3, <1>4 DEF Hurt

-----------------------------------------------------------------------------
(* The theorems *)

\* Every step keeps the invariant.
LEMMA StepKeeps == ASSUME IInv, [Next]_vars PROVE IInv'
<1>1. CASE UNCHANGED vars
  <2>1. Drawn' = Drawn
    BY <1>1 DEF vars, Drawn, db, files
  <2>2. QED
    BY <1>1, <2>1
       DEF vars, IInv, TypeOK, FilesAuthentic, PendingDrawn, UnhurtOpens, DeletesCopied, db, files
<1>2. QED
  BY <1>1, RecordKeeps, StageKeeps, SealStagedKeeps, VerifyKeeps, CleanKeeps, ScrubKeeps,
     PublishKeeps, DeleteKeeps, ReplaceKeeps, CrashKeeps, ExportPassphraseKeeps, EraseKeeps,
     HurtKeeps
     DEF Next

\* The invariant holds throughout (archive_and_reset, export_portable_archive,
\* secure_erase, and the damage a disk may do).
THEOREM Invariant == Spec => []IInv
<1>1. Init => IInv
  BY InitInv
<1>2. IInv /\ [Next]_vars => IInv'
  BY StepKeeps
<1>3. QED
  BY <1>1, <1>2, PTL DEF Spec

\* The variables keep their types.
THEOREM TypeCorrect == Spec => []TypeOK
<1>1. IInv => TypeOK
  BY DEF IInv
<1>2. QED
  BY <1>1, Invariant, PTL

\* A sealed file that opens, archive or export, is the whole of what was sealed
\* under its header, whatever befell it (decrypt_chunks).
THEOREM SealedIsWhole == Spec => []WhatOpensIsWhole
<1>1. IInv => WhatOpensIsWhole
  <2> SUFFICES ASSUME IInv PROVE WhatOpensIsWhole
    OBVIOUS
  <2>1. Sealed(held)
    BY HeldSealed DEF IInv, TypeOK
  <2>2. ASSUME NEW file \in Files(archives) \cup Files(portable)
        PROVE  file \in File /\ FileAuthentic(file, held)
    BY DEF Files, IInv, TypeOK, FilesAuthentic
  <2>3. QED
    BY <2>1, <2>2, OpensWhole DEF WhatOpensIsWhole
<1>2. QED
  BY <1>1, Invariant, PTL

\* Plaintext that stays on the disk is reported (clean_archive_staging), or a
\* crash left it.
THEOREM PlaintextIsReported == Spec => PlaintextReported
<1> DEFINE Told == "plain" \in stray' \ stray => report' \in {"cleanup_failed", "crashed"}
<1>1. [Next]_vars => [Told]_vars
  <2> SUFFICES ASSUME Next PROVE Told
    OBVIOUS
  <2>1. CASE Clean
    <3>1. PICK scrub \in Scrubs : GiveUp(scrub)
      BY <2>1 DEF Clean
    <3>2. QED
      BY <3>1, ScrubsLeave DEF GiveUp
  <2>2. CASE Scrub
    <3>1. PICK scrub \in Scrubs :
             \/ scrub.ok /\ stray' = stray \cup Left(scrub.left)
             \/ ~scrub.ok /\ GiveUp(scrub)
      BY <2>2 DEF Scrub
    <3>2. QED
      BY <3>1, ScrubsLeave DEF GiveUp
  <2>3. CASE Publish
    <3>1. Left(Absent) = {}
      BY DEF Left, Absent
    <3>2. UNCHANGED stray \/ GiveUp([left |-> Absent, ok |-> TRUE])
      BY <2>3 DEF Publish
    <3>3. QED
      BY <3>1, <3>2 DEF GiveUp
  <2>4. CASE Crash
    BY <2>4 DEF Crash
  <2>5. CASE Erase
    BY <2>5 DEF Erase
  <2>6. CASE Record \/ Stage \/ SealStaged \/ Verify \/ Delete \/ Replace
             \/ ExportPassphrase \/ Hurt
    BY <2>6 DEF Record, Stage, SealStaged, Verify, Delete, Replace, ExportPassphrase, Hurt, files
  <2>7. QED
    BY <2>1, <2>2, <2>3, <2>4, <2>5, <2>6 DEF Next
<1>2. QED
  BY <1>1, PTL DEF Spec, PlaintextReported

\* The archives keep what they were made of.
LEMMA KeptIsHeld ==
    ASSUME NEW h, Sealed(h), NEW dir, dir \in [DOMAIN dir -> File],
           \A n \in DOMAIN dir : FileAuthentic(dir[n], h), NEW d,
           \A n \in DOMAIN dir \ d : Unseals(dir[n]) /\ dir[n].header.key = n
    PROVE  UNION {IF n \in d THEN h[n].rows
                  ELSE IF Unseals(dir[n]) THEN Content(dir[n]) ELSE {} : n \in DOMAIN dir}
             = UNION {h[n].rows : n \in DOMAIN dir}
<1>1. ASSUME NEW n \in DOMAIN dir
      PROVE  (IF n \in d THEN h[n].rows
              ELSE IF Unseals(dir[n]) THEN Content(dir[n]) ELSE {}) = h[n].rows
  <2>1. CASE n \in d
    BY <2>1
  <2>2. CASE n \notin d
    <3>1. dir[n] \in File /\ Unseals(dir[n]) /\ dir[n].header.key = n
      BY <2>2
    <3>2. Content(dir[n]) = h[n].rows
      BY <3>1, OpensWhole
    <3>3. QED
      BY <2>2, <3>1, <3>2
  <2>3. QED
    BY <2>1, <2>2
<1>2. QED
  BY <1>1

\* Archive and reset implements the ledger: a row leaves the database only when
\* an archive that opens holds it (archive_and_reset: verify_archive, rename and
\* reset_activity_data in this order).
THEOREM ArchiveImplementsLedger == Spec => ImplementsLedger
<1> DEFINE Of(dir, h) == UNION {h[n].rows : n \in DOMAIN dir}
<1>1. Init => TheLedger!Init
  BY DEF Init, TheLedger!Init, Kept
<1>2. IInv => Kept = Of(archives, held)
  <2> SUFFICES ASSUME IInv PROVE Kept = Of(archives, held)
    OBVIOUS
  <2>1. Sealed(held)
    BY HeldSealed DEF IInv, TypeOK
  <2>2. QED
    BY <2>1, KeptIsHeld DEF IInv, TypeOK, FilesAuthentic, UnhurtOpens, Kept
<1>3. IInv' => Kept' = Of(archives', held')
  <2> SUFFICES ASSUME IInv' PROVE Kept' = Of(archives', held')
    OBVIOUS
  <2>1. Sealed(held')
    BY HeldSealed DEF IInv, TypeOK
  <2>2. QED
    BY <2>1, KeptIsHeld DEF IInv, TypeOK, FilesAuthentic, UnhurtOpens, Kept
<1>4. IInv /\ IInv' /\ [Next]_vars => [TheLedger!Next]_<<live, Kept>>
  <2> SUFFICES ASSUME IInv, IInv', [Next]_vars PROVE [TheLedger!Next]_<<live, Kept>>
    OBVIOUS
  <2> DEFINE kept == Of(archives, held)
             keptNext == Of(archives', held')
  <2>1. Kept = kept /\ Kept' = keptNext
    BY <1>2, <1>3
  <2>2. TypeOK /\ DOMAIN archives \subseteq DOMAIN held /\ lastRow \in Nat /\ live \subseteq 1 .. lastRow
        /\ \A n \in DOMAIN held : held[n].rows \subseteq 1 .. lastRow
    BY DEF IInv, TypeOK
  <2>3. UNCHANGED <<archives, held>> => keptNext = kept
    OBVIOUS
  <2>4. \A x : x \in kept <=> \E n \in DOMAIN archives : x \in held[n].rows
    OBVIOUS
  <2>5. \A x : x \in keptNext <=> \E n \in DOMAIN archives' : x \in held'[n].rows
    OBVIOUS
  <2> HIDE DEF kept, keptNext
  <2>6. CASE Record
    <3>1. live' = live \cup {lastRow'} /\ lastRow' = lastRow + 1 /\ lastRow < MaxRows
          /\ keptNext = kept
      BY <2>3, <2>6 DEF Record, files
    <3>2. lastRow' \in 1 .. MaxRows /\ lastRow' \notin 1 .. lastRow
      BY <2>2, <3>1, ArchiveConstants
    <3>3. lastRow' \notin live \cup kept
      BY <2>2, <2>4, <3>2
    <3>4. TheLedger!Record
      BY <2>1, <3>1, <3>2, <3>3 DEF TheLedger!Record
    <3>5. QED
      BY <3>4 DEF TheLedger!Next
  <2>7. CASE Publish
    <3>1. UNCHANGED live
      BY <2>7 DEF Publish, db
    <3>2. CASE UNCHANGED <<archives, held>>
      BY <2>1, <2>3, <3>1, <3>2
    <3>3. CASE /\ archives' = Added(archives, pending.name, pending.file)
               /\ held' = Added(held, pending.name, [rows |-> live, of |-> uuid])
      <4>1. pending.name \notin DOMAIN held
        BY <2>7 DEF IInv, PendingDrawn, Publish
      <4>2. /\ DOMAIN archives' = DOMAIN archives \cup {pending.name}
            /\ held'[pending.name].rows = live
            /\ \A n \in DOMAIN archives : held'[n] = held[n]
        BY <2>2, <3>3, <4>1 DEF Added
      <4>3. \A x : x \in keptNext <=> x \in kept \cup live
        BY <2>4, <2>5, <4>2
      <4>4. keptNext = kept \cup live
        BY <4>3, SetExtensionality
      <4>5. TheLedger!Archive
        BY <2>1, <3>1, <4>4 DEF TheLedger!Archive
      <4>6. QED
        BY <4>5 DEF TheLedger!Next
    <3>4. QED
      BY <2>7, <3>2, <3>3 DEF Publish
  <2>8. CASE Delete
    <3>1. keptNext = kept
      BY <2>3, <2>8 DEF Delete, files
    <3>2. live \subseteq kept
      <4>1. PICK n \in DOMAIN archives : held[n].rows = live
        BY <2>8 DEF IInv, DeletesCopied, Delete, DeletePhases
      <4>2. QED
        BY <2>4, <4>1
    <3>3. live' = {} \/ live' = live
      BY <2>8 DEF Delete
    <3>4. QED
      BY <2>1, <3>1, <3>2, <3>3 DEF TheLedger!Next, TheLedger!Reset
  <2>9. CASE Erase
    <3>1. held' = held /\ live' \in {live, {}}
      BY <2>9 DEF Erase
    <3>2. DOMAIN archives' \subseteq DOMAIN archives
      BY <2>9 DEF Erase
    <3>3. keptNext \subseteq kept
      BY <2>4, <2>5, <3>1, <3>2
    <3>4. TheLedger!Erase
      BY <2>1, <3>1, <3>3 DEF TheLedger!Erase
    <3>5. QED
      BY <3>4 DEF TheLedger!Next
  <2>10. CASE ExportPassphrase
    <3>1. UNCHANGED <<live, archives>>
      BY <2>10 DEF ExportPassphrase, db
    <3>2. \A n \in DOMAIN held : held'[n] = held[n]
      <4>1. seals' \notin DOMAIN held
        BY <2>10 DEF IInv, TypeOK, ExportPassphrase
      <4>2. held' = held \/ \E e : held' = Added(held, seals', e)
        BY <2>10 DEF ExportPassphrase
      <4>3. QED
        BY <4>1, <4>2 DEF Added
    <3>3. \A x : x \in keptNext <=> x \in kept
      BY <2>2, <2>4, <2>5, <3>1, <3>2
    <3>4. keptNext = kept
      BY <3>3, SetExtensionality
    <3>5. QED
      BY <2>1, <3>1, <3>4
  <2>11. CASE Hurt
    <3>1. UNCHANGED <<live, held>> /\ DOMAIN archives' = DOMAIN archives
      BY <2>11 DEF Hurt, db
    <3>2. \A x : x \in keptNext <=> x \in kept
      BY <2>4, <2>5, <3>1
    <3>3. keptNext = kept
      BY <3>2, SetExtensionality
    <3>4. QED
      BY <2>1, <3>1, <3>3
  <2>12. CASE Stage \/ SealStaged \/ Verify \/ Clean \/ Scrub \/ Replace \/ Crash
              \/ UNCHANGED vars
    <3>1. UNCHANGED <<live, archives, held>>
      BY <2>12 DEF Stage, SealStaged, Verify, Clean, Scrub, Replace, Crash, vars, db, files
    <3>2. QED
      BY <2>1, <2>3, <3>1
  <2>13. QED
    BY <2>6, <2>7, <2>8, <2>9, <2>10, <2>11, <2>12 DEF Next
<1>5. QED
  BY <1>1, <1>4, Invariant, PTL DEF Spec, ImplementsLedger, TheLedger!Spec
=============================================================================
