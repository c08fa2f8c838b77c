------------------------- MODULE FileFollowerProofs -------------------------
(***************************************************************************)
(* What FileFollower promises, for files of any length and any number of   *)
(* truncations, crashes and errors.  NothingSkipped and OffsetsSafe need   *)
(* each other: *f.state is set to the reader's index, so it is safe only   *)
(* if the reader skips nothing, and a reader that opens at *f.state skips  *)
(* nothing only if *f.state is safe.  FInv adds what makes both inductive: *)
(* the buffer is the piece of the file that follows the index (ReaderInv), *)
(* and where currLine, the buffer and the line in hand are empty (PcInv).  *)
(***************************************************************************)
EXTENDS FileFollower, TLAPS, WellFoundedInduction

\* A nonempty set of naturals has a least element.
LEMMA LeastExists ==
  ASSUME NEW S, S \subseteq Nat, S # {}
  PROVE  \E x \in S : \A y \in S : x <= y
<1>1. \E x \in S : \A y \in S : ~(<<y, x>> \in OpToRel(<, Nat))
  BY WFMin, NatLessThanWellFounded, Zenon
<1>2. \A x, y \in Nat : ~(<<y, x>> \in OpToRel(<, Nat)) => x <= y
  BY DEF OpToRel
<1> QED BY <1>1, <1>2, Zenon

\* First is the least element.
LEMMA FirstIs ==
  ASSUME NEW S, S \subseteq Nat, S # {}
  PROVE  First(S) \in S /\ \A j \in S : First(S) <= j
BY LeastExists, Zenon DEF First

\* Last is the greatest element.
LEMMA LastIs ==
  ASSUME NEW n \in Nat, NEW S, S \subseteq 1..n, S # {}
  PROVE  Last(S) \in S /\ \A j \in S : j <= Last(S)
<1> DEFINE T == {m \in Nat : n - m \in S}
<1>1. T \subseteq Nat
  OBVIOUS
<1>2. T # {}
  <2>1. PICK i \in S : TRUE
    BY Zenon
  <2>2. n - i \in Nat /\ n - (n - i) = i
    OBVIOUS
  <2>3. n - i \in T
    BY <2>2
  <2> QED BY <2>3, Zenon
<1>3. PICK x \in T : \A y \in T : x <= y
  BY <1>1, <1>2, LeastExists, Zenon
<1>4. n - x \in S
  OBVIOUS
<1>5. \A j \in S : j <= n - x
  <2> SUFFICES ASSUME NEW j \in S PROVE j <= n - x
    OBVIOUS
  <2>1. n - j \in Nat /\ n - (n - j) = j
    OBVIOUS
  <2>2. n - j \in T
    BY <2>1
  <2>3. x <= n - j
    BY <1>3, <2>2
  <2> QED BY <2>1, <2>3
<1> QED BY <1>4, <1>5, Zenon DEF Last

-----------------------------------------------------------------------------
\* What the reader holds: its index is that of the first byte of the buffer,
\* the buffer is a piece of the file, and nothing before it is forgotten.
ReaderInv ==
  /\ idx + Len(buf) = foff /\ rgen <= gen
  /\ rgen = gen => /\ foff <= Len(file)
                   /\ \A i \in 1..Len(buf) : buf[i] = Bytes[idx + i]
                   /\ Accounted(idx, currLine \o ln)

\* The offsets count in a generation up to now, and nothing before them is lost.
OffsetInv ==
  /\ stateGen <= gen /\ (stateGen = gen => state <= Len(file) /\ Accounted(state, <<>>))
  /\ savedGen <= gen /\ (savedGen = gen => saved <= Len(file) /\ Accounted(saved, <<>>))

\* What is empty where.
PcInv ==
  /\ pc \in {"down", "closed", "opened", "dead"} => buf = <<>> /\ currLine = <<>>
  /\ pc = "size" => buf = <<>>
  /\ pc \in {"handle", "store"} => currLine = <<>> /\ ln # <<>>
  /\ pc \notin {"handle", "store"} => ln = <<>>
  /\ pc = "store" /\ rgen = gen => Ids(ln) \subseteq handled

\* What is a sequence.
SeqInv == file \in Seq(BOOLEAN) /\ buf \in Seq(Byte) /\ currLine \in Seq(Byte) /\ ln \in Seq(Byte)

\* The inductive invariant.
FInv == TypeOK /\ SeqInv /\ ReaderInv /\ OffsetInv /\ PcInv

-----------------------------------------------------------------------------
\* Text keeps all that is no newline.
LEMMA TextKeeps ==
  ASSUME NEW b \in Seq(Byte)
  PROVE  /\ Text(b) \in Seq(Byte)
         /\ \A i \in 1..Len(b) : ~b[i].nl => \E j \in 1..Len(Text(b)) : Text(b)[j] = b[i]
         /\ Len(Text(b)) <= Len(b)
<1> DEFINE T == {i \in 1..Len(b) : ~b[i].nl}
<1>1. CASE T = {}
  <2>1. Text(b) = <<>>
    BY <1>1 DEF Text
  <2> QED BY <1>1, <2>1
<1>2. CASE T # {}
  <2>1. Text(b) = SubSeq(b, First(T), Last(T))
    BY <1>2, Zenon DEF Text
  <2>b. T \subseteq 1..Len(b) /\ T \subseteq Nat /\ Len(b) \in Nat
    OBVIOUS
  <2>2. First(T) \in T /\ \A j \in T : First(T) <= j
    <3> HIDE DEF T
    <3> QED BY <1>2, <2>b, FirstIs, Zenon
  <2>3. Last(T) \in T /\ \A j \in T : j <= Last(T)
    <3> HIDE DEF T
    <3> QED BY <1>2, <2>b, LastIs, Zenon
  <2>a. First(T) \in 1..Len(b) /\ Last(T) \in 1..Len(b) /\ First(T) <= Last(T)
    BY <2>2, <2>3
  <2> HIDE DEF T
  <2> DEFINE f == First(T)  l == Last(T)
  <2>4. /\ SubSeq(b, f, l) \in Seq(Byte) /\ Len(SubSeq(b, f, l)) = l - f + 1
        /\ \A i \in 1..(l - f + 1) : SubSeq(b, f, l)[i] = b[f + i - 1]
    BY <2>a
  <2>5. ASSUME NEW i \in 1..Len(b), ~b[i].nl
        PROVE  \E j \in 1..Len(Text(b)) : Text(b)[j] = b[i]
    <3>1. i \in T
      BY <2>5 DEF T
    <3>2. f <= i /\ i <= l
      BY <3>1, <2>2, <2>3
    <3>3. i - f + 1 \in 1..(l - f + 1) /\ f + (i - f + 1) - 1 = i
      BY <3>2, <2>a
    <3> QED BY <3>3, <2>4, <2>1
  <2> QED BY <2>1, <2>4, <2>5, <2>a
<1> QED BY <1>1, <1>2

\* Data is the file from the index on.
LEMMA DataIs ==
  ASSUME FInv
  PROVE  /\ Data \in Seq(Byte)
         /\ Len(Data) >= Len(buf) /\ (foff <= Len(file) => idx + Len(Data) = Len(file))
         /\ foff > Len(file) => Len(Data) = Len(buf)
         /\ foff = 0 => idx = 0 /\ buf = <<>>
         /\ \A i \in 1..Len(buf) : Data[i] = buf[i]
         /\ rgen = gen \/ foff = 0 =>
              foff <= Len(file) /\ \A i \in 1..Len(Data) : Data[i] = Bytes[idx + i]
<1> USE FollowerAssumption DEF FInv, SeqInv, ReaderInv
<1>0. /\ Len(file) \in Nat /\ Len(file) <= MaxBytes /\ gen \in 0..MaxTruncs /\ foff \in Nat /\ idx \in Nat
      /\ file \in Seq(BOOLEAN) /\ buf \in Seq(Byte) /\ idx + Len(buf) = foff
  BY DEF TypeOK
<1>1. Bytes \in Seq(Byte) /\ Len(Bytes) = Len(file) /\ \A i \in 1..Len(file) : Bytes[i] = [gen |-> gen, pos |-> i, nl |-> file[i]]
  <2>1. \A i \in 1..Len(file) : [gen |-> gen, pos |-> i, nl |-> file[i]] \in Byte
    BY <1>0 DEF Byte
  <2> QED BY <1>0, <2>1 DEF Bytes
<1> DEFINE rest == SubSeq(Bytes, foff + 1, Len(file))
<1>2. /\ rest \in Seq(Byte)
      /\ foff <= Len(file) => Len(rest) = Len(file) - foff /\ \A i \in 1..Len(rest) : rest[i] = Bytes[foff + i]
      /\ foff > Len(file) => rest = <<>>
  BY <1>0, <1>1
<1>3. Data = buf \o rest
  BY DEF Data
<1> HIDE DEF rest, FInv, SeqInv, ReaderInv
<1>4. /\ Data \in Seq(Byte) /\ Len(Data) = Len(buf) + Len(rest)
      /\ \A i \in 1..Len(buf) : Data[i] = buf[i]
      /\ \A i \in 1..Len(rest) : Data[Len(buf) + i] = rest[i]
  BY <1>0, <1>2, <1>3
<1>5. foff = 0 => idx = 0 /\ buf = <<>>
  BY <1>0
<1>6. ASSUME rgen = gen \/ foff = 0
      PROVE  foff <= Len(file) /\ \A i \in 1..Len(Data) : Data[i] = Bytes[idx + i]
  <2>1. foff <= Len(file) /\ \A i \in 1..Len(buf) : buf[i] = Bytes[idx + i]
    BY <1>0, <1>5, <1>6 DEF FInv, ReaderInv
  <2>2. ASSUME NEW i \in 1..Len(Data) PROVE Data[i] = Bytes[idx + i]
    <3>1. CASE i <= Len(buf)
      BY <3>1, <2>1, <1>4, <1>0
    <3>2. CASE i > Len(buf)
      <4>1. i - Len(buf) \in 1..Len(rest) /\ Len(buf) + (i - Len(buf)) = i /\ foff + (i - Len(buf)) = idx + i
        <5>1. Len(buf) \in Nat /\ Len(rest) \in Nat /\ Len(Data) = Len(buf) + Len(rest) /\ i \in Nat
          BY <1>0, <1>2, <1>4
        <5> HIDE DEF Data
        <5> QED BY <3>2, <5>1, <1>0
      <4>2. Data[i] = rest[i - Len(buf)]
        BY <4>1, <1>4
      <4>3. rest[i - Len(buf)] = Bytes[foff + (i - Len(buf))]
        BY <4>1, <1>2, <2>1
      <4> QED BY <4>1, <4>2, <4>3, Zenon
    <3> QED BY <3>1, <3>2, <1>0
  <2> QED BY <2>1, <2>2
<1> QED BY <1>0, <1>2, <1>4, <1>5, <1>6

\* The bytes of a concatenation.
LEMMA IdsConcat ==
  ASSUME NEW a \in Seq(Byte), NEW b \in Seq(Byte)
  PROVE  Ids(a \o b) = Ids(a) \cup Ids(b)
<1>1. a \o b \in Seq(Byte) /\ Len(a \o b) = Len(a) + Len(b) /\ Len(a) \in Nat /\ Len(b) \in Nat
  OBVIOUS
<1>2. \A i \in 1..Len(a) : (a \o b)[i] = a[i]
  OBVIOUS
<1>3. \A i \in 1..Len(b) : (a \o b)[Len(a) + i] = b[i]
  OBVIOUS
<1>4. ASSUME NEW x \in Ids(a) \cup Ids(b) PROVE x \in Ids(a \o b)
  <2>1. CASE x \in Ids(a)
    <3>1. PICK i \in 1..Len(a) : x = <<a[i].gen, a[i].pos>>
      BY <2>1 DEF Ids
    <3>2. i \in 1..Len(a \o b) /\ (a \o b)[i] = a[i]
      BY <1>1, <1>2
    <3> QED BY <3>1, <3>2 DEF Ids
  <2>2. CASE x \in Ids(b)
    <3>1. PICK i \in 1..Len(b) : x = <<b[i].gen, b[i].pos>>
      BY <2>2 DEF Ids
    <3>2. Len(a) + i \in 1..Len(a \o b) /\ (a \o b)[Len(a) + i] = b[i]
      BY <1>1, <1>3
    <3> QED BY <3>1, <3>2 DEF Ids
  <2> QED BY <1>4, <2>1, <2>2
<1>5. ASSUME NEW x \in Ids(a \o b) PROVE x \in Ids(a) \cup Ids(b)
  <2>1. PICK i \in 1..Len(a \o b) : x = <<(a \o b)[i].gen, (a \o b)[i].pos>>
    BY <1>5 DEF Ids
  <2>2. CASE i <= Len(a)
    BY <2>1, <2>2, <1>1, <1>2 DEF Ids
  <2>3. CASE i > Len(a)
    <3>1. i - Len(a) \in 1..Len(b) /\ Len(a) + (i - Len(a)) = i
      BY <2>3, <1>1
    <3>2. (a \o b)[i] = b[i - Len(a)]
      BY <3>1, <1>3
    <3> QED BY <2>1, <3>1, <3>2 DEF Ids
  <2> QED BY <2>2, <2>3, <1>1
<1> QED BY <1>4, <1>5

\* The empty sequence holds no byte.
LEMMA IdsEmpty == Ids(<<>>) = {}
BY DEF Ids

\* With the text of the first k bytes of Data, k more bytes are accounted for.
LEMMA Consumed ==
  ASSUME FInv, ln = <<>>, rgen = gen \/ foff = 0, NEW k \in 0..Len(Data),
         NEW d \in Seq(Byte), Len(d) = k, \A i \in 1..k : d[i] = Data[i]
  PROVE  Accounted(idx + k, currLine \o Text(d))
<1> DEFINE s == currLine \o Text(d)
<1>1. Text(d) \in Seq(Byte) /\ currLine \in Seq(Byte) /\ <<>> \in Seq(Byte)
  BY TextKeeps DEF FInv, SeqInv
<1>2. Ids(s) = Ids(currLine) \cup Ids(Text(d))
  BY <1>1, IdsConcat
<1>3. Ids(currLine \o ln) = Ids(currLine)
  BY <1>1, IdsConcat, IdsEmpty
<1>4. idx \in Nat /\ k \in Nat /\ gen \in Nat /\ file \in Seq(BOOLEAN) /\ Len(file) \in Nat
  BY DataIs, FollowerAssumption DEF FInv, TypeOK, SeqInv
<1>5. SUFFICES ASSUME NEW p \in 1..(idx + k), p <= Len(file), ~file[p]
               PROVE  <<gen, p>> \in handled \cup Ids(s)
  BY DEF Accounted
<1>6. CASE p <= idx
  <2>1. rgen = gen
    BY <1>6, <1>4, DataIs
  <2>2. Accounted(idx, currLine \o ln)
    BY <2>1 DEF FInv, ReaderInv
  <2>3. <<gen, p>> \in handled \cup Ids(currLine)
    BY <2>2, <1>3, <1>4, <1>5, <1>6 DEF Accounted
  <2> QED BY <2>3, <1>2
<1>7. CASE p > idx
  <2> DEFINE i == p - idx
  <2>1. i \in 1..k /\ i \in 1..Len(Data) /\ idx + i = p
    <3>1. Len(Data) \in Nat
      BY DataIs
    <3> HIDE DEF Data
    <3> QED BY <3>1, <1>4, <1>5, <1>7
  <2>2. d[i] = Bytes[p]
    BY <2>1, DataIs
  <2>3. Bytes[p] = [gen |-> gen, pos |-> p, nl |-> file[p]]
    BY <1>4, <1>5 DEF Bytes
  <2>4. ~d[i].nl /\ d[i].gen = gen /\ d[i].pos = p
    BY <2>2, <2>3, <1>5
  <2>5. PICK j \in 1..Len(Text(d)) : Text(d)[j] = d[i]
    BY <2>1, <2>4, TextKeeps
  <2>6. <<gen, p>> \in Ids(Text(d))
    BY <2>4, <2>5 DEF Ids
  <2> QED BY <2>6, <1>2
<1> QED BY <1>6, <1>7, <1>4

\* The types of the variables a read changes.
ReadTypes ==
  /\ {foff, idx} \subseteq 0..MaxBytes /\ rgen \in 0..MaxTruncs
  /\ buf \in Seq(Byte) /\ currLine \in Seq(Byte) /\ ln \in Seq(Byte)

\* The bounds of the numbers the reader works with.
LEMMA Numbers ==
  ASSUME FInv
  PROVE  /\ idx \in 0..MaxBytes /\ foff \in 0..MaxBytes /\ Len(file) \in 0..MaxBytes /\ Len(buf) \in Nat
         /\ gen \in 0..MaxTruncs /\ rgen \in 0..gen /\ MaxBytes \in Nat /\ MaxTruncs \in Nat
         /\ idx + Len(buf) = foff
<1>1. MaxBytes \in Nat /\ MaxTruncs \in Nat
  BY FollowerAssumption
<1>2. idx \in 0..MaxBytes /\ foff \in 0..MaxBytes /\ gen \in 0..MaxTruncs /\ rgen \in 0..MaxTruncs /\ Len(file) <= MaxBytes
  BY DEF FInv, TypeOK
<1>3. file \in Seq(BOOLEAN) /\ buf \in Seq(Byte)
  BY DEF FInv, SeqInv
<1>4. idx + Len(buf) = foff /\ rgen <= gen
  BY DEF FInv, ReaderInv
<1>5. Len(file) \in Nat /\ Len(buf) \in Nat
  BY <1>3
<1> QED BY <1>1, <1>2, <1>4, <1>5

\* ReadEntry stops at the first newline that ends a line with text in it.
LEMMA FirstEndIs ==
  ASSUME FInv, Ends(Data) # {}
  PROVE  /\ FirstEnd(Data) \in 1..Len(Data) /\ Data[FirstEnd(Data)].nl
         /\ currLine # <<>> \/ \E j \in 1..FirstEnd(Data) : ~Data[j].nl
<1>1. Ends(Data) \subseteq Nat
  BY DataIs DEF Ends
<1>2. FirstEnd(Data) \in Ends(Data)
  BY <1>1, FirstIs, Zenon DEF FirstEnd
<1> QED BY <1>2 DEF Ends

\* What ReadLine leaves in the buffer is what follows the line in Data.
LEMMA ReadLineBuffer ==
  ASSUME FInv, Ends(Data) # {}, ReadLine(Data)
  PROVE  /\ buf' \in Seq(Byte) /\ foff' \in 0..MaxBytes /\ idx' \in 0..MaxBytes /\ idx' + Len(buf') = foff'
         /\ (foff <= Len(file) => foff' <= Len(file))
         /\ \A i \in 1..Len(buf') : FirstEnd(Data) + i \in 1..Len(Data) /\ buf'[i] = Data[FirstEnd(Data) + i]
<1> DEFINE k == FirstEnd(Data)
<1>a. Data \in Seq(Byte) /\ Len(Data) \in Nat
  BY DataIs
<1>b. k \in 1..Len(Data)
  BY FirstEndIs
<1>c. idx' = idx + k
  BY DEF ReadLine
<1>1. CASE k <= Len(buf)
  <2>1. buf' = SubSeq(buf, k + 1, Len(buf)) /\ foff' = foff
    BY <1>1, Zenon DEF ReadLine
  <2>2. buf \in Seq(Byte) /\ Len(buf) <= Len(Data)
    BY DataIs DEF FInv, SeqInv
  <2>3. buf' \in Seq(Byte) /\ Len(buf') = Len(buf) - k /\ \A i \in 1..Len(buf') : buf'[i] = buf[k + i]
    BY <2>1, <2>2, <1>1, <1>b
  <2>4. ASSUME NEW i \in 1..Len(buf') PROVE k + i \in 1..Len(buf) /\ k + i \in 1..Len(Data) /\ buf'[i] = Data[k + i]
    <3>1. k + i \in 1..Len(buf) /\ k + i \in 1..Len(Data)
      <4> HIDE DEF Data, k
      <4> QED BY <2>3, <2>2, <1>a, <1>b
    <3> QED BY <3>1, <2>3, DataIs
  <2>5. /\ foff' \in 0..MaxBytes /\ idx' \in 0..MaxBytes /\ idx' + Len(buf') = foff'
        /\ (foff <= Len(file) => foff' <= Len(file))
    <3>1. k \in Nat /\ k <= Len(buf) /\ idx' = idx + k /\ foff' = foff /\ Len(buf') = Len(buf) - k
      BY <2>1, <2>3, <1>1, <1>a, <1>b, <1>c
    <3> HIDE DEF k
    <3> QED BY <3>1, Numbers
  <2> QED BY <2>3, <2>4, <2>5, Zenon
<1>2. CASE k > Len(buf)
  <2>1. buf' = SubSeq(Data, k + 1, Len(Data)) /\ foff' = Len(file)
    <3>1. ~(k <= Len(buf))
      BY <1>2, <1>b, Numbers
    <3> QED BY <3>1, Zenon DEF ReadLine
  <2>2. foff <= Len(file) /\ idx + Len(Data) = Len(file)
    BY <1>2, <1>b, DataIs, Numbers
  <2>3. buf' \in Seq(Byte) /\ Len(buf') = Len(Data) - k /\ \A i \in 1..Len(buf') : buf'[i] = Data[k + i]
    BY <2>1, <1>a, <1>b
  <2>4. k \in 1..Len(Data) /\ Len(Data) \in Nat
    BY <1>a, <1>b
  <2>5. /\ foff' \in 0..MaxBytes /\ idx' \in 0..MaxBytes /\ idx' + Len(buf') = foff'
        /\ (foff <= Len(file) => foff' <= Len(file))
    <3>1. idx' = idx + k /\ foff' = Len(file) /\ Len(buf') = Len(Data) - k
      BY <2>1, <2>3, <1>c
    <3>2. k \in Nat /\ k <= Len(Data)
      BY <2>4
    <3> HIDE DEF k
    <3>3. idx \in Nat /\ idx + k <= Len(file) /\ Len(file) \in 0..MaxBytes /\ MaxBytes \in Nat
      BY <3>2, <2>2, <2>4, Numbers
    <3>4. idx' + Len(buf') = foff'
      BY <3>1, <3>2, <3>3, <2>2, <2>4
    <3> QED BY <3>1, <3>2, <3>3, <3>4
  <2>6. \A i \in 1..Len(buf') : k + i \in 1..Len(Data)
    <3>1. Len(buf') = Len(Data) - k
      BY <2>3
    <3> HIDE DEF k, Data
    <3> QED BY <2>4, <3>1
  <2> QED BY <2>3, <2>5, <2>6, Zenon
<1>3. k <= Len(buf) \/ k > Len(buf)
  <2>1. k \in Nat
    BY <1>a, <1>b
  <2> HIDE DEF k
  <2> QED BY <2>1, Numbers
<1> QED BY <1>1, <1>2, <1>3, Zenon

\* A line that was read: the reader counts what it takes, and no more.
LEMMA ReadLineKeeps ==
  ASSUME FInv, ln = <<>>, Ends(Data) # {}, ReadLine(Data), UNCHANGED <<fileVars, handled>>
  PROVE  ReaderInv' /\ ReadTypes' /\ ln' # <<>> /\ currLine' = <<>>
<1> DEFINE k == FirstEnd(Data)  d == SubSeq(Data, 1, k)
<1>0. Data \in Seq(Byte) /\ Len(Data) \in Nat
  BY DataIs
<1>1. k \in 1..Len(Data) /\ Data[k].nl /\ (currLine # <<>> \/ \E j \in 1..k : ~Data[j].nl)
  BY FirstEndIs
<1>2. d \in Seq(Byte) /\ Len(d) = k /\ \A i \in 1..k : d[i] = Data[i]
  BY <1>0, <1>1
<1>3. /\ ln' = currLine \o Text(d) /\ currLine' = <<>> /\ idx' = idx + k
      /\ rgen' = IF foff = 0 THEN gen ELSE rgen
  BY DEF ReadLine
<1>4. file' = file /\ gen' = gen /\ handled' = handled
  BY DEF fileVars
<1>5. Text(d) \in Seq(Byte) /\ currLine \in Seq(Byte)
  BY <1>2, TextKeeps, Zenon DEF FInv, SeqInv
<1>6. ln' \in Seq(Byte) /\ ln' # <<>>
  <2>1. CASE currLine # <<>>
    BY <2>1, <1>3, <1>5
  <2>2. CASE \E j \in 1..k : ~Data[j].nl
    <3>1. PICK j \in 1..k : ~d[j].nl
      BY <2>2, <1>2
    <3>2. Len(Text(d)) > 0
      <4>1. PICK i \in 1..Len(Text(d)) : TRUE
        <5> HIDE DEF d, k
        <5> QED BY <3>1, <1>2, TextKeeps
      <4>2. Len(Text(d)) \in Nat
        BY <1>5
      <4> HIDE DEF d
      <4> QED BY <4>1, <4>2
    <3> QED BY <3>2, <1>3, <1>5
  <2> QED BY <2>1, <2>2, <1>1
<1>7. /\ buf' \in Seq(Byte) /\ foff' \in 0..MaxBytes /\ idx' \in 0..MaxBytes /\ idx' + Len(buf') = foff'
      /\ (foff <= Len(file) => foff' <= Len(file))
      /\ \A i \in 1..Len(buf') : k + i \in 1..Len(Data) /\ buf'[i] = Data[k + i]
  BY ReadLineBuffer
<1>8. rgen' \in 0..MaxTruncs /\ rgen' <= gen'
  BY <1>3, <1>4, Numbers
<1>9. ASSUME rgen' = gen'
      PROVE  /\ foff' <= Len(file') /\ (\A i \in 1..Len(buf') : buf'[i] = Bytes'[idx' + i])
             /\ Accounted(idx, currLine \o ln)'
  <2>1. rgen = gen \/ foff = 0
    BY <1>9, <1>3, <1>4, Zenon
  <2>2. Bytes' = Bytes
    BY <1>4 DEF Bytes
  <2>3. foff' <= Len(file')
    BY <2>1, <1>4, <1>7, DataIs
  <2>4. ASSUME NEW i \in 1..Len(buf') PROVE buf'[i] = Bytes'[idx' + i]
    <3>1. buf'[i] = Bytes[idx + (k + i)]
      BY <2>1, <1>7, DataIs
    <3>2. idx + (k + i) = idx' + i
      <4>1. k \in Nat
        BY <1>0, <1>1
      <4>2. idx \in Nat /\ i \in Nat
        BY Numbers
      <4>3. idx' = idx + k
        BY <1>3
      <4> HIDE DEF k
      <4> QED BY <4>1, <4>2, <4>3
    <3> QED BY <3>1, <3>2, <2>2
  <2>5. Accounted(idx + k, currLine \o Text(d))
    <3>1. k \in 0..Len(Data)
      BY <1>1
    <3> HIDE DEF d, k
    <3> QED BY <3>1, <2>1, <1>2, Consumed
  <2>6. currLine' \o ln' = ln'
    BY <1>3, <1>6
  <2>7. Accounted(idx, currLine \o ln)'
    BY <2>5, <2>6, <1>3, <1>4 DEF Accounted
  <2> QED BY <2>3, <2>4, <2>7
<1> QED BY <1>3, <1>6, <1>7, <1>8, <1>9 DEF ReaderInv, ReadTypes

\* All of Data was read and is in currLine or in hand.
LEMMA ReadPartKeeps ==
  ASSUME FInv, ln = <<>>, ReadPart(Data), UNCHANGED <<fileVars, handled>>,
         currLine' \in Seq(Byte), ln' \in Seq(Byte),
         Ids(currLine' \o ln') = Ids(currLine \o Text(Data))
  PROVE  ReaderInv' /\ ReadTypes' /\ buf' = <<>>
<1>0. Data \in Seq(Byte) /\ Len(Data) \in Nat
  BY DataIs
<1>1. /\ idx' = idx + Len(Data) /\ buf' = <<>> /\ foff' = foff + Len(Data) - Len(buf)
      /\ rgen' = IF foff = 0 THEN gen ELSE rgen
  BY DEF ReadPart
<1>2. file' = file /\ gen' = gen /\ handled' = handled
  BY DEF fileVars
<1>3. /\ foff' \in 0..MaxBytes /\ idx' \in 0..MaxBytes /\ idx' + Len(buf') = foff'
      /\ (foff <= Len(file) => foff' <= Len(file))
  <2>1. Len(buf') = 0
    BY <1>1
  <2>2. /\ Len(Data) >= Len(buf) /\ (foff <= Len(file) => idx + Len(Data) = Len(file))
        /\ foff > Len(file) => Len(Data) = Len(buf)
    BY DataIs
  <2>3. /\ idx \in Nat /\ foff \in Nat /\ Len(buf) \in Nat /\ Len(file) \in Nat /\ idx + Len(buf) = foff
        /\ Len(file) <= MaxBytes /\ MaxBytes \in Nat /\ foff <= MaxBytes
    BY Numbers
  <2>4. Len(Data) \in Nat /\ idx' = idx + Len(Data) /\ foff' = idx + Len(Data)
    <3>1. \A i, b, n \in Nat : (i + b) + n - b = i + n
      OBVIOUS
    <3>2. (idx + Len(buf)) + Len(Data) - Len(buf) = idx + Len(Data)
      BY <1>0, <2>3, <3>1, ZenonT(60)
    <3>3. foff = idx + Len(buf)
      BY <2>3, Zenon
    <3> QED BY <1>0, <1>1, <3>2, <3>3, Zenon
  <2>5. CASE foff <= Len(file)
    <3>1. idx + Len(Data) = Len(file)
      BY <2>2, <2>5
    <3>2. idx' = Len(file) /\ foff' = Len(file)
      BY <2>4, <3>1, Zenon
    <3> QED BY <2>1, <2>3, <3>2
  <2>6. CASE foff > Len(file)
    <3>1. Len(Data) = Len(buf)
      BY <2>2, <2>6
    <3>2. idx' = foff /\ foff' = foff
      BY <2>3, <2>4, <3>1
    <3> QED BY <2>1, <2>3, <2>6, <3>2
  <2> QED BY <2>3, <2>5, <2>6
<1>4. rgen' \in 0..MaxTruncs /\ rgen' <= gen'
  BY <1>1, <1>2, Numbers
<1>5. ASSUME rgen' = gen'
      PROVE  foff' <= Len(file') /\ Accounted(idx, currLine \o ln)'
  <2>1. rgen = gen \/ foff = 0
    BY <1>5, <1>1, <1>2, Zenon
  <2>2. Accounted(idx + Len(Data), currLine \o Text(Data))
    <3>1. Len(Data) \in 0..Len(Data)
      BY <1>0
    <3> HIDE DEF Data
    <3> QED BY <3>1, <2>1, <1>0, Consumed
  <2>3. foff' <= Len(file')
    BY <2>1, <1>2, <1>3, DataIs
  <2> QED BY <2>2, <2>3, <1>1, <1>2 DEF Accounted
<1> QED BY <1>1, <1>3, <1>4, <1>5 DEF ReaderInv, ReadTypes

-----------------------------------------------------------------------------
\* A step that leaves the file and the reader alone keeps ReaderInv.
LEMMA ReaderKept ==
  ASSUME FInv, UNCHANGED <<fileVars, readerVars, ln>>, handled \subseteq handled'
  PROVE  ReaderInv'
<1> USE DEF fileVars, readerVars
<1>1. Bytes' = Bytes
  BY DEF Bytes
<1>2. Accounted(idx, currLine \o ln) => Accounted(idx, currLine \o ln)'
  BY DEF Accounted
<1> QED BY <1>1, <1>2 DEF FInv, ReaderInv

\* A step that leaves the file and the offsets alone keeps OffsetInv.
LEMMA OffsetsKept ==
  ASSUME FInv, UNCHANGED <<fileVars, stateVars, savedVars>>, handled \subseteq handled'
  PROVE  OffsetInv'
BY DEF FInv, OffsetInv, Accounted, fileVars, stateVars, savedVars

\* A reader that is gone has counted nothing.
LEMMA ShutKeeps ==
  ASSUME FInv, NEW q, Shut(q), UNCHANGED <<fileVars, handled>>
  PROVE  ReaderInv'
<1>1. foff' = 0 /\ idx' = 0 /\ rgen' = 0 /\ buf' = <<>> /\ file' = file /\ gen' = gen
  BY DEF Shut, fileVars
<1>2. Len(file) \in Nat /\ gen \in Nat
  BY Numbers
<1> QED BY <1>1, <1>2 DEF ReaderInv, Accounted

\* One write makes the file longer; nothing that is accounted for lies there.
LEMMA WriteKeeps ==
  ASSUME FInv, Write
  PROVE  FInv'
<1> PICK x \in BOOLEAN : file' = Append(file, x)
  BY DEF Write
<1>0. /\ UNCHANGED <<gen, callVars, readerVars, stateVars, savedVars, histVars, crashes, fails>>
      /\ Len(file) < (IF gen = 0 THEN MaxBytes ELSE MaxAgain) /\ event' = Watching
  BY DEF Write
<1> USE DEF callVars, readerVars, stateVars, savedVars, histVars
<1>1. /\ file' \in Seq(BOOLEAN) /\ Len(file') = Len(file) + 1
      /\ \A i \in 1..Len(file) : file'[i] = file[i]
  BY DEF FInv, SeqInv
<1>2. Len(file) \in Nat /\ Len(file') <= MaxBytes
  BY <1>0, <1>1, Numbers, FollowerAssumption
<1>3. ASSUME NEW o \in Nat, NEW c, o <= Len(file), Accounted(o, c), c' = c
      PROVE  Accounted(o, c)'
  BY <1>0, <1>1, <1>2, <1>3 DEF Accounted, Ids
<1>4. \A i \in 1..Len(file) : Bytes'[i] = Bytes[i]
  BY <1>0, <1>1, <1>2 DEF Bytes
<1>5. TypeOK'
  BY <1>0, <1>1, <1>2 DEF FInv, TypeOK, Watching
<1>6. SeqInv'
  BY <1>0, <1>1 DEF FInv, SeqInv
<1>7. ReaderInv'
  <2>1. ASSUME rgen = gen, NEW i \in 1..Len(buf) PROVE buf[i] = Bytes'[idx + i]
    <3>1. foff <= Len(file) /\ buf[i] = Bytes[idx + i]
      BY <2>1 DEF FInv, ReaderInv
    <3>2. idx \in Nat /\ Len(buf) \in Nat /\ idx + Len(buf) = foff
      BY Numbers
    <3>3. idx + i \in 1..Len(file)
      BY <1>2, <3>1, <3>2
    <3> QED BY <3>1, <3>3, <1>4
  <2>2. rgen = gen => Accounted(idx, currLine \o ln)'
    <3>1. ASSUME rgen = gen PROVE idx \in Nat /\ idx <= Len(file) /\ Accounted(idx, currLine \o ln)
      BY <3>1, Numbers DEF FInv, ReaderInv
    <3> QED BY <3>1, <1>0, <1>1, <1>2 DEF Accounted, Ids
  <2>3. rgen = gen => foff <= Len(file')
    BY <1>1, <1>2, Numbers DEF FInv, ReaderInv
  <2> QED BY <2>1, <2>2, <2>3, <1>0 DEF FInv, ReaderInv
<1>8. OffsetInv'
  <2>1. state \in Nat /\ saved \in Nat
    BY FollowerAssumption DEF FInv, TypeOK
  <2> QED BY <2>1, <1>0, <1>1, <1>2 DEF FInv, OffsetInv, Accounted, Ids
<1>9. PcInv'
  BY <1>0 DEF FInv, PcInv, Ids
<1> QED BY <1>5, <1>6, <1>7, <1>8, <1>9 DEF FInv

\* A truncation begins a generation that no offset counts in yet.
LEMMA TruncateKeeps ==
  ASSUME FInv, Truncate
  PROVE  FInv'
<1>0. /\ UNCHANGED <<callVars, readerVars, stateVars, savedVars, again, crashes, fails>>
      /\ gen < MaxTruncs /\ file' = <<>> /\ gen' = gen + 1 /\ handled' = {} /\ cuts' = {} /\ event' = Watching
  BY DEF Truncate
<1> USE DEF callVars, readerVars, stateVars, savedVars
<1>1. gen' \in 0..MaxTruncs /\ gen' > gen
  BY <1>0, Numbers
<1>2. TypeOK'
  BY <1>0, <1>1, FollowerAssumption DEF FInv, TypeOK, Watching
<1>3. SeqInv'
  BY <1>0 DEF FInv, SeqInv
<1>4. ReaderInv'
  BY <1>0, <1>1, Numbers DEF FInv, ReaderInv
<1>5. OffsetInv'
  <2>1. {stateGen, savedGen} \subseteq 0..gen
    BY FollowerAssumption DEF FInv, TypeOK, OffsetInv
  <2> QED BY <2>1, <1>0, <1>1, Numbers DEF OffsetInv
<1>6. PcInv'
  BY <1>0, <1>1, Numbers DEF FInv, PcInv
<1> QED BY <1>2, <1>3, <1>4, <1>5, <1>6 DEF FInv

\* The places of the follower, and what processLines was called with.
Pcs == {"down", "closed", "opened", "select", "read", "handle", "store", "size", "remain", "dead"}
Modes == {"init", "write", "tick", "remove", "sync"}

\* The types of what a call of processLines is at.
CallTypes == pc \in Pcs /\ mode \in Modes /\ force \in BOOLEAN /\ size \in 0..MaxBytes /\ event \in BOOLEAN

\* The types of the file, the offsets and the histories.
OtherTypes ==
  /\ file \in Seq(BOOLEAN) /\ Len(file) <= MaxBytes /\ gen \in 0..MaxTruncs
  /\ {state, saved} \subseteq 0..MaxBytes /\ {stateGen, savedGen} \subseteq 0..MaxTruncs
  /\ handled \subseteq Id /\ again \subseteq Id /\ cuts \subseteq handled

\* TypeOK and SeqInv, in the three groups the steps change them in.
LEMMA Types == CallTypes /\ ReadTypes /\ OtherTypes <=> TypeOK /\ SeqInv
<1>1. TypeOK /\ SeqInv => CallTypes
  BY DEF CallTypes, TypeOK, Pcs, Modes
<1>2. TypeOK /\ SeqInv => ReadTypes
  BY DEF ReadTypes, TypeOK, SeqInv
<1>3. TypeOK /\ SeqInv => OtherTypes
  BY DEF OtherTypes, TypeOK, SeqInv
<1>4. ASSUME CallTypes, ReadTypes, OtherTypes PROVE TypeOK /\ SeqInv
  <2>1. SeqInv
    BY <1>4 DEF ReadTypes, OtherTypes, SeqInv
  <2>2. \A t \in {ln, buf, currLine} : \A i \in 1..Len(t) : t[i] \in Byte
    BY <2>1 DEF SeqInv
  <2>3. {foff, idx, state, saved, size} \subseteq 0..MaxBytes /\ {rgen, stateGen, savedGen} \subseteq 0..MaxTruncs
    BY <1>4 DEF CallTypes, ReadTypes, OtherTypes
  <2>4. Len(file) <= MaxBytes /\ gen \in 0..MaxTruncs /\ handled \subseteq Id /\ again \subseteq Id /\ cuts \subseteq handled
    BY <1>4 DEF OtherTypes
  <2>5. pc \in Pcs /\ mode \in Modes /\ force \in BOOLEAN /\ event \in BOOLEAN
    BY <1>4, Zenon DEF CallTypes
  <2> QED BY <2>1, <2>2, <2>3, <2>4, <2>5, Zenon DEF TypeOK, Pcs, Modes
<1> QED BY <1>1, <1>2, <1>3, <1>4

\* The same for the next state.
LEMMA TypesNext == CallTypes' /\ ReadTypes' /\ OtherTypes' => TypeOK' /\ SeqInv'
BY Types, PTL

\* What Shut leaves behind.
LEMMA ShutTypes ==
  ASSUME NEW q \in Pcs, Shut(q)
  PROVE  CallTypes' /\ ReadTypes' /\ buf' = <<>> /\ currLine' = <<>> /\ ln' = <<>> /\ pc' = q
<1>1. /\ pc' = q /\ mode' = "init" /\ size' = 0 /\ force' = FALSE /\ ln' = <<>> /\ event' = FALSE
      /\ foff' = 0 /\ buf' = <<>> /\ idx' = 0 /\ currLine' = <<>> /\ rgen' = 0
  BY DEF Shut
<1>2. 0 \in 0..MaxBytes /\ 0 \in 0..MaxTruncs
  BY FollowerAssumption
<1>3. CallTypes'
  BY <1>1, <1>2, Zenon DEF CallTypes, Modes
<1>4. ReadTypes'
  BY <1>1, <1>2 DEF ReadTypes
<1> QED BY <1>1, <1>3, <1>4

\* Shut, with a state and a state file that are safe, keeps the invariant.
LEMMA ShutInv ==
  ASSUME FInv, NEW q \in Pcs \ {"handle", "store"}, Shut(q), UNCHANGED <<fileVars, handled>>, OffsetInv', OtherTypes'
  PROVE  FInv'
<1>1. ReaderInv'
  BY ShutKeeps
<1>2. CallTypes' /\ ReadTypes' /\ buf' = <<>> /\ currLine' = <<>> /\ ln' = <<>> /\ pc' = q
  BY ShutTypes
<1>3. TypeOK' /\ SeqInv'
  BY <1>2, TypesNext
<1>4. PcInv'
  BY <1>2 DEF PcInv
<1> QED BY <1>1, <1>3, <1>4 DEF FInv

\* A step of the reader alone.
LEMMA OtherKept ==
  ASSUME FInv, UNCHANGED <<fileVars, stateVars, savedVars, histVars>>
  PROVE  OtherTypes' /\ OffsetInv'
<1>1. OtherTypes
  BY Types DEF FInv
<1>2. OffsetInv'
  BY OffsetsKept DEF histVars
<1> QED BY <1>1, <1>2 DEF OtherTypes, fileVars, stateVars, savedVars, histVars

\* A call of processLines.
LEMMA EnterKeeps ==
  ASSUME FInv, NEW m \in Modes, Enter(m), event' \in BOOLEAN, pc \in {"opened", "select"}
  PROVE  FInv'
<1> USE DEF fileVars, readerVars, stateVars, savedVars, histVars
<1>0. /\ pc' = "read" /\ mode' = m /\ size' \in {0, Len(file)}
      /\ UNCHANGED <<fileVars, force, ln, readerVars, stateVars, savedVars, histVars, crashes, fails>>
  BY DEF Enter
<1>1. OtherTypes' /\ OffsetInv'
  BY <1>0, OtherKept
<1>2. ReaderInv'
  BY <1>0, ReaderKept
<1>3. CallTypes'
  BY <1>0, Numbers, Types DEF FInv, CallTypes, Pcs
<1>4. ReadTypes'
  BY <1>0, Types DEF FInv, ReadTypes
<1>5. PcInv'
  BY <1>0 DEF FInv, PcInv
<1> QED BY <1>1, <1>2, <1>3, <1>4, <1>5, TypesNext DEF FInv

\* A read: the rest of the invariant follows from what it does to the reader.
LEMMA ReadInv ==
  ASSUME FInv, ReaderInv', ReadTypes', CallTypes', PcInv', UNCHANGED <<fileVars, stateVars, savedVars, histVars>>
  PROVE  FInv'
BY OtherKept, TypesNext DEF FInv

\* ReadEntry gives a line.
LEMMA ReadEntryKeeps ==
  ASSUME FInv, ReadEntry
  PROVE  FInv'
<1>0. /\ pc = "read" /\ Ends(Data) # {} /\ ReadLine(Data) /\ pc' = "handle"
      /\ UNCHANGED <<fileVars, event, mode, size, force, stateVars, savedVars, histVars, crashes, fails>>
  BY DEF ReadEntry
<1>1. ln = <<>>
  BY <1>0 DEF FInv, PcInv
<1>2. ReaderInv' /\ ReadTypes' /\ ln' # <<>> /\ currLine' = <<>>
  BY <1>0, <1>1, ReadLineKeeps DEF histVars
<1>3. CallTypes'
  BY <1>0, Types DEF FInv, CallTypes, Pcs
<1>4. PcInv'
  BY <1>0, <1>2 DEF PcInv
<1> QED BY <1>0, <1>2, <1>3, <1>4, ReadInv

\* ReadEntry reaches the end of the file.
LEMMA ReadEntryEOFKeeps ==
  ASSUME FInv, ReadEntryEOF
  PROVE  FInv'
<1>0. pc = "read" /\ UNCHANGED <<fileVars, stateVars, savedVars, histVars, crashes, fails>>
  BY DEF ReadEntryEOF
<1>1. CASE ReadPart(Data) /\ currLine' = currLine \o Text(Data) /\ pc' \in {"size", "select", "remain"}
           /\ UNCHANGED <<event, mode, size, force, ln>>
  <2>1. ln = <<>> /\ ln' = <<>>
    BY <1>0, <1>1 DEF FInv, PcInv
  <2>2. Text(Data) \in Seq(Byte) /\ currLine \in Seq(Byte) /\ currLine' \in Seq(Byte) /\ ln' \in Seq(Byte)
    BY <1>1, <2>1, DataIs, TextKeeps DEF FInv, SeqInv
  <2>3. currLine' \o ln' = currLine \o Text(Data)
    BY <1>1, <2>1, <2>2
  <2>4. ReaderInv' /\ ReadTypes' /\ buf' = <<>>
    BY <1>0, <1>1, <2>1, <2>2, <2>3, ReadPartKeeps DEF histVars
  <2>5. CallTypes'
    BY <1>1, Types DEF FInv, CallTypes, Pcs
  <2>6. PcInv'
    BY <1>1, <2>1, <2>4 DEF PcInv
  <2> QED BY <1>0, <2>4, <2>5, <2>6, ReadInv
<1>2. CASE Shut("closed")
  BY <1>0, <1>2, OtherKept, ShutInv DEF Pcs, histVars
<1> QED BY <1>1, <1>2 DEF ReadEntryEOF

\* ReadRemaining, in each of its four cases.
LEMMA ReadRemainingKeeps ==
  ASSUME FInv, ReadRemaining
  PROVE  FInv'
<1>0. pc = "remain" /\ UNCHANGED <<fileVars, stateVars, savedVars, histVars, crashes, fails>>
  BY DEF ReadRemaining
<1>a. ln = <<>>
  BY <1>0 DEF FInv, PcInv
<1>b. Text(Data) \in Seq(Byte) /\ currLine \in Seq(Byte)
  BY DataIs, TextKeeps DEF FInv, SeqInv
<1>1. CASE Ends(Data) # {}
  <2>0. ReadLine(Data) /\ pc' = "handle" /\ force' = TRUE /\ UNCHANGED <<event, mode, size>>
    BY <1>1 DEF ReadRemaining
  <2>2. ReaderInv' /\ ReadTypes' /\ ln' # <<>> /\ currLine' = <<>>
    BY <1>0, <1>1, <2>0, <1>a, ReadLineKeeps DEF histVars
  <2>3. CallTypes'
    BY <2>0, Types DEF FInv, CallTypes, Pcs
  <2>4. PcInv'
    BY <2>0, <2>2 DEF PcInv
  <2> QED BY <1>0, <2>2, <2>3, <2>4, ReadInv
<1>2. CASE Ends(Data) = {} /\ currLine \o Text(Data) # <<>>
  <2>0. /\ ReadPart(Data) /\ ln' = currLine \o Text(Data) /\ currLine' = <<>>
        /\ pc' = "handle" /\ force' = TRUE /\ UNCHANGED <<event, mode, size>>
    BY <1>2 DEF ReadRemaining
  <2>1. ln' \in Seq(Byte) /\ currLine' \in Seq(Byte) /\ currLine' \o ln' = currLine \o Text(Data)
    BY <1>b, <2>0
  <2>2. ReaderInv' /\ ReadTypes' /\ buf' = <<>>
    BY <1>0, <1>a, <2>0, <2>1, ReadPartKeeps DEF histVars
  <2>3. CallTypes'
    BY <2>0, Types DEF FInv, CallTypes, Pcs
  <2>4. PcInv'
    BY <1>2, <2>0, <2>2 DEF PcInv
  <2> QED BY <1>0, <2>2, <2>3, <2>4, ReadInv
<1>3. CASE Ends(Data) = {} /\ currLine \o Text(Data) = <<>> /\ mode = "tick"
  <2>0. ReadPart(Data) /\ pc' = "select" /\ UNCHANGED <<event, mode, size, force, ln, currLine>>
    BY <1>3 DEF ReadRemaining
  <2>1. ln' \in Seq(Byte) /\ currLine' \in Seq(Byte) /\ currLine = <<>> /\ currLine' \o ln' = currLine \o Text(Data)
    BY <1>a, <1>b, <1>3, <2>0
  <2>2. ReaderInv' /\ ReadTypes' /\ buf' = <<>>
    BY <1>0, <1>a, <2>0, <2>1, ReadPartKeeps DEF histVars
  <2>3. CallTypes'
    BY <2>0, Types DEF FInv, CallTypes, Pcs
  <2>4. PcInv'
    BY <1>a, <2>0, <2>2 DEF PcInv
  <2> QED BY <1>0, <2>2, <2>3, <2>4, ReadInv
<1>4. CASE Ends(Data) = {} /\ currLine \o Text(Data) = <<>> /\ mode # "tick"
  <2>1. Shut("closed")
    BY <1>4 DEF ReadRemaining
  <2> QED BY <1>0, <2>1, OtherKept, ShutInv DEF Pcs, histVars
<1> QED BY <1>1, <1>2, <1>3, <1>4

\* The line in hand becomes handled.
LEMMA HandleLogKeeps ==
  ASSUME FInv, HandleLog
  PROVE  FInv'
<1>0. /\ pc = "handle" /\ pc' = "store" /\ handled' = handled \cup Ids(ln)
      /\ again' = (IF crashes = 0 THEN again \cup (handled \cap Ids(ln)) ELSE {})
      /\ cuts' = (IF force THEN cuts \cup {<<ln[Len(ln)].gen, ln[Len(ln)].pos>>} ELSE cuts)
      /\ UNCHANGED <<fileVars, event, mode, size, force, ln, readerVars, stateVars, savedVars, crashes, fails>>
  BY DEF HandleLog
<1> USE DEF fileVars, readerVars, stateVars, savedVars
<1>1. ln \in Seq(Byte) /\ ln # <<>> /\ currLine = <<>>
  BY <1>0 DEF FInv, PcInv, SeqInv
<1>2. Ids(ln) \subseteq Id
  <2> SUFFICES ASSUME NEW i \in 1..Len(ln) PROVE <<ln[i].gen, ln[i].pos>> \in Id
    BY DEF Ids
  <2>1. ln[i] \in Byte
    BY <1>1
  <2> QED BY <2>1 DEF Byte, Id
<1>3. <<ln[Len(ln)].gen, ln[Len(ln)].pos>> \in Ids(ln)
  <2>1. Len(ln) \in 1..Len(ln)
    BY <1>1
  <2> QED BY <2>1 DEF Ids
<1>4. OtherTypes'
  <2>1. OtherTypes
    BY Types DEF FInv
  <2>2. handled' \subseteq Id /\ again' \subseteq Id /\ cuts' \subseteq handled'
    BY <2>1, <1>0, <1>2, <1>3 DEF OtherTypes
  <2> QED BY <2>1, <2>2, <1>0 DEF OtherTypes
<1>5. CallTypes' /\ ReadTypes'
  <2>1. CallTypes /\ ReadTypes
    BY Types DEF FInv
  <2> QED BY <2>1, <1>0 DEF CallTypes, ReadTypes, Pcs
<1>6. ReaderInv' /\ OffsetInv'
  BY <1>0, ReaderKept, OffsetsKept
<1>7. PcInv'
  <2>1. Ids(ln)' = Ids(ln)
    BY <1>0 DEF Ids
  <2> QED BY <2>1, <1>0, <1>1 DEF PcInv
<1> QED BY <1>4, <1>5, <1>6, <1>7, TypesNext DEF FInv

\* *f.state = f.lnr.Index(): all that was read has been handled.
LEMMA StoreStateKeeps ==
  ASSUME FInv, StoreState
  PROVE  FInv'
<1>0. pc = "store" /\ state' = idx /\ stateGen' = rgen /\ UNCHANGED <<fileVars, savedVars, histVars, crashes, fails>>
  BY DEF StoreState
<1> USE DEF fileVars, savedVars, histVars
<1>1. ln \in Seq(Byte) /\ currLine = <<>> /\ (rgen = gen => Ids(ln) \subseteq handled)
  BY <1>0 DEF FInv, PcInv, SeqInv
<1>2. rgen = gen => Accounted(idx, <<>>)
  <2>1. ASSUME rgen = gen PROVE Accounted(idx, <<>>)
    <3>1. Accounted(idx, currLine \o ln)
      BY <2>1 DEF FInv, ReaderInv
    <3>2. Ids(currLine \o ln) \subseteq handled
      <4>1. currLine \o ln = ln
        BY <1>1
      <4> QED BY <4>1, <1>1, <2>1
    <3> QED BY <3>1, <3>2 DEF Accounted
  <2> QED BY <2>1
<1>3. OffsetInv'
  <2>1. rgen <= gen /\ (rgen = gen => idx <= Len(file))
    BY Numbers DEF FInv, ReaderInv
  <2> QED BY <2>1, <1>0, <1>2 DEF FInv, OffsetInv, Accounted
<1>4. OtherTypes'
  <2>1. OtherTypes /\ ReadTypes
    BY Types DEF FInv
  <2> QED BY <2>1, <1>0 DEF OtherTypes, ReadTypes
<1>5. CASE Shut("closed")
  BY <1>0, <1>3, <1>4, <1>5, ShutInv DEF Pcs
<1>6. CASE /\ pc' \in {"read", "select"} /\ force' \in {force, FALSE} /\ ln' = <<>>
           /\ UNCHANGED <<event, mode, size, readerVars>>
  <2> USE DEF readerVars
  <2>1. CallTypes' /\ ReadTypes'
    <3>1. CallTypes /\ ReadTypes
      BY Types DEF FInv
    <3>2. force' \in BOOLEAN
      BY <3>1, <1>6, Zenon DEF CallTypes
    <3> QED BY <3>1, <3>2, <1>6 DEF CallTypes, ReadTypes, Pcs
  <2>2. ReaderInv'
    <3>1. Bytes' = Bytes
      BY <1>0 DEF Bytes
    <3>2. rgen' = gen' => Accounted(idx, currLine \o ln)'
      BY <1>0, <1>1, <1>2, <1>6 DEF Accounted
    <3> QED BY <3>1, <3>2, <1>0, <1>6 DEF FInv, ReaderInv
  <2>3. PcInv'
    BY <1>6 DEF PcInv
  <2> QED BY <2>1, <2>2, <2>3, <1>3, <1>4, TypesNext DEF FInv
<1>7. CASE Return
  BY <1>5, <1>6, <1>7, Zenon DEF Return
<1>8. CASE pc' = "read" /\ ln' = <<>> /\ UNCHANGED <<event, mode, size, force, readerVars>>
  BY <1>6, <1>8
<1> QED BY <1>5, <1>7, <1>8 DEF StoreState

\* The look at the size of the file, and SeekFile(0) when it shrank.
LEMMA FileSizeKeeps ==
  ASSUME FInv, FileSize
  PROVE  FInv'
<1>0. /\ pc = "size" /\ pc' = "select"
      /\ UNCHANGED <<fileVars, event, mode, size, force, ln, savedVars, histVars, crashes, fails>>
  BY DEF FileSize
<1>1. ln = <<>> /\ buf = <<>>
  BY <1>0 DEF FInv, PcInv
<1>2. CASE Len(file) < state
  <2>1. state' = 0 /\ stateGen' = 0 /\ foff' = 0 /\ idx' = 0 /\ UNCHANGED <<buf, currLine, rgen>>
    BY <1>2 DEF FileSize, SeekFile
  <2> USE DEF fileVars, savedVars, histVars
  <2>2. CallTypes' /\ ReadTypes' /\ OtherTypes'
    <3>1. CallTypes /\ ReadTypes /\ OtherTypes
      BY Types DEF FInv
    <3>2. 0 \in 0..MaxBytes /\ 0 \in 0..MaxTruncs
      BY Numbers
    <3>3. CallTypes'
      BY <3>1, <1>0 DEF CallTypes, Pcs
    <3>4. ReadTypes'
      BY <3>1, <3>2, <1>0, <2>1 DEF ReadTypes
    <3>5. OtherTypes'
      BY <3>1, <3>2, <1>0, <2>1 DEF OtherTypes
    <3> QED BY <3>3, <3>4, <3>5
  <2>3. ReaderInv'
    BY <1>0, <1>1, <2>1, Numbers DEF FInv, ReaderInv, Accounted
  <2>4. OffsetInv'
    BY <1>0, <2>1, Numbers DEF FInv, OffsetInv, Accounted
  <2>5. PcInv'
    BY <1>0, <1>1, <2>1 DEF PcInv
  <2> QED BY <2>2, <2>3, <2>4, <2>5, TypesNext DEF FInv
<1>3. CASE ~(Len(file) < state)
  <2>1. UNCHANGED <<stateVars, readerVars>>
    BY <1>3 DEF FileSize
  <2>2. CallTypes' /\ ReadTypes'
    BY <1>0, <2>1, Types DEF FInv, CallTypes, ReadTypes, Pcs, readerVars
  <2>3. ReaderInv'
    BY <1>0, <2>1, ReaderKept DEF histVars
  <2>4. PcInv'
    BY <1>0, <1>1, <2>1 DEF PcInv, readerVars
  <2> QED BY <1>0, <2>1, <2>2, <2>3, <2>4, ReadInv
<1> QED BY <1>2, <1>3

\* The follower and the FilterManager outside processLines.
LEMMA ManagerKeeps ==
  ASSUME FInv, NewFollower \/ CloseDead \/ DumpStates \/ Exit \/ NewFilterManager
  PROVE  FInv'
<1>0. CallTypes /\ ReadTypes /\ OtherTypes /\ 0 \in 0..MaxBytes /\ 0 \in 0..MaxTruncs
  BY Numbers, Types DEF FInv
<1> USE DEF fileVars, readerVars, stateVars, savedVars, histVars, callVars
<1>1. CASE NewFollower
  <2>1. /\ pc = "closed" /\ pc' = "opened" /\ mode' \in {"init", "sync"}
        /\ foff' = state /\ idx' = state /\ rgen' = stateGen
        /\ UNCHANGED <<fileVars, event, size, force, ln, buf, currLine, stateVars, savedVars, histVars>>
    BY <1>1 DEF NewFollower
  <2>2. ln = <<>> /\ buf = <<>> /\ currLine = <<>>
    BY <2>1 DEF FInv, PcInv
  <2>3. CallTypes' /\ ReadTypes'
    BY <1>0, <2>1 DEF CallTypes, ReadTypes, OtherTypes, Pcs, Modes
  <2>4. ReaderInv'
    <3>1. state \in Nat
      BY <1>0, Numbers DEF OtherTypes
    <3> QED BY <3>1, <2>1, <2>2, Numbers DEF FInv, OffsetInv, ReaderInv, Accounted, Ids
  <2>5. PcInv'
    BY <2>1, <2>2 DEF PcInv
  <2> QED BY <2>1, <2>3, <2>4, <2>5, ReadInv
<1>2. CASE CloseDead
  <2>1. pc = "dead" /\ pc' = "closed"
        /\ UNCHANGED <<fileVars, event, mode, size, force, ln, readerVars, stateVars, savedVars, histVars>>
    BY <1>2 DEF CloseDead
  <2>2. CallTypes' /\ ReadTypes'
    BY <1>0, <2>1 DEF CallTypes, ReadTypes, Pcs
  <2>3. ReaderInv'
    BY <2>1, ReaderKept
  <2>4. PcInv'
    BY <2>1 DEF FInv, PcInv
  <2> QED BY <2>1, <2>2, <2>3, <2>4, ReadInv
<1>3. CASE DumpStates
  <2>1. saved' = state /\ savedGen' = stateGen
        /\ UNCHANGED <<fileVars, event, callVars, readerVars, stateVars, histVars>>
    BY <1>3 DEF DumpStates
  <2>2. CallTypes' /\ ReadTypes'
    BY <1>0, <2>1 DEF CallTypes, ReadTypes
  <2>3. OtherTypes'
    BY <1>0, <2>1 DEF OtherTypes
  <2>4. ReaderInv'
    BY <2>1, ReaderKept
  <2>5. OffsetInv'
    BY <2>1 DEF FInv, OffsetInv, Accounted
  <2>6. PcInv'
    BY <2>1 DEF FInv, PcInv, Ids
  <2> QED BY <2>2, <2>3, <2>4, <2>5, <2>6, TypesNext DEF FInv
<1>4. CASE Exit
  <2>1. /\ pc = "closed" /\ pc' = "down" /\ saved' = state /\ savedGen' = stateGen
        /\ state' = 0 /\ stateGen' = 0
        /\ UNCHANGED <<fileVars, event, mode, size, force, ln, readerVars, histVars>>
    BY <1>4 DEF Exit
  <2>2. CallTypes' /\ ReadTypes'
    BY <1>0, <2>1 DEF CallTypes, ReadTypes, Pcs
  <2>3. OtherTypes'
    BY <1>0, <2>1 DEF OtherTypes
  <2>4. ReaderInv'
    BY <2>1, ReaderKept
  <2>5. OffsetInv'
    BY <2>1, Numbers DEF FInv, OffsetInv, Accounted
  <2>6. PcInv'
    BY <2>1 DEF FInv, PcInv
  <2> QED BY <2>2, <2>3, <2>4, <2>5, <2>6, TypesNext DEF FInv
<1>5. CASE NewFilterManager
  <2>1. /\ pc = "down" /\ pc' = "closed"
        /\ (state' = 0 /\ stateGen' = 0) \/ (state' = saved /\ stateGen' = savedGen)
        /\ UNCHANGED <<fileVars, event, mode, size, force, ln, readerVars, savedVars, histVars>>
    BY <1>5 DEF NewFilterManager
  <2>2. CallTypes' /\ ReadTypes'
    BY <1>0, <2>1 DEF CallTypes, ReadTypes, Pcs
  <2>3. OtherTypes'
    BY <1>0, <2>1 DEF OtherTypes
  <2>4. ReaderInv'
    BY <2>1, ReaderKept
  <2>5. OffsetInv'
    BY <2>1, Numbers DEF FInv, OffsetInv, Accounted
  <2>6. PcInv'
    BY <2>1 DEF FInv, PcInv
  <2> QED BY <2>2, <2>3, <2>4, <2>5, <2>6, TypesNext DEF FInv
<1> QED BY <1>1, <1>2, <1>3, <1>4, <1>5

\* A handler that fails, a watch that ends and a death of the process.
LEMMA FaultKeeps ==
  ASSUME FInv, HandleLogFails \/ WatchError \/ Crash
  PROVE  FInv'
<1>0. OtherTypes /\ 0 \in 0..MaxBytes /\ 0 \in 0..MaxTruncs
  BY Numbers, Types DEF FInv
<1>1. CASE HandleLogFails \/ WatchError
  <2>1. PICK q \in {"closed", "dead"} : Shut(q)
    BY <1>1 DEF HandleLogFails, WatchError
  <2>2. UNCHANGED <<fileVars, stateVars, savedVars, histVars>>
    BY <1>1 DEF HandleLogFails, WatchError
  <2> QED BY <2>1, <2>2, OtherKept, ShutInv DEF Pcs, histVars
<1>2. CASE Crash
  <2>1. /\ Shut("down") /\ state' = 0 /\ stateGen' = 0
        /\ (UNCHANGED savedVars \/ (saved' = 0 /\ savedGen' = 0))
        /\ UNCHANGED <<fileVars, histVars>>
    BY <1>2 DEF Crash
  <2> USE DEF fileVars, savedVars, histVars
  <2>2. OtherTypes'
    BY <1>0, <2>1 DEF OtherTypes
  <2>3. OffsetInv'
    BY <2>1, Numbers DEF FInv, OffsetInv, Accounted
  <2> QED BY <2>1, <2>2, <2>3, ShutInv DEF Pcs
<1> QED BY <1>1, <1>2

-----------------------------------------------------------------------------
\* The invariant holds when the process first starts.
LEMMA InitInv == Init => FInv
<1> SUFFICES ASSUME Init PROVE FInv
  OBVIOUS
<1>1. 0 \in 0..MaxBytes /\ 0 \in 0..MaxTruncs
  BY FollowerAssumption
<1>2. CallTypes /\ ReadTypes /\ OtherTypes
  <2>1. CallTypes
    BY <1>1, Zenon DEF Init, CallTypes, Pcs, Modes
  <2>2. ReadTypes
    BY <1>1 DEF Init, ReadTypes
  <2>3. OtherTypes
    BY <1>1 DEF Init, OtherTypes
  <2> QED BY <2>1, <2>2, <2>3
<1>3. ReaderInv
  BY DEF Init, ReaderInv, Accounted
<1>4. OffsetInv /\ PcInv
  BY DEF Init, OffsetInv, PcInv, Accounted
<1> QED BY <1>2, <1>3, <1>4, Types DEF FInv

\* Every step keeps the invariant.
LEMMA StepInv == FInv /\ [Next]_vars => FInv'
<1> SUFFICES ASSUME FInv, [Next]_vars PROVE FInv'
  OBVIOUS
<1>1. CASE UNCHANGED vars
  <2> USE <1>1 DEF vars, fileVars, readerVars, stateVars, savedVars, histVars, callVars
  <2>1. TypeOK' /\ SeqInv'
    BY DEF FInv, TypeOK, SeqInv
  <2>2. ReaderInv' /\ OffsetInv'
    BY ReaderKept, OffsetsKept
  <2>3. PcInv'
    BY DEF FInv, PcInv, Ids
  <2> QED BY <2>1, <2>2, <2>3 DEF FInv
<1>2. CASE Start \/ WriteEvent \/ Tick \/ Abort
  <2>1. event \in BOOLEAN /\ mode \in Modes
    BY Types DEF FInv, CallTypes
  <2>2. PICK m \in Modes : Enter(m)
    BY <1>2, <2>1 DEF Start, WriteEvent, Tick, Abort, Modes
  <2>3. event' \in BOOLEAN /\ pc \in {"opened", "select"}
    BY <1>2, <2>1, Zenon DEF Start, WriteEvent, Tick, Abort
  <2> QED BY <2>2, <2>3, EnterKeeps
<1> QED
  BY <1>1, <1>2, ReadEntryKeeps, ReadEntryEOFKeeps, FileSizeKeeps, ReadRemainingKeeps, HandleLogKeeps,
     StoreStateKeeps, ManagerKeeps, FaultKeeps, WriteKeeps, TruncateKeeps DEF Next, Steps

\* The follower, its writer and the FilterManager keep FInv (followers.go, liner.go,
\* and the state file of filters.go).
THEOREM Invariance == Spec => []FInv
BY InitInv, StepInv, PTL DEF Spec

\* For files of any length, any number of truncations, crashes and errors:
\* the reader's index, the buffer and the offsets stay inside the file's bounds.
THEOREM TypeCorrect == Spec => []TypeOK
<1>1. FInv => TypeOK
  BY DEF FInv
<1> QED BY <1>1, Invariance, PTL

\* ReadEntry and ReadRemaining, whatever the writer does between two reads,
\* count no byte of the file that is not handed out, in hand or in currLine.
THEOREM ReaderSkipsNothing == Spec => []NothingSkipped
<1>1. FInv => NothingSkipped
  BY DEF FInv, ReaderInv, NothingSkipped
<1> QED BY <1>1, Invariance, PTL

\* No line is lost: neither *f.state nor the offset in the state file is ever
\* past a byte that HandleLog did not get.
THEOREM OffsetsAreSafe == Spec => []OffsetsSafe
<1>1. FInv => OffsetsSafe
  BY DEF FInv, OffsetInv, OffsetsSafe
<1> QED BY <1>1, Invariance, PTL
=============================================================================
