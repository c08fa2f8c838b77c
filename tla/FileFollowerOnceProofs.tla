----------------------- MODULE FileFollowerOnceProofs -----------------------
(***************************************************************************)
(* OnceWithoutCrash, for files of any length and any number of truncations *)
(* and errors: without a crash no byte is given to HandleLog twice.  The   *)
(* bytes that are handled, in currLine, in hand and in the buffer have to  *)
(* be kept apart, over every SeekFile(0) and every new follower.           *)
(***************************************************************************)
EXTENDS FileFollowerProofs

\* The follower has its file open.
Open == pc \notin {"down", "closed", "dead"}

\* The bytes the reader holds are in order: the buffer follows the index,
\* currLine is before it or older than what the reader counts from, and
\* bytes of this generation are held only by a reader inside the file.
OrderInv ==
  /\ \A i \in 1..Len(buf) : buf[i].pos = idx + i /\ buf[i].gen \in rgen..gen
  /\ \A x \in Ids(currLine) :
       /\ x[1] <= gen
       /\ x[2] <= idx \/ x[1] < rgen \/ (foff = 0 /\ x[1] < gen)
  /\ \A x \in Ids(ln) : x[1] <= gen /\ (x[1] = gen => x[2] <= idx)
  /\ pc = "handle" => Ids(ln) \cap Ids(buf) = {}
  /\ Open => state <= idx
  /\ \A x \in Ids(currLine) \cup Ids(ln) \cup Ids(buf) : x[1] = gen => foff <= Len(file)

\* What is handled is not held, and is before the offset of the next reader.
OnceInv ==
  crashes = 0 =>
    /\ again = {}
    /\ handled \cap (Ids(currLine) \cup Ids(buf)) = {}
    /\ pc = "handle" => handled \cap Ids(ln) = {}
    /\ \A p \in 1..MaxBytes : <<gen, p>> \in handled =>
         /\ p <= IF pc = "down" THEN saved ELSE IF pc = "store" THEN idx ELSE state
         /\ (IF Open THEN foff ELSE IF pc = "down" THEN saved ELSE state) <= Len(file)

\* The inductive invariant.
GInv == FInv /\ crashes \in Nat /\ OrderInv /\ OnceInv

-----------------------------------------------------------------------------
\* Text holds only bytes of what it is the text of.
LEMMA TextIds ==
  ASSUME NEW b \in Seq(Byte)
  PROVE  Ids(Text(b)) \subseteq Ids(b)
<1> DEFINE T == {i \in 1..Len(b) : ~b[i].nl}
<1>1. CASE T = {}
  BY <1>1 DEF Text, Ids
<1>2. CASE T # {}
  <2>1. Text(b) = SubSeq(b, First(T), Last(T))
    BY <1>2, Zenon DEF Text
  <2>2. T \subseteq 1..Len(b) /\ T \subseteq Nat /\ Len(b) \in Nat
    OBVIOUS
  <2>3. First(T) \in T /\ Last(T) \in T
    <3> HIDE DEF T
    <3> QED BY <1>2, <2>2, FirstIs, LastIs, Zenon
  <2>4. First(T) \in 1..Len(b) /\ Last(T) \in 1..Len(b)
    BY <2>3
  <2> HIDE DEF T
  <2> DEFINE f == First(T)  l == Last(T)
  <2>5. \A i \in 1..Len(SubSeq(b, f, l)) : f + i - 1 \in 1..Len(b) /\ SubSeq(b, f, l)[i] = b[f + i - 1]
    <3> HIDE DEF f, l
    <3>1. f \in 1..Len(b) /\ l \in 1..Len(b)
      BY <2>4 DEF f, l
    <3> QED BY <3>1
  <2> QED BY <2>1, <2>5, Zenon DEF Ids
<1> QED BY <1>1, <1>2

\* The bytes of this state's numbers.
LEMMA IdsNumbers ==
  ASSUME NEW b \in Seq(Byte), NEW x \in Ids(b)
  PROVE  x[1] \in Nat /\ x[2] \in Nat /\ x = <<x[1], x[2]>> /\ x \in Id
<1>1. PICK i \in 1..Len(b) : x = <<b[i].gen, b[i].pos>>
  BY DEF Ids
<1>2. b[i] \in Byte
  OBVIOUS
<1>3. b[i].gen \in 0..MaxTruncs /\ b[i].pos \in 1..MaxBytes
  BY <1>2 DEF Byte
<1> QED BY <1>1, <1>3, FollowerAssumption DEF Id

\* The order of the offsets.
LEMMA OffsetOrder ==
  ASSUME GInv
  PROVE  FInv /\ {state, idx, foff, Len(file), gen} \subseteq Nat /\ idx <= foff /\ (Open => state <= idx)
<1>1. FInv /\ (Open => state <= idx)
  BY DEF GInv, OrderInv
<1>2. state \in Nat
  BY <1>1, FollowerAssumption DEF FInv, TypeOK
<1> QED BY <1>1, <1>2, Numbers

\* Data follows the index, and its bytes are of the generations the reader
\* counts from; those behind the buffer are new.
LEMMA DataOrder ==
  ASSUME FInv, OrderInv, NEW i \in 1..Len(Data)
  PROVE  /\ Data[i].pos = idx + i /\ Data[i].gen \in rgen..gen
         /\ foff = 0 => Data[i].gen = gen
         /\ Data[i].gen = gen => foff <= Len(file)
         /\ i > Len(buf) => Data[i].gen = gen
<1>0. Len(Data) \in Nat /\ i \in Nat /\ Len(buf) \in Nat
  BY DataIs, Numbers
<1>1. CASE i <= Len(buf)
  <2>1. i \in 1..Len(buf) /\ Data[i] = buf[i]
    BY <1>0, <1>1, DataIs
  <2>2. Data[i].pos = idx + i /\ Data[i].gen \in rgen..gen
    BY <2>1 DEF OrderInv
  <2>3. foff # 0
    BY <2>1, Numbers
  <2>4. Data[i].gen = gen => foff <= Len(file)
    <3>1. <<buf[i].gen, buf[i].pos>> \in Ids(buf)
      BY <2>1 DEF Ids
    <3> QED BY <3>1, <2>1 DEF OrderInv
  <2> QED BY <2>2, <2>3, <2>4, <1>0, <1>1
<1>2. CASE i > Len(buf)
  <2>1. foff <= Len(file) /\ idx + Len(Data) = Len(file)
    BY <1>0, <1>2, DataIs, Numbers
  <2> DEFINE rest == SubSeq(Bytes, foff + 1, Len(file))
  <2>2. Bytes \in Seq(Byte) /\ Len(Bytes) = Len(file)
    <3>1. \A j \in 1..Len(file) : [gen |-> gen, pos |-> j, nl |-> file[j]] \in Byte
      BY Numbers DEF FInv, SeqInv, Byte
    <3> QED BY <3>1, Numbers DEF Bytes
  <2>3. rest \in Seq(Byte) /\ Len(rest) = Len(file) - foff /\ \A j \in 1..Len(rest) : rest[j] = Bytes[foff + j]
    <3>1. foff \in Nat /\ Len(file) \in Nat /\ foff <= Len(file)
      BY <2>1, Numbers
    <3> QED BY <3>1, <2>2
  <2>4. i - Len(buf) \in 1..Len(rest) /\ foff + (i - Len(buf)) = idx + i /\ idx + i \in 1..Len(file)
    <3>1. Len(rest) = Len(file) - foff /\ i <= Len(Data)
      BY <2>3, <1>0
    <3>2. Len(buf) \in Nat /\ Len(file) \in Nat /\ idx \in Nat /\ foff = idx + Len(buf)
      BY Numbers
    <3> HIDE DEF rest, Data
    <3>3. idx + i <= Len(file)
      BY <3>1, <3>2, <2>1, <1>0
    <3>4. i - Len(buf) >= 1 /\ i - Len(buf) <= Len(file) - foff
      BY <3>2, <3>3, <1>0, <1>2
    <3> QED BY <3>1, <3>2, <3>3, <3>4, <1>0
  <2>5. Data[i] = rest[i - Len(buf)]
    <3>1. buf \in Seq(Byte) /\ Data = buf \o rest
      BY DEF Data, FInv, SeqInv
    <3>2. i - Len(buf) \in 1..Len(rest)
      BY <2>4, Zenon
    <3>3. rest \in Seq(Byte)
      BY <2>3
    <3> HIDE DEF rest, Data
    <3>4. \A j \in 1..Len(rest) : (buf \o rest)[Len(buf) + j] = rest[j]
      BY <3>1, <3>3
    <3>5. Len(buf) + (i - Len(buf)) = i
      BY <1>0
    <3> QED BY <3>1, <3>2, <3>4, <3>5
  <2>6. Data[i] = Bytes[idx + i]
    BY <2>3, <2>4, <2>5
  <2>7. Bytes[idx + i] = [gen |-> gen, pos |-> idx + i, nl |-> file[idx + i]]
    BY <2>4 DEF Bytes
  <2> QED BY <2>1, <2>6, <2>7, Numbers
<1> QED BY <1>0, <1>1, <1>2

\* The first k bytes of Data, and those behind them.
Taken(k) == {<<Data[i].gen, Data[i].pos>> : i \in 1..k}
Left(k) == {<<Data[i].gen, Data[i].pos>> : i \in (k + 1)..Len(Data)}

\* They are apart, from each other and from what the reader has taken.
LEMMA DataApart ==
  ASSUME FInv, OrderInv, NEW k \in 0..Len(Data)
  PROVE  /\ Taken(k) \cap Left(k) = {}
         /\ Ids(currLine) \cap (Taken(k) \cup Left(k)) = {}
         /\ OnceInv /\ Open /\ pc # "store" /\ crashes = 0 => handled \cap (Taken(k) \cup Left(k)) = {}
<1>0. Len(Data) \in Nat /\ k \in Nat /\ Len(buf) \in Nat /\ idx \in Nat /\ gen \in Nat /\ rgen \in Nat /\ rgen <= gen
  BY DataIs, Numbers
<1>1. Taken(k) \cap Left(k) = {}
  <2> SUFFICES ASSUME NEW i \in 1..k, NEW j \in (k + 1)..Len(Data)
               PROVE  <<Data[i].gen, Data[i].pos>> # <<Data[j].gen, Data[j].pos>>
    BY DEF Taken, Left
  <2>1. i \in 1..Len(Data) /\ j \in 1..Len(Data) /\ i < j
    <3> HIDE DEF Data
    <3> QED BY <1>0
  <2>2. Data[i].pos = idx + i /\ Data[j].pos = idx + j
    BY <2>1, DataOrder
  <2>3. idx + i # idx + j
    <3> HIDE DEF Data
    <3> QED BY <2>1, <1>0
  <2> QED BY <2>2, <2>3
<1>2. ASSUME NEW x \in Taken(k) \cup Left(k)
      PROVE  \E i \in 1..Len(Data) : x = <<Data[i].gen, Data[i].pos>>
  <2>1. 1..k \subseteq 1..Len(Data) /\ (k + 1)..Len(Data) \subseteq 1..Len(Data)
    <3> HIDE DEF Data
    <3> QED BY <1>0
  <2> QED BY <2>1, <1>2 DEF Taken, Left
<1>3. Ids(currLine) \cap (Taken(k) \cup Left(k)) = {}
  <2> SUFFICES ASSUME NEW x \in Ids(currLine), x \in Taken(k) \cup Left(k) PROVE FALSE
    OBVIOUS
  <2>1. PICK i \in 1..Len(Data) : x = <<Data[i].gen, Data[i].pos>>
    BY <1>2
  <2>2. /\ Data[i].pos = idx + i /\ Data[i].gen \in rgen..gen
        /\ foff = 0 => Data[i].gen = gen
    BY DataOrder
  <2>3. x[1] = Data[i].gen /\ x[2] = idx + i /\ i \in Nat /\ i >= 1
    BY <2>1, <2>2, <1>0
  <2>4. x[2] <= idx \/ x[1] < rgen \/ (foff = 0 /\ x[1] < gen)
    BY DEF OrderInv
  <2> HIDE DEF Data
  <2> QED BY <2>2, <2>3, <2>4, <1>0
<1>4. ASSUME OnceInv, Open, pc # "store", crashes = 0, NEW x \in handled, x \in Taken(k) \cup Left(k) PROVE FALSE
  <2>1. PICK i \in 1..Len(Data) : x = <<Data[i].gen, Data[i].pos>>
    BY <1>2, <1>4
  <2>2. /\ Data[i].pos = idx + i /\ Data[i].gen \in rgen..gen
        /\ i > Len(buf) => Data[i].gen = gen
    BY DataOrder
  <2>a. i \in Nat /\ i >= 1
    BY <1>0
  <2>3. CASE i <= Len(buf)
    <3>1. i \in 1..Len(buf) /\ Data[i] = buf[i]
      BY <2>3, <2>a, <1>0, DataIs
    <3>2. x \in Ids(buf)
      BY <3>1, <2>1 DEF Ids
    <3> QED BY <3>2, <1>4 DEF OnceInv
  <2>4. CASE i > Len(buf)
    <3>1. x = <<gen, idx + i>>
      BY <2>1, <2>2, <2>4
    <3>2. idx + i \in 1..MaxBytes
      <4>1. handled \subseteq Id
        BY DEF FInv, TypeOK
      <4> QED BY <4>1, <3>1, <1>4 DEF Id
    <3>3. idx + i <= state
      <4>1. pc # "down" /\ pc # "store" /\ crashes = 0
        BY <1>4 DEF Open
      <4> QED BY <4>1, <3>1, <3>2, <1>4 DEF OnceInv
    <3>4. state <= idx /\ state \in Nat
      BY <1>4, FollowerAssumption DEF OrderInv, FInv, TypeOK
    <3> HIDE DEF Data
    <3> QED BY <3>3, <3>4, <2>a, <1>0
  <2> QED BY <2>3, <2>4, <2>a, <1>0
<1> QED BY <1>1, <1>3, <1>4

\* A read takes the first k bytes of Data into currLine or the line in hand.
LEMMA ReadOrder ==
  ASSUME GInv, NEW k \in 0..Len(Data), Open, pc # "store", pc' \in {"handle", "size", "select", "remain"},
         ln = <<>>, idx' = idx + k, rgen' = (IF foff = 0 THEN gen ELSE rgen),
         buf' \in Seq(Byte), currLine' \in Seq(Byte), ln' \in Seq(Byte),
         \A i \in 1..Len(buf') : k + i \in 1..Len(Data) /\ buf'[i] = Data[k + i],
         foff \in Nat, foff' \in Nat, foff <= Len(file) => foff' <= Len(file),
         Ids(currLine') \cup Ids(ln') \subseteq Ids(currLine) \cup Taken(k),
         UNCHANGED <<fileVars, stateVars, savedVars, histVars, crashes>>
  PROVE  OrderInv' /\ OnceInv'
<1>0. /\ Len(Data) \in Nat /\ k \in Nat /\ idx \in Nat /\ gen \in Nat /\ rgen \in Nat /\ rgen <= gen
      /\ FInv /\ OrderInv /\ OnceInv /\ currLine \in Seq(Byte)
  BY DataIs, Numbers DEF GInv, FInv, SeqInv
<1>1. /\ file' = file /\ gen' = gen /\ state' = state /\ saved' = saved /\ handled' = handled
      /\ again' = again /\ crashes' = crashes
  BY DEF fileVars, stateVars, savedVars, histVars
<1>2. Open' /\ pc' # "down" /\ pc' # "store" /\ pc # "down"
  BY DEF Open
<1>3. Ids(buf') \subseteq Left(k)
  <2> SUFFICES ASSUME NEW i \in 1..Len(buf') PROVE <<buf'[i].gen, buf'[i].pos>> \in Left(k)
    BY DEF Ids
  <2>1. k + i \in 1..Len(Data) /\ buf'[i] = Data[k + i] /\ i \in 1..Len(buf')
    OBVIOUS
  <2>2. k + i \in (k + 1)..Len(Data)
    <3> HIDE DEF Data
    <3> QED BY <2>1, <1>0
  <2> QED BY <2>1, <2>2, Zenon DEF Left
<1>4. /\ Taken(k) \cap Left(k) = {} /\ Ids(currLine) \cap (Taken(k) \cup Left(k)) = {}
      /\ crashes = 0 => handled \cap (Taken(k) \cup Left(k)) = {}
  BY <1>0, DataApart
<1>5. ASSUME NEW x \in Ids(currLine) \cup Taken(k)
      PROVE  /\ x[1] <= gen /\ (x[2] <= idx' \/ x[1] < rgen')
             /\ x[1] = gen => x[2] <= idx' /\ foff' <= Len(file)
  <2>1. CASE x \in Ids(currLine)
    <3>1. x[1] \in Nat /\ x[2] \in Nat
      BY <2>1, <1>0, IdsNumbers
    <3>2. x[1] <= gen /\ (x[2] <= idx \/ x[1] < rgen \/ (foff = 0 /\ x[1] < gen)) /\ (x[1] = gen => foff <= Len(file))
      BY <2>1, <1>0 DEF OrderInv
    <3>3. idx <= idx'
      <4> HIDE DEF Data
      <4> QED BY <1>0
    <3>4. idx' \in Nat /\ rgen' \in Nat /\ rgen <= rgen' /\ rgen' <= gen
      BY <1>0
    <3> HIDE DEF Data
    <3>5. idx \in Nat /\ rgen \in Nat /\ gen \in Nat
      BY <1>0
    <3>6. x[2] <= idx' \/ x[1] < rgen'
      BY <3>1, <3>2, <3>3, <3>4, <3>5
    <3>7. x[1] = gen => x[2] <= idx'
      BY <3>1, <3>4, <3>5, <3>6
    <3> QED BY <3>2, <3>6, <3>7
  <2>2. CASE x \in Taken(k)
    <3>1. PICK i \in 1..k : x = <<Data[i].gen, Data[i].pos>>
      BY <2>2 DEF Taken
    <3>2. i \in 1..Len(Data)
      <4> HIDE DEF Data
      <4> QED BY <1>0
    <3>3. Data[i].pos = idx + i /\ Data[i].gen \in rgen..gen /\ (Data[i].gen = gen => foff <= Len(file))
      BY <3>2, <1>0, DataOrder
    <3>4. x[1] = Data[i].gen /\ x[2] = idx + i
      BY <3>1, <3>3
    <3>5. idx + i <= idx'
      <4> HIDE DEF Data
      <4> QED BY <1>0
    <3> QED BY <3>3, <3>4, <3>5, <1>0
  <2> QED BY <1>5, <2>1, <2>2
<1>6. OrderInv'
  <2>1. ASSUME NEW i \in 1..Len(buf') PROVE buf'[i].pos = idx' + i /\ buf'[i].gen \in rgen'..gen' /\ (buf'[i].gen = gen => foff' <= Len(file))
    <3>1. k + i \in 1..Len(Data) /\ buf'[i] = Data[k + i]
      OBVIOUS
    <3>2. /\ Data[k + i].pos = idx + (k + i) /\ Data[k + i].gen \in rgen..gen
          /\ foff = 0 => Data[k + i].gen = gen
          /\ Data[k + i].gen = gen => foff <= Len(file)
      BY <3>1, <1>0, DataOrder
    <3>3. idx + (k + i) = idx' + i
      <4>1. i \in Nat
        OBVIOUS
      <4> HIDE DEF Data
      <4> QED BY <4>1, <1>0
    <3>4. Data[k + i].gen \in rgen'..gen'
      <4>1. CASE foff = 0
        <5>1. Data[k + i].gen = gen /\ rgen' = gen /\ gen' = gen /\ gen \in gen..gen
          BY <4>1, <3>2, <1>0, <1>1
        <5> QED BY <5>1, Zenon
      <4>2. CASE foff # 0
        <5>1. Data[k + i].gen \in rgen..gen /\ rgen' = rgen /\ gen' = gen
          BY <4>2, <3>2, <1>1
        <5> QED BY <5>1
      <4> QED BY <4>1, <4>2
    <3> QED BY <3>1, <3>2, <3>3, <3>4
  <2>2. \A x \in Ids(currLine') : x[1] <= gen' /\ (x[2] <= idx' \/ x[1] < rgen' \/ (foff' = 0 /\ x[1] < gen'))
    BY <1>1, <1>5
  <2>3. \A x \in Ids(ln') : x[1] <= gen' /\ (x[1] = gen' => x[2] <= idx')
    BY <1>1, <1>5
  <2>4. Ids(ln') \cap Ids(buf') = {}
    BY <1>3, <1>4
  <2>5. state' <= idx'
    <3>1. state <= idx /\ state \in Nat
      BY <1>0, FollowerAssumption DEF OrderInv, FInv, TypeOK
    <3> HIDE DEF Data
    <3> QED BY <3>1, <1>0, <1>1
  <2>6. ASSUME NEW x \in Ids(currLine') \cup Ids(ln') \cup Ids(buf'), x[1] = gen' PROVE foff' <= Len(file')
    <3>1. CASE x \in Ids(buf')
      <4>1. PICK i \in 1..Len(buf') : x = <<buf'[i].gen, buf'[i].pos>>
        BY <3>1 DEF Ids
      <4> QED BY <4>1, <2>1, <2>6, <1>1
    <3>2. CASE x \in Ids(currLine') \cup Ids(ln')
      BY <3>2, <2>6, <1>1, <1>5
    <3> QED BY <3>1, <3>2, <2>6
  <2> QED BY <2>1, <2>2, <2>3, <2>4, <2>5, <2>6, Zenon DEF OrderInv, Ids
<1>7. OnceInv'
  <2> SUFFICES ASSUME crashes' = 0 PROVE OnceInv'
    BY DEF OnceInv
  <2>1. again' = {}
    BY <1>0, <1>1 DEF OnceInv
  <2>2. handled' \cap (Ids(currLine') \cup Ids(buf')) = {} /\ handled' \cap Ids(ln') = {}
    BY <1>0, <1>1, <1>3, <1>4 DEF OnceInv
  <2>3. ASSUME NEW p \in 1..MaxBytes, <<gen', p>> \in handled'
        PROVE  p <= state' /\ foff' <= Len(file')
    BY <2>3, <1>0, <1>1, <1>2 DEF OnceInv
  <2> QED BY <2>1, <2>2, <2>3, <1>2 DEF OnceInv, Ids
<1> QED BY <1>6, <1>7

-----------------------------------------------------------------------------
\* The follower is closed: what was handled is before *f.state.
LEMMA ShutOrder ==
  ASSUME GInv, NEW q \in {"closed", "dead"}, Shut(q), Open,
         state' = (IF pc = "store" THEN idx ELSE state), UNCHANGED <<fileVars, histVars, crashes>>
  PROVE  OrderInv' /\ OnceInv'
<1>1. /\ pc' = q /\ ln' = <<>> /\ buf' = <<>> /\ currLine' = <<>> /\ file' = file /\ gen' = gen
      /\ handled' = handled /\ again' = again /\ crashes' = crashes
  BY DEF Shut, fileVars, histVars
<1>2. Ids(ln)' = {} /\ Ids(buf)' = {} /\ Ids(currLine)' = {} /\ Len(buf') = 0
  BY <1>1 DEF Ids
<1>3. ~Open' /\ pc' # "handle" /\ pc' # "down" /\ pc' # "store"
  BY <1>1 DEF Open
<1>4. OrderInv'
  BY <1>2, <1>3 DEF OrderInv
<1>5. ASSUME crashes = 0, NEW p \in 1..MaxBytes, <<gen, p>> \in handled
      PROVE  p <= state' /\ state' <= Len(file)
  <2>1. /\ p <= (IF pc = "store" THEN idx ELSE state) /\ foff <= Len(file)
    BY <1>5 DEF GInv, OnceInv, Open
  <2>2. state <= idx /\ idx <= foff /\ {state, idx, foff, Len(file)} \subseteq Nat
    BY OffsetOrder
  <2> QED BY <2>1, <2>2
<1>6. OnceInv'
  BY <1>1, <1>2, <1>3, <1>5 DEF GInv, OnceInv
<1> QED BY <1>4, <1>6

\* A step that leaves the file and the reader alone.
LEMMA OrderFrame ==
  ASSUME OrderInv, UNCHANGED <<file, gen, ln, foff, buf, idx, currLine, rgen>>,
         pc' = "handle" => pc = "handle", Open' => state' <= idx
  PROVE  OrderInv'
<1>1. Ids(ln)' = Ids(ln) /\ Ids(buf)' = Ids(buf) /\ Ids(currLine)' = Ids(currLine)
  BY DEF Ids
<1> QED BY <1>1 DEF OrderInv

\* A step that handles nothing and hands nothing out.
LEMMA OnceFrame ==
  ASSUME OnceInv, UNCHANGED <<gen, buf, currLine, handled, again, crashes>>, pc' \notin {"handle", "store"},
         ASSUME crashes = 0, NEW p \in 1..MaxBytes, <<gen, p>> \in handled
         PROVE  /\ p <= IF pc' = "down" THEN saved' ELSE state'
                /\ (IF Open' THEN foff' ELSE IF pc' = "down" THEN saved' ELSE state') <= Len(file')
  PROVE  OnceInv'
<1>1. Ids(buf)' = Ids(buf) /\ Ids(currLine)' = Ids(currLine)
  BY DEF Ids
<1> QED BY <1>1 DEF OnceInv

\* A step that leaves the file, the reader and the offsets alone, and stays on
\* its side of Open.
LEMMA OrderKept ==
  ASSUME GInv, UNCHANGED <<fileVars, readerVars, ln, stateVars, histVars, crashes>>,
         pc' \notin {"handle", "store", "down"}, pc \notin {"store", "down"}, Open' = Open
  PROVE  OrderInv' /\ OnceInv'
<1>0. UNCHANGED <<file, gen, foff, buf, idx, currLine, rgen, ln, state, handled, again>>
  BY Zenon DEF fileVars, readerVars, stateVars, histVars
<1>1. Ids(ln)' = Ids(ln) /\ Ids(buf)' = Ids(buf) /\ Ids(currLine)' = Ids(currLine)
  BY <1>0 DEF Ids
<1>2. OrderInv'
  BY <1>0, <1>1 DEF GInv, OrderInv
<1>3. OnceInv'
  BY <1>0, <1>1 DEF GInv, OnceInv
<1> QED BY <1>2, <1>3

\* ReadLine takes the first bytes of Data.
LEMMA ReadLineOrder ==
  ASSUME GInv, pc \in {"read", "remain"}, Ends(Data) # {}, ReadLine(Data), pc' = "handle",
         UNCHANGED <<fileVars, stateVars, savedVars, histVars, crashes>>
  PROVE  OrderInv' /\ OnceInv'
<1> DEFINE k == FirstEnd(Data)  d == SubSeq(Data, 1, k)
<1>0. FInv /\ Open /\ pc # "store" /\ ln = <<>> /\ Data \in Seq(Byte) /\ Len(Data) \in Nat /\ currLine \in Seq(Byte)
  BY DataIs DEF GInv, FInv, PcInv, Open, SeqInv
<1>1. k \in 1..Len(Data) /\ k \in 0..Len(Data)
  BY <1>0, FirstEndIs
<1>2. d \in Seq(Byte) /\ Len(d) = k /\ \A i \in 1..k : d[i] = Data[i]
  BY <1>0, <1>1
<1>3. Ids(d) = Taken(k)
  BY <1>2 DEF Ids, Taken
<1>4. /\ idx' = idx + k /\ rgen' = (IF foff = 0 THEN gen ELSE rgen)
      /\ ln' = currLine \o Text(d) /\ currLine' = <<>>
  BY DEF ReadLine
<1>5. /\ buf' \in Seq(Byte) /\ foff' \in Nat /\ (foff <= Len(file) => foff' <= Len(file))
      /\ \A i \in 1..Len(buf') : k + i \in 1..Len(Data) /\ buf'[i] = Data[k + i]
  BY <1>0, ReadLineBuffer, FollowerAssumption
<1>6. Ids(ln') = Ids(currLine) \cup Ids(Text(d)) /\ ln' \in Seq(Byte)
  <2> HIDE DEF d
  <2>1. Text(d) \in Seq(Byte)
    BY <1>2, TextKeeps
  <2> QED BY <2>1, <1>0, <1>4, IdsConcat
<1>7. Ids(currLine') \cup Ids(ln') \subseteq Ids(currLine) \cup Taken(k)
  <2>1. Ids(currLine') = {}
    BY <1>4 DEF Ids
  <2>2. Ids(Text(d)) \subseteq Taken(k)
    <3> HIDE DEF d
    <3> QED BY <1>2, <1>3, TextIds
  <2> QED BY <2>1, <2>2, <1>6
<1>8. currLine' \in Seq(Byte) /\ foff \in Nat
  BY <1>0, <1>4, Numbers
<1> HIDE DEF d, k
<1> QED BY <1>0, <1>1, <1>4, <1>5, <1>6, <1>7, <1>8, ReadOrder, Zenon

\* ReadPart takes all of Data.
LEMMA ReadPartOrder ==
  ASSUME GInv, pc \in {"read", "remain"}, ReadPart(Data), pc' \in {"handle", "size", "select", "remain"},
         UNCHANGED <<fileVars, stateVars, savedVars, histVars, crashes>>,
         currLine' \in Seq(Byte), ln' \in Seq(Byte),
         Ids(currLine') \cup Ids(ln') \subseteq Ids(currLine) \cup Ids(Text(Data))
  PROVE  OrderInv' /\ OnceInv'
<1> DEFINE k == Len(Data)
<1>0. FInv /\ Open /\ pc # "store" /\ ln = <<>> /\ Data \in Seq(Byte) /\ k \in Nat
  <2>1. FInv
    BY DEF GInv
  <2>2. Open /\ pc # "store" /\ ln = <<>>
    BY <2>1 DEF FInv, PcInv, Open
  <2>3. Data \in Seq(Byte)
    BY <2>1, DataIs
  <2> QED BY <2>1, <2>2, <2>3
<1>1. Ids(Data) = Taken(k)
  BY DEF Ids, Taken
<1>2. Ids(Text(Data)) \subseteq Taken(k)
  BY <1>0, <1>1, TextIds
<1>3. /\ idx' = idx + k /\ rgen' = (IF foff = 0 THEN gen ELSE rgen)
      /\ buf' = <<>> /\ foff' = foff + k - Len(buf)
  BY DEF ReadPart
<1>4. /\ k >= Len(buf) /\ (foff <= Len(file) => idx + k = Len(file))
  BY <1>0, DataIs
<1>5. foff \in Nat /\ foff' \in Nat /\ (foff <= Len(file) => foff' <= Len(file))
  <2>1. foff \in Nat /\ Len(buf) \in Nat /\ idx \in Nat /\ Len(file) \in Nat /\ idx + Len(buf) = foff
    BY <1>0, Numbers
  <2>2. k \in Nat /\ foff' = foff + k - Len(buf)
    BY <1>0, <1>3
  <2> HIDE DEF k
  <2>3. foff' \in Nat /\ foff' = idx + k
    BY <2>1, <2>2, <1>4
  <2> QED BY <2>1, <2>3, <1>4
<1>6. \A i \in 1..Len(buf') : k + i \in 1..Len(Data) /\ buf'[i] = Data[k + i]
  <2>1. 1..Len(buf') = {}
    BY <1>3
  <2> QED BY <2>1
<1>7. k \in 0..Len(Data) /\ buf' \in Seq(Byte)
  BY <1>0, <1>3
<1>8. Ids(currLine') \cup Ids(ln') \subseteq Ids(currLine) \cup Taken(k)
  BY <1>2
<1> HIDE DEF k
<1> QED BY <1>0, <1>3, <1>5, <1>6, <1>7, <1>8, ReadOrder

\* ReadEntry and ReadRemaining, in each of their cases.
LEMMA ReadsOrder ==
  ASSUME GInv, ReadEntry \/ ReadEntryEOF \/ ReadRemaining
  PROVE  OrderInv' /\ OnceInv'
<1>0. FInv /\ pc \in {"read", "remain"} /\ ln = <<>> /\ Open /\ pc # "store"
  BY DEF GInv, FInv, PcInv, Open, ReadEntry, ReadEntryEOF, ReadRemaining
<1>1. UNCHANGED <<fileVars, stateVars, savedVars, histVars, crashes>>
  BY DEF ReadEntry, ReadEntryEOF, ReadRemaining
<1>2. Text(Data) \in Seq(Byte) /\ currLine \in Seq(Byte)
  BY <1>0, DataIs, TextKeeps DEF FInv, SeqInv
<1>3. currLine \o Text(Data) \in Seq(Byte) /\ Ids(currLine \o Text(Data)) = Ids(currLine) \cup Ids(Text(Data))
  BY <1>2, IdsConcat
<1>4. CASE Ends(Data) # {} /\ ReadLine(Data) /\ pc' = "handle"
  BY <1>0, <1>1, <1>4, ReadLineOrder
<1>5. CASE Shut("closed")
  BY <1>0, <1>1, <1>5, ShutOrder DEF stateVars
<1>6. CASE /\ ReadPart(Data) /\ pc' \in {"size", "select", "remain"} /\ ln' = ln
           /\ currLine' = currLine \o Text(Data)
  <2>1. Ids(ln') = {} /\ ln' \in Seq(Byte)
    BY <1>0, <1>6 DEF Ids
  <2> QED BY <2>1, <1>0, <1>1, <1>3, <1>6, ReadPartOrder
<1>7. CASE /\ ReadPart(Data) /\ pc' = "handle"
           /\ ln' = currLine \o Text(Data) /\ currLine' = <<>>
  <2>1. Ids(currLine') = {} /\ currLine' \in Seq(Byte)
    BY <1>7 DEF Ids
  <2> QED BY <2>1, <1>0, <1>1, <1>3, <1>7, ReadPartOrder
<1>8. CASE ReadPart(Data) /\ pc' = "select" /\ ln' = ln /\ currLine' = currLine
  <2>1. Ids(ln') = {} /\ ln' \in Seq(Byte)
    BY <1>0, <1>8 DEF Ids
  <2> QED BY <2>1, <1>0, <1>1, <1>2, <1>8, ReadPartOrder
<1>9. CASE ReadEntry
  BY <1>4, <1>9 DEF ReadEntry
<1>10. CASE ReadEntryEOF
  BY <1>5, <1>6, <1>10 DEF ReadEntryEOF
<1>11. CASE ReadRemaining
  BY <1>4, <1>5, <1>7, <1>8, <1>11 DEF ReadRemaining
<1> QED BY <1>9, <1>10, <1>11

\* The line in hand is handled: it is new, and apart from the buffer.
LEMMA HandleLogOrder ==
  ASSUME GInv, HandleLog
  PROVE  OrderInv' /\ OnceInv'
<1>0. /\ pc = "handle" /\ pc' = "store" /\ handled' = handled \cup Ids(ln)
      /\ again' = (IF crashes = 0 THEN again \cup (handled \cap Ids(ln)) ELSE {})
      /\ UNCHANGED <<file, gen, ln, foff, buf, idx, currLine, rgen, state, saved, crashes>>
  BY DEF HandleLog, fileVars, readerVars, stateVars, savedVars
<1>1. Ids(ln)' = Ids(ln) /\ Ids(buf)' = Ids(buf) /\ Ids(currLine)' = Ids(currLine) /\ Ids(currLine) = {}
  BY <1>0 DEF GInv, FInv, PcInv, Ids
<1>2. Open /\ Open'
  BY <1>0 DEF Open
<1>3. OrderInv'
  BY <1>0, <1>1, <1>2 DEF GInv, OrderInv
<1>4. ASSUME crashes = 0 PROVE OnceInv'
  <2>1. again' = {} /\ handled' \cap (Ids(currLine)' \cup Ids(buf)') = {}
    BY <1>0, <1>1, <1>4 DEF GInv, OnceInv, OrderInv
  <2>2. ASSUME NEW p \in 1..MaxBytes, <<gen, p>> \in handled' PROVE p <= idx /\ foff <= Len(file)
    <3>1. CASE <<gen, p>> \in handled
      <4>1. p <= state /\ foff <= Len(file)
        BY <3>1, <1>0, <1>2, <1>4 DEF GInv, OnceInv
      <4>2. state <= idx /\ state \in Nat /\ idx \in Nat
        BY <1>2, OffsetOrder
      <4> QED BY <4>1, <4>2
    <3>2. CASE <<gen, p>> \in Ids(ln)
      <4> DEFINE x == <<gen, p>>
      <4>1. x \in Ids(ln) /\ x[1] = gen /\ x[2] = p
        BY <3>2
      <4> HIDE DEF x
      <4> QED BY <4>1 DEF GInv, OrderInv
    <3> QED BY <3>1, <3>2, <2>2, <1>0
  <2> QED BY <2>1, <2>2, <1>0, <1>2 DEF OnceInv
<1>5. ASSUME crashes # 0 PROVE OnceInv'
  BY <1>5, <1>0 DEF OnceInv
<1> QED BY <1>3, <1>4, <1>5

\* *f.state = f.lnr.Index().
LEMMA StoreStateOrder ==
  ASSUME GInv, StoreState
  PROVE  OrderInv' /\ OnceInv'
<1>0. /\ pc = "store" /\ state' = idx /\ UNCHANGED <<fileVars, savedVars, histVars, crashes>>
  BY DEF StoreState
<1>1. Open
  BY <1>0 DEF Open
<1>2. CASE Shut("closed")
  BY <1>0, <1>1, <1>2, ShutOrder
<1>3. CASE pc' \in {"read", "select"} /\ ln' = <<>> /\ UNCHANGED readerVars
  <2>0. UNCHANGED <<file, gen, foff, buf, idx, currLine, rgen, saved, handled, again>>
    BY <1>0, <1>3, Zenon DEF fileVars, savedVars, histVars, readerVars
  <2>1. Ids(ln)' = {} /\ Ids(buf)' = Ids(buf) /\ Ids(currLine)' = Ids(currLine)
    BY <1>3, <2>0 DEF Ids
  <2>2. Open' /\ pc' # "handle" /\ pc' # "store" /\ pc' # "down"
    BY <1>3 DEF Open
  <2>3. OrderInv'
    <3>1. state' <= idx'
      BY <1>0, <2>0, Numbers DEF GInv
    <3> QED BY <3>1, <2>0, <2>1, <2>2, <1>0 DEF GInv, OrderInv
  <2>4. OnceInv'
    BY <2>0, <2>1, <2>2, <1>0, <1>1 DEF GInv, OnceInv
  <2> QED BY <2>3, <2>4
<1> QED BY <1>2, <1>3 DEF StoreState, Return

\* SeekFile(0) is for a file that was cut: nothing of it was handled yet.
LEMMA FileSizeOrder ==
  ASSUME GInv, FileSize
  PROVE  OrderInv' /\ OnceInv'
<1>0. pc = "size" /\ pc' = "select" /\ UNCHANGED <<fileVars, ln, savedVars, histVars, crashes>>
  BY DEF FileSize
<1>1. Open /\ Open' /\ buf = <<>> /\ ln = <<>>
  BY <1>0 DEF Open, GInv, FInv, PcInv
<1>2. CASE Len(file) < state
  <2>1. state' = 0 /\ foff' = 0 /\ idx' = 0 /\ UNCHANGED <<buf, currLine, rgen>>
    BY <1>2 DEF FileSize, SeekFile
  <2>0. UNCHANGED <<file, gen, ln, saved, handled, again, crashes>>
    BY <1>0, Zenon DEF fileVars, savedVars, histVars
  <2>2. ~(foff <= Len(file)) /\ Len(file) \in Nat /\ gen \in Nat
    <3>1. state <= idx /\ idx <= foff /\ {state, idx, foff, Len(file), gen} \subseteq Nat
      BY <1>1, OffsetOrder, Zenon
    <3> QED BY <3>1, <1>2
  <2>3. Ids(ln)' = {} /\ Ids(buf)' = {} /\ Ids(currLine)' = Ids(currLine) /\ Len(buf') = 0
    BY <1>1, <2>0, <2>1 DEF Ids
  <2>4. ASSUME NEW x \in Ids(currLine) PROVE x[1] <= gen /\ x[1] < gen
    <3>1. x[1] \in Nat
      BY IdsNumbers DEF GInv, FInv, SeqInv
    <3>2. x[1] <= gen /\ x[1] # gen
      BY <2>2 DEF GInv, OrderInv
    <3> QED BY <3>1, <3>2, <2>2
  <2>5. OrderInv'
    BY <1>0, <2>0, <2>1, <2>2, <2>3, <2>4 DEF OrderInv
  <2>6. \A p \in 1..MaxBytes : crashes = 0 => <<gen, p>> \notin handled
    BY <2>2, <1>1 DEF GInv, OnceInv
  <2>7. OnceInv'
    BY <2>0, <2>3, <2>6, <1>0, <1>1 DEF GInv, OnceInv
  <2> QED BY <2>5, <2>7
<1>3. CASE ~(Len(file) < state)
  <2>1. UNCHANGED <<stateVars, readerVars>>
    BY <1>3 DEF FileSize
  <2>2. Open' = Open
    BY <1>0 DEF Open
  <2> QED BY <2>1, <2>2, <1>0, OrderKept
<1> QED BY <1>2, <1>3

\* A follower opens, and closes, at the offset everything before which is
\* handled, in memory or in the state file.
LEMMA ManagerOrder ==
  ASSUME GInv, NewFollower \/ CloseDead \/ DumpStates \/ Exit \/ NewFilterManager
  PROVE  OrderInv' /\ OnceInv'
<1>0. FInv /\ state \in Nat /\ saved \in Nat /\ Len(file) \in Nat
  BY Numbers, FollowerAssumption DEF GInv, FInv, TypeOK
<1>1. CASE NewFollower
  <2>1. /\ pc = "closed" /\ pc' = "opened" /\ foff' = state /\ idx' = state
        /\ UNCHANGED <<file, gen, ln, buf, currLine, state, handled, again, crashes>>
    BY <1>1 DEF NewFollower, fileVars, stateVars, histVars
  <2>2. ln = <<>> /\ buf = <<>> /\ currLine = <<>>
    BY <2>1, <1>0 DEF FInv, PcInv
  <2>3. Ids(ln)' = {} /\ Ids(buf)' = {} /\ Ids(currLine)' = {} /\ Len(buf') = 0
    <3>1. ln' = <<>> /\ buf' = <<>> /\ currLine' = <<>>
      BY <2>1, <2>2
    <3> QED BY <3>1 DEF Ids
  <2>4. Open' /\ ~Open
    BY <2>1 DEF Open
  <2>5. OrderInv'
    BY <2>1, <2>3, <1>0 DEF OrderInv
  <2>6. OnceInv'
    BY <2>1, <2>3, <2>4 DEF GInv, OnceInv
  <2> QED BY <2>5, <2>6
<1>2. CASE CloseDead
  <2>1. pc = "dead" /\ pc' = "closed" /\ UNCHANGED <<fileVars, ln, readerVars, stateVars, savedVars, histVars, crashes>>
    BY <1>2, Zenon DEF CloseDead
  <2>2. Open' = Open
    BY <2>1 DEF Open
  <2> QED BY <2>1, <2>2, OrderKept
<1>3. CASE DumpStates
  <2>1. pc # "down" /\ UNCHANGED <<file, gen, ln, foff, buf, idx, currLine, rgen, pc, state, handled, again, crashes>>
    BY <1>3, Zenon DEF DumpStates, fileVars, callVars, readerVars, stateVars, histVars
  <2>2. Open' = Open /\ OrderInv /\ OnceInv
    BY <2>1 DEF Open, GInv
  <2>3. OrderInv'
    <3>1. Open' => state' <= idx
      BY <2>1, <2>2 DEF OrderInv
    <3> QED BY <2>1, <2>2, <3>1, OrderFrame
  <2>4. Ids(ln)' = Ids(ln) /\ Ids(buf)' = Ids(buf) /\ Ids(currLine)' = Ids(currLine)
    BY <2>1 DEF Ids
  <2>5. OnceInv'
    BY <2>1, <2>2, <2>4 DEF OnceInv
  <2> QED BY <2>3, <2>5
<1>4. CASE Exit
  <2>1. /\ pc = "closed" /\ pc' = "down" /\ saved' = state
        /\ UNCHANGED <<file, gen, ln, foff, buf, idx, currLine, rgen, handled, again, crashes>>
    BY <1>4, Zenon DEF Exit, fileVars, readerVars, histVars
  <2>2. ~Open' /\ ~Open /\ OrderInv /\ OnceInv
    BY <2>1 DEF Open, GInv
  <2>3. OrderInv'
    BY <2>1, <2>2, OrderFrame
  <2>4. ASSUME crashes = 0, NEW p \in 1..MaxBytes, <<gen, p>> \in handled PROVE p <= saved' /\ saved' <= Len(file')
    BY <2>1, <2>2, <2>4 DEF OnceInv
  <2>5. OnceInv'
    BY <2>1, <2>2, <2>4, OnceFrame, Zenon
  <2> QED BY <2>3, <2>5
<1>5. CASE NewFilterManager
  <2>1. /\ pc = "down" /\ pc' = "closed" /\ state' = (IF Len(file) < saved THEN 0 ELSE saved)
        /\ UNCHANGED <<file, gen, ln, foff, buf, idx, currLine, rgen, handled, again, crashes>>
    BY <1>5, Zenon DEF NewFilterManager, fileVars, readerVars, histVars
  <2>2. ~Open' /\ ~Open /\ OrderInv /\ OnceInv
    BY <2>1 DEF Open, GInv
  <2>3. OrderInv'
    BY <2>1, <2>2, OrderFrame
  <2>4. ASSUME crashes = 0, NEW p \in 1..MaxBytes, <<gen, p>> \in handled PROVE p <= state' /\ state' <= Len(file')
    <3>1. p <= saved /\ saved <= Len(file)
      BY <2>1, <2>2, <2>4 DEF OnceInv
    <3> QED BY <3>1, <2>1, <1>0
  <2>5. OnceInv'
    BY <2>1, <2>2, <2>4, OnceFrame, Zenon
  <2> QED BY <2>3, <2>5
<1> QED BY <1>1, <1>2, <1>3, <1>4, <1>5

\* An error ends the follower before the line in hand is handled; after a
\* crash nothing is claimed.
LEMMA FaultOrder ==
  ASSUME GInv, HandleLogFails \/ WatchError \/ Crash
  PROVE  OrderInv' /\ OnceInv'
<1>1. CASE HandleLogFails \/ WatchError
  <2>1. PICK q \in {"closed", "dead"} : Shut(q)
    BY <1>1 DEF HandleLogFails, WatchError
  <2>2. pc \in {"handle", "select"} /\ UNCHANGED <<fileVars, stateVars, histVars, crashes>>
    BY <1>1 DEF HandleLogFails, WatchError
  <2> QED BY <2>1, <2>2, ShutOrder DEF Open, stateVars
<1>2. CASE Crash
  <2>1. Shut("down") /\ crashes' = crashes + 1
    BY <1>2 DEF Crash
  <2>2. pc' = "down" /\ ln' = <<>> /\ buf' = <<>> /\ currLine' = <<>>
    BY <2>1 DEF Shut
  <2>3. Ids(ln)' = {} /\ Ids(buf)' = {} /\ Ids(currLine)' = {} /\ Len(buf') = 0 /\ ~Open'
    BY <2>2 DEF Ids, Open
  <2>4. OrderInv'
    BY <2>2, <2>3 DEF OrderInv
  <2>5. crashes' # 0
    BY <2>1 DEF GInv
  <2> QED BY <2>4, <2>5 DEF OnceInv
<1> QED BY <1>1, <1>2

\* The writer: an append moves no byte, and a truncation makes all bytes the
\* reader holds older than those to come.
LEMMA WriterOrder ==
  ASSUME GInv, Write \/ Truncate
  PROVE  OrderInv' /\ OnceInv'
<1>0. FInv /\ Len(file) \in Nat /\ gen \in Nat /\ rgen \in Nat /\ foff \in Nat
  BY Numbers DEF GInv
<1>1. CASE Write
  <2>1. UNCHANGED <<gen, pc, ln, foff, buf, idx, currLine, rgen, state, saved, handled, again, crashes>>
    BY <1>1, Zenon DEF Write, callVars, readerVars, stateVars, savedVars, histVars
  <2>2. Len(file') = Len(file) + 1
    BY <1>0, <1>1 DEF Write, FInv, SeqInv
  <2>3. Ids(ln)' = Ids(ln) /\ Ids(buf)' = Ids(buf) /\ Ids(currLine)' = Ids(currLine) /\ Open' = Open
    BY <2>1 DEF Ids, Open
  <2>4. \A n \in Nat : n <= Len(file) => n <= Len(file')
    BY <2>2, <1>0
  <2>5. state \in Nat /\ saved \in Nat
    BY <1>0, FollowerAssumption DEF FInv, TypeOK
  <2>6. OrderInv'
    BY <2>1, <2>3, <2>4, <1>0 DEF GInv, OrderInv
  <2>7. OnceInv'
    BY <2>1, <2>3, <2>4, <2>5, <1>0 DEF GInv, OnceInv
  <2> QED BY <2>6, <2>7
<1>2. CASE Truncate
  <2>1. /\ gen' = gen + 1 /\ handled' = {}
        /\ UNCHANGED <<pc, ln, foff, buf, idx, currLine, rgen, state, saved, again, crashes>>
    BY <1>2, Zenon DEF Truncate, callVars, readerVars, stateVars, savedVars
  <2>2. Ids(ln)' = Ids(ln) /\ Ids(buf)' = Ids(buf) /\ Ids(currLine)' = Ids(currLine) /\ Open' = Open
    BY <2>1, Zenon DEF Ids, Open
  <2>3. OnceInv'
    BY <2>1, <2>2 DEF GInv, OnceInv
  <2>4. ASSUME NEW x \in Ids(currLine) \cup Ids(ln) \cup Ids(buf) PROVE x[1] <= gen /\ x[1] <= gen' /\ x[1] # gen'
    <3>1. x[1] \in Nat
      BY IdsNumbers, <1>0 DEF FInv, SeqInv
    <3>2. x[1] <= gen
      <4>1. CASE x \in Ids(buf)
        <5>1. PICK i \in 1..Len(buf) : x = <<buf[i].gen, buf[i].pos>>
          BY <4>1 DEF Ids
        <5>2. buf[i].gen \in rgen..gen
          BY Zenon DEF GInv, OrderInv
        <5> QED BY <5>1, <5>2, <1>0
      <4>2. CASE x \in Ids(currLine) \cup Ids(ln)
        BY <4>2, Zenon DEF GInv, OrderInv
      <4> QED BY <4>1, <4>2, <2>4
    <3> QED BY <3>1, <3>2, <2>1, <1>0
  <2>5. \A i \in 1..Len(buf) : buf[i].pos = idx + i /\ buf[i].gen \in rgen..gen'
    <3>1. \A i \in 1..Len(buf) : buf[i].pos = idx + i /\ buf[i].gen \in rgen..gen
      BY Zenon DEF GInv, OrderInv
    <3> QED BY <3>1, <2>1, <1>0
  <2>6. \A x \in Ids(currLine) : x[2] <= idx \/ x[1] < rgen \/ (foff = 0 /\ x[1] < gen')
    <3>1. ASSUME NEW x \in Ids(currLine), foff = 0 PROVE x[1] < gen'
      <4>1. x[1] \in Nat
        BY IdsNumbers, <1>0 DEF FInv, SeqInv
      <4> QED BY <4>1, <2>4, <2>1, <1>0
    <3>2. \A x \in Ids(currLine) : x[2] <= idx \/ x[1] < rgen \/ (foff = 0 /\ x[1] < gen)
      BY Zenon DEF GInv, OrderInv
    <3> QED BY <3>1, <3>2, Zenon
  <2>7. OrderInv'
    BY <2>1, <2>2, <2>4, <2>5, <2>6 DEF GInv, OrderInv
  <2> QED BY <2>3, <2>7
<1> QED BY <1>1, <1>2

-----------------------------------------------------------------------------
\* Every step keeps the invariant.
LEMMA StepOnce == GInv /\ [Next]_vars => GInv'
<1> SUFFICES ASSUME GInv, [Next]_vars PROVE GInv'
  OBVIOUS
<1>1. FInv'
  BY StepInv DEF GInv
<1>2. crashes' \in Nat
  <2>1. crashes \in Nat
    BY DEF GInv
  <2>2. crashes' = crashes \/ crashes' = crashes + 1
    BY Zenon DEF Next, Steps, Start, WriteEvent, Tick, Abort, Enter, ReadEntry, ReadEntryEOF, FileSize, ReadRemaining,
           HandleLog, StoreState, NewFollower, HandleLogFails, WatchError, CloseDead, DumpStates, Exit, Crash,
           NewFilterManager, Write, Truncate, vars
  <2> QED BY <2>1, <2>2
<1>3. CASE UNCHANGED vars
  <2>0. /\ UNCHANGED <<file, gen, pc, ln, foff, buf, idx, currLine, rgen>>
        /\ UNCHANGED <<state, saved, handled, again, crashes>>
    BY <1>3, Zenon DEF vars, fileVars, readerVars, stateVars, savedVars, histVars, callVars
  <2>1. Ids(ln)' = Ids(ln) /\ Ids(buf)' = Ids(buf) /\ Ids(currLine)' = Ids(currLine) /\ Open' = Open
    BY <2>0, Zenon DEF Ids, Open
  <2>2. OrderInv /\ OnceInv
    BY DEF GInv
  <2>3. OrderInv'
    BY <2>0, <2>1, <2>2, ZenonT(60) DEF OrderInv
  <2>4. OnceInv'
    BY <2>0, <2>1, <2>2 DEF OnceInv
  <2> QED BY <2>3, <2>4, <1>1, <1>2, Zenon DEF GInv
<1>4. CASE Start \/ WriteEvent \/ Tick \/ Abort
  <2>1. /\ pc \in {"opened", "select"} /\ pc' = "read"
        /\ UNCHANGED <<fileVars, readerVars, ln, stateVars, histVars, crashes>>
    BY <1>4 DEF Start, WriteEvent, Tick, Abort, Enter
  <2>2. Open' = Open
    BY <2>1 DEF Open
  <2>3. OrderInv' /\ OnceInv'
    BY <2>1, <2>2, OrderKept
  <2> QED BY <2>3, <1>1, <1>2 DEF GInv
<1>5. CASE Next /\ ~(Start \/ WriteEvent \/ Tick \/ Abort)
  <2>1. OrderInv' /\ OnceInv'
    BY <1>5, ReadsOrder, FileSizeOrder, HandleLogOrder, StoreStateOrder, ManagerOrder, FaultOrder, WriterOrder
       DEF Next, Steps
  <2> QED BY <2>1, <1>1, <1>2 DEF GInv
<1> QED BY <1>3, <1>4, <1>5

\* Without a crash no byte of a file is given to HandleLog twice, however
\* often it is truncated, HandleLog fails or the follower is closed and
\* opened again at *f.state or at the offset of the state file.
THEOREM HandledOnce == Spec => []OnceWithoutCrash
<1>1. Init => GInv
  <2> SUFFICES ASSUME Init PROVE OrderInv /\ OnceInv /\ crashes \in Nat
    BY InitInv DEF GInv
  <2>1. Ids(ln) = {} /\ Ids(buf) = {} /\ Ids(currLine) = {} /\ Len(buf) = 0
    BY DEF Init, Ids
  <2> QED BY <2>1 DEF Init, OrderInv, OnceInv, Open
<1>2. GInv => OnceWithoutCrash
  BY DEF GInv, OnceInv, OnceWithoutCrash
<1> QED BY <1>1, <1>2, StepOnce, PTL DEF Spec
=============================================================================
