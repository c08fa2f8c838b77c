------------------------ MODULE EntryTransportProofs ------------------------
(***************************************************************************)
(* What EntryTransport promises for every size of its buffers: the types   *)
(* and capacities, that a confirmed entry has been read, and that acks     *)
(* arrive in the order of the confirmation buffer.                         *)
(*                                                                         *)
(* The IDs under way form one ascending chain: acks in flight, in the      *)
(* buffer of the ackRoutine, in ackChan and in the hands of Read(), then   *)
(* entries in flight and in the buffer of the writer.  Every step takes an *)
(* ID off the front of the chain, moves it to the next place, or adds a    *)
(* new one at the end.                                                     *)
(***************************************************************************)
EXTENDS EntryTransport, TLAPS

\* The IDs of the commands k in a channel, and of one command.
Of(s, k) == {s[i].val : i \in {j \in 1..Len(s) : s[j].cmd = k}}
One(c, k) == IF c.cmd = k THEN {c.val} ELSE {}

\* The commands k of a channel have ascending IDs.
Ascending(s, k) ==
  \A i, j \in 1..Len(s) : i < j /\ s[i].cmd = k /\ s[j].cmd = k => s[i].val < s[j].val

Before(S, T) == \A x \in S, y \in T : x < y

\* The links of the chain.
Arriving == Of(down, "CONFIRM_ENTRY")
Buffered == Of(abuf, "CONFIRM_ENTRY")
Queued == Of(ackChan, "CONFIRM_ENTRY")
InHand == Of(hand, "CONFIRM_ENTRY")
OnWire == Of(up, "NEW_ENTRY")
Written == Of(bIO, "NEW_ENTRY")

Acks == Arriving \cup Buffered \cup Queued \cup InHand
Chain == Acks \cup OnWire \cup Written

Unconfirmed == {ecb[i] : i \in 1..Len(ecb)}

\* The chain ascends, inside each channel and from each to the next.
OrderInv ==
  /\ Ascending(down, "CONFIRM_ENTRY") /\ Ascending(abuf, "CONFIRM_ENTRY")
  /\ Ascending(ackChan, "CONFIRM_ENTRY") /\ Ascending(up, "NEW_ENTRY") /\ Ascending(bIO, "NEW_ENTRY")
  /\ Before(Arriving, Buffered) /\ Before(Arriving \cup Buffered, Queued)
  /\ Before(Arriving \cup Buffered \cup Queued, InHand)
  /\ Before(Acks, OnWire) /\ Before(Acks \cup OnWire, Written)

\* Every ID has been given out.
RangeInv == Chain \cup Unconfirmed \cup refused \subseteq 1..sent

\* The confirmation buffer ascends; while the writer has the connection the
\* chain is a part of it and of the refused entries; until the connection
\* breaks it is a part of the chain; and what is missing from the chain then
\* lies behind the acks that still arrive.
EcbInv ==
  /\ \A i, j \in 1..Len(ecb) : i < j => ecb[i] < ecb[j]
  /\ Unconfirmed \cap refused = {}
  /\ wPc # "closed" => Chain \subseteq Unconfirmed \cup refused
  /\ link => Unconfirmed \subseteq Chain
  /\ \A x \in Unconfirmed, v \in Arriving : x < v => x \in Arriving

\* Read() has taken every entry that is acked, and the ackRoutine starts each
\* round with an empty buffer and gives up only on a broken connection.
AckInv ==
  /\ Acks \cup acked \subseteq read
  /\ aPc \in {"select", "failed"} => abuf = <<>>
  /\ aPc = "failed" => ~link

\* The call is writing entries: there is one left to write and an ID for it.
Writing ==
  \/ wPc \in {"entry", "send"}
  \/ wPc = "flush" /\ next = "send"
  \/ (wPc = "read" \/ (wPc = "flush" /\ next = "read")) /\ svc.ret \in {"entry", "send"}

CallInv == Writing => todo >= 1 /\ sent + todo <= MaxId

FlowInv == OrderInv /\ RangeInv /\ EcbInv /\ AckInv

TInv == TypeOK /\ CallInv /\ FlowInv

-----------------------------------------------------------------------------
\* A channel without commands has no IDs.
LEMMA NoIds ==
  ASSUME NEW k PROVE Of(<<>>, k) = {} /\ Ascending(<<>>, k)
BY DEF Of, Ascending

\* A command that is sent adds its ID at the end.
LEMMA AppendIds ==
  ASSUME NEW s \in Seq(CmdType), NEW c \in CmdType, NEW k
  PROVE /\ Of(Append(s, c), k) = Of(s, k) \cup One(c, k)
        /\ Ascending(s, k) /\ Before(Of(s, k), One(c, k)) => Ascending(Append(s, c), k)
<1> DEFINE t == Append(s, c)
<1>1. /\ Len(t) = Len(s) + 1 /\ Len(s) \in Nat /\ t[Len(s) + 1] = c
      /\ \A i \in 1..Len(s) : t[i] = s[i]
  OBVIOUS
<1>2. \A i \in 1..Len(t) : i \in 1..Len(s) \/ i = Len(s) + 1
  BY <1>1
<1> HIDE DEF t
<1>3. Of(t, k) = Of(s, k) \cup One(c, k)
  <2>1. ASSUME NEW x \in Of(t, k) PROVE x \in Of(s, k) \cup One(c, k)
    <3>1. PICK i \in 1..Len(t) : t[i].cmd = k /\ x = t[i].val
      BY DEF Of
    <3> QED BY <3>1, <1>1, <1>2 DEF Of, One
  <2>2. ASSUME NEW x \in Of(s, k) PROVE x \in Of(t, k)
    <3>1. PICK i \in 1..Len(s) : s[i].cmd = k /\ x = s[i].val
      BY DEF Of
    <3>2. i \in 1..Len(t) /\ t[i] = s[i]
      BY <1>1
    <3> QED BY <3>1, <3>2 DEF Of
  <2>3. ASSUME NEW x \in One(c, k) PROVE x \in Of(t, k)
    <3>1. Len(s) + 1 \in 1..Len(t)
      BY <1>1
    <3> QED BY <3>1, <1>1 DEF Of, One
  <2> QED BY <2>1, <2>2, <2>3
<1>4. ASSUME Ascending(s, k), Before(Of(s, k), One(c, k)) PROVE Ascending(t, k)
  <2> SUFFICES ASSUME NEW i \in 1..Len(t), NEW j \in 1..Len(t), i < j, t[i].cmd = k, t[j].cmd = k
               PROVE t[i].val < t[j].val
    BY DEF Ascending
  <2>1. i \in 1..Len(s)
    BY <1>1
  <2>2. CASE j \in 1..Len(s)
    BY <2>1, <2>2, <1>1, <1>4 DEF Ascending
  <2>3. CASE j = Len(s) + 1
    <3>1. t[i].val \in Of(s, k) /\ t[j].val \in One(c, k)
      BY <2>1, <2>3, <1>1 DEF Of, One
    <3> QED BY <3>1, <1>4 DEF Before
  <2> QED BY <2>2, <2>3, <1>2
<1> QED BY <1>3, <1>4 DEF t

\* A command that is received takes its ID off the front.
LEMMA TailIds ==
  ASSUME NEW s \in Seq(CmdType), s # <<>>, NEW k
  PROVE /\ Of(s, k) = One(Head(s), k) \cup Of(Tail(s), k)
        /\ Ascending(s, k) => Ascending(Tail(s), k) /\ Before(One(Head(s), k), Of(Tail(s), k))
        /\ Head(s) \in CmdType /\ Tail(s) \in Seq(CmdType)
<1> DEFINE t == Tail(s)
<1>1. /\ Len(t) = Len(s) - 1 /\ Len(s) \in Nat \ {0} /\ Head(s) = s[1]
      /\ \A i \in 1..Len(t) : t[i] = s[i + 1]
      /\ Head(s) \in CmdType /\ t \in Seq(CmdType)
  OBVIOUS
<1> HIDE DEF t
<1>2. Of(s, k) = One(Head(s), k) \cup Of(t, k)
  <2>1. ASSUME NEW x \in Of(s, k) PROVE x \in One(Head(s), k) \cup Of(t, k)
    <3>1. PICK i \in 1..Len(s) : s[i].cmd = k /\ x = s[i].val
      BY DEF Of
    <3>2. CASE i = 1
      BY <3>1, <3>2, <1>1 DEF One
    <3>3. CASE i # 1
      <4>1. i - 1 \in 1..Len(t) /\ t[i - 1] = s[i]
        BY <3>3, <1>1
      <4> QED BY <3>1, <4>1 DEF Of
    <3> QED BY <3>2, <3>3
  <2>2. ASSUME NEW x \in Of(t, k) PROVE x \in Of(s, k)
    <3>1. PICK i \in 1..Len(t) : t[i].cmd = k /\ x = t[i].val
      BY DEF Of
    <3>2. i + 1 \in 1..Len(s) /\ t[i] = s[i + 1]
      BY <1>1
    <3> QED BY <3>1, <3>2 DEF Of
  <2>3. ASSUME NEW x \in One(Head(s), k) PROVE x \in Of(s, k)
    <3>1. 1 \in 1..Len(s)
      BY <1>1
    <3> QED BY <3>1, <1>1 DEF Of, One
  <2> QED BY <2>1, <2>2, <2>3
<1>3. ASSUME Ascending(s, k) PROVE Ascending(t, k) /\ Before(One(Head(s), k), Of(t, k))
  <2>1. Ascending(t, k)
    <3> SUFFICES ASSUME NEW i \in 1..Len(t), NEW j \in 1..Len(t), i < j, t[i].cmd = k, t[j].cmd = k
                 PROVE t[i].val < t[j].val
      BY DEF Ascending
    <3>1. i + 1 \in 1..Len(s) /\ j + 1 \in 1..Len(s) /\ i + 1 < j + 1
      BY <1>1
    <3> QED BY <3>1, <1>1, <1>3 DEF Ascending
  <2>2. ASSUME NEW x \in One(Head(s), k), NEW y \in Of(t, k) PROVE x < y
    <3>1. PICK j \in 1..Len(t) : t[j].cmd = k /\ y = t[j].val
      BY DEF Of
    <3>2. x = s[1].val /\ s[1].cmd = k
      BY <1>1 DEF One
    <3>3. j + 1 \in 1..Len(s) /\ 1 \in 1..Len(s) /\ 1 < j + 1
      BY <1>1
    <3> QED BY <3>1, <3>2, <3>3, <1>1, <1>3 DEF Ascending
  <2> QED BY <2>1, <2>2 DEF Before
<1> QED BY <1>1, <1>2, <1>3 DEF t

\* Losing the end of a channel keeps the order and every ID below one that is left.
LEMMA PrefixIds ==
  ASSUME NEW s \in Seq(CmdType), NEW n \in 0..Len(s), NEW k
  PROVE /\ SubSeq(s, 1, n) \in Seq(CmdType) /\ Len(SubSeq(s, 1, n)) = n
        /\ Of(SubSeq(s, 1, n), k) \subseteq Of(s, k)
        /\ Ascending(s, k) =>
             /\ Ascending(SubSeq(s, 1, n), k)
             /\ \A x \in Of(s, k), v \in Of(SubSeq(s, 1, n), k) : x < v => x \in Of(SubSeq(s, 1, n), k)
<1> DEFINE t == SubSeq(s, 1, n)
<1>1. /\ Len(t) = n /\ n \in Nat /\ Len(s) \in Nat /\ n <= Len(s) /\ t \in Seq(CmdType)
      /\ \A i \in 1..n : t[i] = s[i]
  OBVIOUS
<1> HIDE DEF t
<1>2. Of(t, k) \subseteq Of(s, k)
  <2> SUFFICES ASSUME NEW x \in Of(t, k) PROVE x \in Of(s, k)
    OBVIOUS
  <2>1. PICK i \in 1..Len(t) : t[i].cmd = k /\ x = t[i].val
    BY DEF Of
  <2>2. i \in 1..Len(s) /\ t[i] = s[i]
    BY <1>1
  <2> QED BY <2>1, <2>2 DEF Of
<1>3. ASSUME Ascending(s, k) PROVE Ascending(t, k)
  <2> SUFFICES ASSUME NEW i \in 1..Len(t), NEW j \in 1..Len(t), i < j, t[i].cmd = k, t[j].cmd = k
               PROVE t[i].val < t[j].val
    BY DEF Ascending
  <2>1. i \in 1..Len(s) /\ j \in 1..Len(s) /\ t[i] = s[i] /\ t[j] = s[j]
    BY <1>1
  <2> QED BY <2>1, <1>3 DEF Ascending
<1>4. ASSUME Ascending(s, k), NEW x \in Of(s, k), NEW v \in Of(t, k), x < v PROVE x \in Of(t, k)
  <2>1. PICK i \in 1..Len(s) : s[i].cmd = k /\ x = s[i].val
    BY DEF Of
  <2>2. PICK j \in 1..Len(t) : t[j].cmd = k /\ v = t[j].val
    BY DEF Of
  <2>3. j \in 1..Len(s) /\ t[j] = s[j]
    BY <1>1
  <2>4. s[i].val \in Nat /\ s[j].val \in Nat
    <3>1. s[i] \in CmdType /\ s[j] \in CmdType
      BY <2>3
    <3> QED BY <3>1 DEF CmdType
  <2>5. i < j \/ i = j \/ j < i
    OBVIOUS
  <2>6. ~(j < i) /\ i # j
    BY <1>4, <2>1, <2>2, <2>3, <2>4 DEF Ascending
  <2>7. i \in 1..Len(t) /\ t[i] = s[i]
    BY <2>5, <2>6, <1>1
  <2> QED BY <2>1, <2>7 DEF Of
<1> QED BY <1>1, <1>2, <1>3, <1>4 DEF t

-----------------------------------------------------------------------------
\* The types of the channels.
ChannelTypes ==
  /\ bIO \in Seq(CmdType) /\ up \in Seq(CmdType) /\ down \in Seq(CmdType)
  /\ hand \in Seq(CmdType) /\ Len(hand) <= 1 /\ ackChan \in Seq(CmdType) /\ abuf \in Seq(CmdType)
  /\ ecb \in Seq(1..MaxId) /\ sent \in Nat

\* A step that touches no ID under way: the writer may put another command
\* into its buffer, use up IDs, or close the connection and eject.
LEMMA QuietStep ==
  ASSUME ChannelTypes, FlowInv,
         UNCHANGED <<up, down, hand, ackChan, abuf, aPc, read, acked, refused>>,
         sent' \in Nat, sent <= sent',
         bIO' = bIO \/ \E c \in CmdType : c.cmd # "NEW_ENTRY" /\ bIO' = Append(bIO, c),
         wPc = "closed" => wPc' = "closed",
         \/ ecb' = ecb /\ link' = link
         \/ ecb' = <<>> /\ link' = FALSE /\ wPc' = "closed"
  PROVE FlowInv'
<1>1. Written' = Written /\ Ascending(bIO', "NEW_ENTRY")
  <2>1. CASE bIO' = bIO
    BY <2>1 DEF FlowInv, OrderInv, Written
  <2>2. ASSUME NEW c \in CmdType, c.cmd # "NEW_ENTRY", bIO' = Append(bIO, c)
        PROVE Written' = Written /\ Ascending(bIO', "NEW_ENTRY")
    <3>1. One(c, "NEW_ENTRY") = {}
      BY <2>2 DEF One
    <3>2. bIO \in Seq(CmdType) /\ Ascending(bIO, "NEW_ENTRY")
      BY DEF ChannelTypes, FlowInv, OrderInv
    <3>3. Before(Of(bIO, "NEW_ENTRY"), One(c, "NEW_ENTRY"))
      BY <3>1 DEF Before
    <3>4. Of(Append(bIO, c), "NEW_ENTRY") = Of(bIO, "NEW_ENTRY") \cup One(c, "NEW_ENTRY")
      BY <3>2, AppendIds
    <3>5. Ascending(Append(bIO, c), "NEW_ENTRY")
      BY <3>2, <3>3, AppendIds
    <3> QED BY <2>2, <3>1, <3>4, <3>5, Zenon DEF Written
  <2> QED BY <2>1, <2>2
<1>2. /\ Arriving' = Arriving /\ Buffered' = Buffered /\ Queued' = Queued
      /\ InHand' = InHand /\ OnWire' = OnWire
  BY DEF Arriving, Buffered, Queued, InHand, OnWire
<1>3. Acks' = Acks /\ Chain' = Chain
  BY <1>1, <1>2 DEF Acks, Chain
<1>4. OrderInv'
  BY <1>1, <1>2, <1>3 DEF FlowInv, OrderInv
<1>5. Unconfirmed' = Unconfirmed \/ Unconfirmed' = {}
  BY DEF Unconfirmed
<1>6. RangeInv'
  BY <1>3, <1>5 DEF FlowInv, RangeInv, ChannelTypes
<1>7. EcbInv'
  <2>1. CASE ecb' = ecb /\ link' = link
    <3>1. Unconfirmed' = Unconfirmed
      BY <2>1 DEF Unconfirmed
    <3> QED BY <2>1, <3>1, <1>2, <1>3 DEF FlowInv, EcbInv
  <2>2. CASE ecb' = <<>> /\ link' = FALSE /\ wPc' = "closed"
    <3>1. Unconfirmed' = {} /\ Len(ecb') = 0
      BY <2>2 DEF Unconfirmed
    <3> QED BY <2>2, <3>1 DEF EcbInv
  <2> QED BY <2>1, <2>2, Zenon
<1>8. AckInv'
  BY <1>3 DEF FlowInv, AckInv
<1> QED BY <1>4, <1>6, <1>7, <1>8 DEF FlowInv

\* A step that moves IDs along the chain, or loses some on a broken connection.
LEMMA KeptChain ==
  ASSUME FlowInv, UNCHANGED <<ecb, refused, sent, wPc>>,
         Chain' \subseteq Chain, link' => link /\ Chain' = Chain,
         \A x \in Unconfirmed, v \in Arriving' : x < v => x \in Arriving'
  PROVE RangeInv' /\ EcbInv'
<1>1. Unconfirmed' = Unconfirmed
  BY DEF Unconfirmed
<1>2. RangeInv'
  BY <1>1 DEF FlowInv, RangeInv
<1> QED BY <1>1, <1>2 DEF FlowInv, EcbInv

\* encodeAndSendEntry() and ecb.Add(): a new ID at the end of the chain.
LEMMA SendStep ==
  ASSUME ChannelTypes, FlowInv, wPc # "closed", sent' = sent + 1,
         bIO' = Append(bIO, Cmd("NEW_ENTRY", sent + 1)),
         \/ ecb' = Append(ecb, sent + 1) /\ refused' = refused
         \/ ecb' = ecb /\ refused' = refused \cup {sent + 1},
         UNCHANGED <<up, down, link, hand, ackChan, abuf, aPc, read, acked>>
  PROVE FlowInv'
<1> DEFINE c == Cmd("NEW_ENTRY", sent + 1)
<1>1. c \in CmdType /\ One(c, "NEW_ENTRY") = {sent + 1}
  BY DEF ChannelTypes, Cmd, CmdType, Commands, One
<1>2. /\ bIO \in Seq(CmdType) /\ Ascending(bIO, "NEW_ENTRY") /\ sent \in Nat
      /\ Chain \subseteq 1..sent /\ Unconfirmed \subseteq 1..sent /\ refused \subseteq 1..sent
  BY DEF ChannelTypes, FlowInv, OrderInv, RangeInv
<1> HIDE DEF c
<1>3. Before(Written, {sent + 1})
  BY <1>2 DEF Before, Chain
<1>4. Written' = Written \cup {sent + 1} /\ Ascending(bIO', "NEW_ENTRY")
  BY <1>1, <1>2, <1>3, AppendIds, Zenon DEF Written, c
<1>5. /\ Arriving' = Arriving /\ Buffered' = Buffered /\ Queued' = Queued
      /\ InHand' = InHand /\ OnWire' = OnWire
  BY DEF Arriving, Buffered, Queued, InHand, OnWire
<1>6. Acks' = Acks /\ Chain' = Chain \cup {sent + 1}
  BY <1>4, <1>5 DEF Acks, Chain
<1>7. OrderInv'
  <2>1. Before(Acks \cup OnWire, Written \cup {sent + 1})
    BY <1>2 DEF FlowInv, OrderInv, Before, Chain
  <2> QED BY <2>1, <1>4, <1>5, <1>6 DEF FlowInv, OrderInv
<1>8. CASE ecb' = Append(ecb, sent + 1) /\ refused' = refused
  <2> DEFINE e == Append(ecb, sent + 1)
  <2>1. /\ Len(e) = Len(ecb) + 1 /\ Len(ecb) \in Nat /\ e[Len(ecb) + 1] = sent + 1
        /\ \A i \in 1..Len(ecb) : e[i] = ecb[i]
    BY DEF ChannelTypes
  <2>2. ecb' = e
    BY <1>8
  <2> HIDE DEF e
  <2>3. Unconfirmed' = Unconfirmed \cup {sent + 1}
    <3>1. ASSUME NEW i \in 1..Len(e) PROVE e[i] \in Unconfirmed \cup {sent + 1}
      BY <2>1 DEF Unconfirmed
    <3>2. ASSUME NEW i \in 1..Len(ecb) PROVE \E j \in 1..Len(e) : e[j] = ecb[i]
      <4>1. i \in 1..Len(e)
        BY <2>1
      <4> QED BY <4>1, <2>1
    <3>3. \E j \in 1..Len(e) : e[j] = sent + 1
      <4>1. Len(ecb) + 1 \in 1..Len(e)
        BY <2>1
      <4> QED BY <4>1, <2>1
    <3> QED BY <3>1, <3>2, <3>3, <2>2, ZenonT(60) DEF Unconfirmed
  <2>4. ASSUME NEW i \in 1..Len(e), NEW j \in 1..Len(e), i < j PROVE e[i] < e[j]
    <3>1. i \in 1..Len(ecb) /\ ecb[i] \in Unconfirmed
      BY <2>1, <2>4 DEF Unconfirmed
    <3>2. CASE j \in 1..Len(ecb)
      BY <3>1, <3>2, <2>1, <2>4 DEF FlowInv, EcbInv
    <3>3. CASE j = Len(ecb) + 1
      <4>1. e[i] = ecb[i] /\ e[j] = sent + 1
        BY <3>1, <3>3, <2>1
      <4>2. ecb[i] \in 1..sent
        BY <3>1, <1>2, Zenon
      <4> QED BY <4>1, <4>2, <1>2
    <3> QED BY <3>2, <3>3, <2>1
  <2>5. RangeInv'
    BY <2>3, <1>8, <1>6, <1>2 DEF RangeInv
  <2>6. EcbInv'
    <3>1. \A i, j \in 1..Len(ecb') : i < j => ecb'[i] < ecb'[j]
      BY <2>2, <2>4
    <3>2. Unconfirmed' \cap refused' = {}
      BY <2>3, <1>8, <1>2 DEF FlowInv, EcbInv
    <3>3. Chain' \subseteq Unconfirmed' \cup refused' /\ (link' => Unconfirmed' \subseteq Chain')
      BY <2>3, <1>8, <1>6 DEF FlowInv, EcbInv
    <3>4. \A x \in Unconfirmed', v \in Arriving' : x < v => x \in Arriving'
      BY <2>3, <1>5, <1>2 DEF FlowInv, EcbInv, Chain, Acks
    <3> QED BY <3>1, <3>2, <3>3, <3>4 DEF EcbInv
  <2>7. AckInv'
    BY <1>6 DEF FlowInv, AckInv
  <2> QED BY <1>7, <2>5, <2>6, <2>7 DEF FlowInv
<1>9. CASE ecb' = ecb /\ refused' = refused \cup {sent + 1}
  <2>1. Unconfirmed' = Unconfirmed
    BY <1>9 DEF Unconfirmed
  <2>2. RangeInv'
    BY <2>1, <1>9, <1>6, <1>2 DEF RangeInv
  <2>3. EcbInv'
    <3>1. Unconfirmed' \cap refused' = {}
      BY <2>1, <1>9, <1>2 DEF FlowInv, EcbInv
    <3> QED BY <3>1, <2>1, <1>9, <1>6, <1>5 DEF FlowInv, EcbInv
  <2>4. AckInv'
    BY <1>6 DEF FlowInv, AckInv
  <2> QED BY <1>7, <2>2, <2>3, <2>4 DEF FlowInv
<1> QED BY <1>8, <1>9

\* The command at the front of a channel moves to the end of the one before it.
LEMMA MoveIds ==
  ASSUME NEW s \in Seq(CmdType), NEW t \in Seq(CmdType), t # <<>>, NEW k,
         Ascending(s, k), Ascending(t, k), Before(Of(s, k), Of(t, k))
  PROVE /\ Of(Append(s, Head(t)), k) = Of(s, k) \cup One(Head(t), k)
        /\ Of(t, k) = One(Head(t), k) \cup Of(Tail(t), k)
        /\ Ascending(Append(s, Head(t)), k) /\ Ascending(Tail(t), k)
        /\ Before(Of(Append(s, Head(t)), k), Of(Tail(t), k))
<1>1. /\ Head(t) \in CmdType /\ Of(t, k) = One(Head(t), k) \cup Of(Tail(t), k)
      /\ Ascending(Tail(t), k) /\ Before(One(Head(t), k), Of(Tail(t), k))
  BY TailIds
<1>2. Before(Of(s, k), One(Head(t), k)) /\ Before(Of(s, k), Of(Tail(t), k))
  BY <1>1 DEF Before
<1>3. Of(Append(s, Head(t)), k) = Of(s, k) \cup One(Head(t), k)
  BY <1>1, AppendIds
<1>4. Ascending(Append(s, Head(t)), k)
  BY <1>1, <1>2, AppendIds
<1>5. Before(Of(Append(s, Head(t)), k), Of(Tail(t), k))
  BY <1>1, <1>2, <1>3 DEF Before
<1> QED BY <1>1, <1>3, <1>4, <1>5

\* flush() puts a command on the connection.
LEMMA FlushStep ==
  ASSUME ChannelTypes, FlowInv, bIO # <<>>, up' = Append(up, Head(bIO)), bIO' = Tail(bIO),
         UNCHANGED <<ecb, refused, sent, wPc, link, down, hand, ackChan, abuf, aPc, read, acked>>
  PROVE FlowInv'
<1> DEFINE h == One(Head(bIO), "NEW_ENTRY")
<1>1. /\ bIO \in Seq(CmdType) /\ up \in Seq(CmdType)
      /\ Ascending(bIO, "NEW_ENTRY") /\ Ascending(up, "NEW_ENTRY") /\ Before(OnWire, Written)
  BY DEF ChannelTypes, FlowInv, OrderInv, Before
<1>2. /\ OnWire' = OnWire \cup h /\ Written = h \cup Written'
      /\ Ascending(up', "NEW_ENTRY") /\ Ascending(bIO', "NEW_ENTRY") /\ Before(OnWire', Written')
  BY <1>1, MoveIds DEF OnWire, Written
<1> HIDE DEF h
<1>3. /\ Arriving' = Arriving /\ Buffered' = Buffered /\ Queued' = Queued /\ InHand' = InHand
  BY DEF Arriving, Buffered, Queued, InHand
<1>4. Acks' = Acks /\ Chain' = Chain
  BY <1>2, <1>3 DEF Acks, Chain
<1>5. Before(Acks, OnWire') /\ Before(Acks, Written')
  BY <1>2 DEF FlowInv, OrderInv, Before
<1>6. OrderInv'
  BY <1>2, <1>3, <1>4, <1>5 DEF FlowInv, OrderInv, Before
<1>7. RangeInv' /\ EcbInv'
  BY <1>3, <1>4, KeptChain DEF FlowInv, EcbInv
<1>8. AckInv'
  BY <1>4 DEF FlowInv, AckInv
<1> QED BY <1>6, <1>7, <1>8 DEF FlowInv

\* Read() takes a command off the connection; an entry becomes an ack.
LEMMA TakeStep ==
  ASSUME ChannelTypes, FlowInv, ReadCommand PROVE FlowInv'
<1> DEFINE c == Head(up)  h == One(c, "NEW_ENTRY")
<1>1. /\ hand = <<>> /\ up # <<>> /\ up' = Tail(up)
      /\ UNCHANGED <<ecb, refused, sent, wPc, link, down, bIO, ackChan, abuf, aPc, acked>>
  BY DEF ReadCommand, callVars, writerVars
<1>2. /\ c \in CmdType /\ OnWire = h \cup OnWire' /\ Ascending(up', "NEW_ENTRY") /\ Before(h, OnWire')
  <2>1. up \in Seq(CmdType) /\ Ascending(up, "NEW_ENTRY")
    BY DEF ChannelTypes, FlowInv, OrderInv
  <2> QED BY <1>1, <2>1, TailIds DEF OnWire
<1>3. InHand = {} /\ InHand' = h /\ read' = read \cup h
  <2>1. InHand = {}
    BY <1>1, NoIds DEF InHand
  <2>2. CASE c.cmd = "NEW_ENTRY"
    <3>1. hand' = <<Cmd("CONFIRM_ENTRY", c.val)>> /\ read' = read \cup {c.val}
      BY <2>2 DEF ReadCommand
    <3>2. Len(hand') = 1 /\ hand'[1].cmd = "CONFIRM_ENTRY" /\ hand'[1].val = c.val
      BY <3>1 DEF Cmd
    <3>3. InHand' = {c.val}
      BY <3>2 DEF InHand, Of
    <3> QED BY <2>1, <2>2, <3>1, <3>3 DEF One
  <2>3. CASE c.cmd # "NEW_ENTRY"
    <3>1. read' = read /\ (hand' = hand \/ \E d : hand' = <<d>> /\ d.cmd # "CONFIRM_ENTRY")
      BY <2>3 DEF ReadCommand, Cmd
    <3>2. ASSUME NEW d, hand' = <<d>>, d.cmd # "CONFIRM_ENTRY" PROVE InHand' = {}
      BY <3>2 DEF InHand, Of
    <3>3. InHand' = {}
      BY <3>1, <3>2, <2>1 DEF InHand
    <3> QED BY <2>1, <2>3, <3>1, <3>3 DEF One
  <2> QED BY <2>2, <2>3
<1> HIDE DEF h, c
<1>4. /\ Arriving' = Arriving /\ Buffered' = Buffered /\ Queued' = Queued /\ Written' = Written
  BY <1>1 DEF Arriving, Buffered, Queued, Written
<1>5. Acks' = Acks \cup h /\ Chain' = Chain
  BY <1>2, <1>3, <1>4 DEF Acks, Chain
<1>6. Before(Acks \cup h, OnWire') /\ Before(Acks, h)
  BY <1>2 DEF FlowInv, OrderInv, Before
<1>7. OrderInv'
  <2>1. Before(Arriving \cup Buffered \cup Queued, h)
    BY <1>6 DEF Acks, Before
  <2>2. Before(Acks \cup h \cup OnWire', Written)
    BY <1>2 DEF FlowInv, OrderInv, Before
  <2> QED BY <2>1, <2>2, <1>1, <1>2, <1>3, <1>4, <1>5, <1>6 DEF FlowInv, OrderInv
<1>8. RangeInv' /\ EcbInv'
  BY <1>1, <1>4, <1>5, KeptChain DEF FlowInv, EcbInv
<1>9. AckInv'
  BY <1>1, <1>3, <1>5 DEF FlowInv, AckInv
<1> QED BY <1>7, <1>8, <1>9 DEF FlowInv

\* throwAck(): the ack of Read() goes into ackChan.
LEMMA ThrowStep ==
  ASSUME ChannelTypes, FlowInv, throwAck PROVE FlowInv'
<1> DEFINE h == One(Head(hand), "CONFIRM_ENTRY")
<1>1. /\ hand # <<>> /\ ackChan' = Append(ackChan, Head(hand)) /\ hand' = Tail(hand) /\ hand' = <<>>
      /\ UNCHANGED <<ecb, refused, sent, wPc, link, up, down, bIO, abuf, aPc, read, acked>>
  BY DEF throwAck, callVars, writerVars, linkVars, histVars, ChannelTypes
<1>2. /\ hand \in Seq(CmdType) /\ ackChan \in Seq(CmdType)
      /\ Ascending(hand, "CONFIRM_ENTRY") /\ Ascending(ackChan, "CONFIRM_ENTRY") /\ Before(Queued, InHand)
  <2>1. hand \in Seq(CmdType) /\ Len(hand) <= 1
    BY DEF ChannelTypes
  <2>2. Ascending(hand, "CONFIRM_ENTRY")
    BY <2>1 DEF Ascending
  <2> QED BY <2>1, <2>2 DEF ChannelTypes, FlowInv, OrderInv, Before
<1>3. /\ Queued' = Queued \cup h /\ InHand = h \cup InHand' /\ Ascending(ackChan', "CONFIRM_ENTRY")
  BY <1>1, <1>2, MoveIds DEF Queued, InHand
<1>4. InHand' = {}
  BY <1>1, NoIds, Zenon DEF InHand
<1> HIDE DEF h
<1>5. /\ Arriving' = Arriving /\ Buffered' = Buffered /\ OnWire' = OnWire /\ Written' = Written
  BY <1>1 DEF Arriving, Buffered, OnWire, Written
<1>6. Acks' = Acks /\ Chain' = Chain
  BY <1>3, <1>4, <1>5 DEF Acks, Chain
<1>7. OrderInv'
  BY <1>1, <1>3, <1>4, <1>5, <1>6 DEF FlowInv, OrderInv, Before
<1>8. RangeInv' /\ EcbInv'
  BY <1>1, <1>5, <1>6, KeptChain DEF FlowInv, EcbInv
<1>9. AckInv'
  BY <1>1, <1>6 DEF FlowInv, AckInv
<1> QED BY <1>7, <1>8, <1>9 DEF FlowInv

\* SendThrottle() queues a command that is no ack.
LEMMA ThrottleStep ==
  ASSUME ChannelTypes, FlowInv, SendThrottle PROVE FlowInv'
<1> DEFINE c == Cmd("THROTTLE", 0)
<1>1. /\ ackChan' = Append(ackChan, c)
      /\ UNCHANGED <<ecb, refused, sent, wPc, link, up, down, bIO, hand, abuf, aPc, read, acked>>
  BY DEF SendThrottle, callVars, writerVars, linkVars
<1>2. c \in CmdType /\ One(c, "CONFIRM_ENTRY") = {}
  BY DEF Cmd, CmdType, Commands, One
<1> HIDE DEF c
<1>3. ackChan \in Seq(CmdType) /\ Ascending(ackChan, "CONFIRM_ENTRY")
  BY DEF ChannelTypes, FlowInv, OrderInv
<1>4. Before(Of(ackChan, "CONFIRM_ENTRY"), One(c, "CONFIRM_ENTRY"))
  BY <1>2 DEF Before
<1>5. Queued' = Queued /\ Ascending(ackChan', "CONFIRM_ENTRY")
  <2>1. Of(Append(ackChan, c), "CONFIRM_ENTRY") = Of(ackChan, "CONFIRM_ENTRY") \cup One(c, "CONFIRM_ENTRY")
    BY <1>2, <1>3, AppendIds
  <2>2. Ascending(Append(ackChan, c), "CONFIRM_ENTRY")
    BY <1>2, <1>3, <1>4, AppendIds
  <2> QED BY <2>1, <2>2, <1>1, <1>2, Zenon DEF Queued
<1>6. /\ Arriving' = Arriving /\ Buffered' = Buffered /\ InHand' = InHand /\ OnWire' = OnWire
      /\ Written' = Written
  BY <1>1 DEF Arriving, Buffered, InHand, OnWire, Written
<1>7. Acks' = Acks /\ Chain' = Chain
  BY <1>5, <1>6 DEF Acks, Chain
<1>8. OrderInv'
  BY <1>1, <1>5, <1>6, <1>7 DEF FlowInv, OrderInv
<1>9. RangeInv' /\ EcbInv'
  BY <1>1, <1>6, <1>7, KeptChain DEF FlowInv, EcbInv
<1>10. AckInv'
  BY <1>1, <1>7 DEF FlowInv, AckInv
<1> QED BY <1>8, <1>9, <1>10 DEF FlowInv

\* The ackRoutine encodes a command of ackChan.
LEMMA EncodeStep ==
  ASSUME ChannelTypes, FlowInv, ackChan # <<>>, ackChan' = Tail(ackChan),
         abuf' = encode(abuf, Head(ackChan)), aPc' \notin {"select", "failed"},
         UNCHANGED <<ecb, refused, sent, wPc, link, up, down, bIO, hand, read, acked>>
  PROVE FlowInv'
<1> DEFINE h == One(Head(ackChan), "CONFIRM_ENTRY")
<1>1. /\ ackChan \in Seq(CmdType) /\ abuf \in Seq(CmdType)
      /\ Ascending(ackChan, "CONFIRM_ENTRY") /\ Ascending(abuf, "CONFIRM_ENTRY") /\ Before(Buffered, Queued)
  BY DEF ChannelTypes, FlowInv, OrderInv, Before
<1>2. /\ Buffered' = Buffered \cup h /\ Queued = h \cup Queued' /\ Before(Buffered', Queued')
      /\ Ascending(abuf', "CONFIRM_ENTRY") /\ Ascending(ackChan', "CONFIRM_ENTRY")
  <2>1. CASE Head(ackChan).cmd = "FORCE_ACK"
    <3>1. h = {} /\ abuf' = abuf
      BY <2>1 DEF One, encode
    <3>2. Queued = h \cup Queued' /\ Ascending(ackChan', "CONFIRM_ENTRY")
      BY <1>1, TailIds DEF Queued
    <3> QED BY <3>1, <3>2, <1>1 DEF Buffered, Before
  <2>2. CASE Head(ackChan).cmd # "FORCE_ACK"
    <3>1. abuf' = Append(abuf, Head(ackChan))
      BY <2>2 DEF encode
    <3>2. Before(Of(abuf, "CONFIRM_ENTRY"), Of(ackChan, "CONFIRM_ENTRY"))
      BY <1>1 DEF Buffered, Queued
    <3>3. /\ Of(Append(abuf, Head(ackChan)), "CONFIRM_ENTRY") = Of(abuf, "CONFIRM_ENTRY") \cup h
          /\ Of(ackChan, "CONFIRM_ENTRY") = h \cup Of(Tail(ackChan), "CONFIRM_ENTRY")
          /\ Before(Of(Append(abuf, Head(ackChan)), "CONFIRM_ENTRY"), Of(Tail(ackChan), "CONFIRM_ENTRY"))
          /\ Ascending(Append(abuf, Head(ackChan)), "CONFIRM_ENTRY")
          /\ Ascending(Tail(ackChan), "CONFIRM_ENTRY")
      BY <3>2, <1>1, MoveIds
    <3> QED BY <3>1, <3>3, Zenon DEF Queued, Buffered
  <2> QED BY <2>1, <2>2
<1> HIDE DEF h
<1>3. /\ Arriving' = Arriving /\ InHand' = InHand /\ OnWire' = OnWire /\ Written' = Written
  BY DEF Arriving, InHand, OnWire, Written
<1>4. Acks' = Acks /\ Chain' = Chain
  BY <1>2, <1>3 DEF Acks, Chain
<1>5. /\ Before(Arriving, Buffered') /\ Before(Arriving \cup Buffered', Queued')
      /\ Before(Arriving \cup Buffered' \cup Queued', InHand)
  BY <1>2 DEF FlowInv, OrderInv, Before
<1>6. OrderInv'
  BY <1>2, <1>3, <1>4, <1>5 DEF FlowInv, OrderInv
<1>7. RangeInv' /\ EcbInv'
  BY <1>3, <1>4, KeptChain DEF FlowInv, EcbInv
<1>8. AckInv'
  BY <1>4 DEF FlowInv, AckInv
<1> QED BY <1>6, <1>7, <1>8 DEF FlowInv

\* A keepalive is encoded into the empty buffer.
LEMMA KeepAliveStep ==
  ASSUME ChannelTypes, FlowInv, AckKeepAlive PROVE FlowInv'
<1>1. /\ aPc = "select" /\ aPc' = "send" /\ abuf' = <<Cmd("PONG", 0)>>
      /\ UNCHANGED <<ecb, refused, sent, wPc, link, up, down, bIO, hand, ackChan, read, acked>>
  BY DEF AckKeepAlive, ackVars, callVars, writerVars, linkVars, histVars
<1>2. Buffered = {}
  BY <1>1, NoIds DEF Buffered, FlowInv, AckInv
<1>3. Buffered' = {} /\ Ascending(abuf', "CONFIRM_ENTRY")
  BY <1>1 DEF Buffered, Of, Ascending, Cmd
<1>4. /\ Arriving' = Arriving /\ Queued' = Queued /\ InHand' = InHand /\ OnWire' = OnWire
      /\ Written' = Written
  BY <1>1 DEF Arriving, Queued, InHand, OnWire, Written
<1>5. Acks' = Acks /\ Chain' = Chain
  BY <1>2, <1>3, <1>4 DEF Acks, Chain
<1>6. OrderInv'
  BY <1>1, <1>2, <1>3, <1>4, <1>5 DEF FlowInv, OrderInv
<1>7. RangeInv' /\ EcbInv'
  BY <1>1, <1>4, <1>5, KeptChain DEF FlowInv, EcbInv
<1>8. AckInv'
  BY <1>1, <1>5 DEF FlowInv, AckInv
<1> QED BY <1>6, <1>7, <1>8 DEF FlowInv

\* The ackRoutine puts a command on the connection: what is unconfirmed and
\* older than the ack is before it in the chain, so it arrives before it.
LEMMA AckWriteStep ==
  ASSUME ChannelTypes, FlowInv, abuf # <<>>, link, aPc \notin {"select", "failed"},
         down' = Append(down, Head(abuf)), abuf' = Tail(abuf),
         UNCHANGED <<ecb, refused, sent, wPc, link, up, bIO, hand, ackChan, aPc, read, acked>>
  PROVE FlowInv'
<1> DEFINE h == One(Head(abuf), "CONFIRM_ENTRY")
<1>1. /\ abuf \in Seq(CmdType) /\ down \in Seq(CmdType)
      /\ Ascending(abuf, "CONFIRM_ENTRY") /\ Ascending(down, "CONFIRM_ENTRY")
      /\ Before(Of(down, "CONFIRM_ENTRY"), Of(abuf, "CONFIRM_ENTRY"))
  BY DEF ChannelTypes, FlowInv, OrderInv, Arriving, Buffered
<1>2. /\ Arriving' = Arriving \cup h /\ Buffered = h \cup Buffered' /\ Before(h, Buffered')
      /\ Ascending(down', "CONFIRM_ENTRY") /\ Ascending(abuf', "CONFIRM_ENTRY")
      /\ Before(Arriving', Buffered')
  <2>1. /\ Of(Append(down, Head(abuf)), "CONFIRM_ENTRY") = Of(down, "CONFIRM_ENTRY") \cup h
        /\ Of(abuf, "CONFIRM_ENTRY") = h \cup Of(Tail(abuf), "CONFIRM_ENTRY")
        /\ Before(Of(Append(down, Head(abuf)), "CONFIRM_ENTRY"), Of(Tail(abuf), "CONFIRM_ENTRY"))
        /\ Ascending(Append(down, Head(abuf)), "CONFIRM_ENTRY")
        /\ Ascending(Tail(abuf), "CONFIRM_ENTRY")
    BY <1>1, MoveIds
  <2> HIDE DEF h
  <2> QED BY <2>1 DEF Arriving, Buffered, Before
<1> HIDE DEF h
<1>3. /\ Queued' = Queued /\ InHand' = InHand /\ OnWire' = OnWire /\ Written' = Written
  BY DEF Queued, InHand, OnWire, Written
<1>4. Acks' = Acks /\ Chain' = Chain
  BY <1>2, <1>3 DEF Acks, Chain
<1>5. OrderInv'
  <2>1. /\ Before(Arriving' \cup Buffered', Queued)
        /\ Before(Arriving' \cup Buffered' \cup Queued, InHand)
    BY <1>2 DEF FlowInv, OrderInv, Before
  <2> QED BY <2>1, <1>2, <1>3, <1>4 DEF FlowInv, OrderInv
<1>6. ASSUME NEW x \in Unconfirmed, NEW v \in Arriving', x < v PROVE x \in Arriving'
  <2>1. CASE v \in Arriving
    BY <2>1, <1>2, <1>6 DEF FlowInv, EcbInv
  <2>2. CASE v \in h
    <3>1. x \in Chain /\ x \in Nat /\ v \in Nat
      BY <1>2, <2>2 DEF FlowInv, EcbInv, RangeInv, ChannelTypes, Chain, Acks
    <3>2. /\ x \notin Buffered' /\ x \notin Queued /\ x \notin InHand
          /\ x \notin OnWire /\ x \notin Written
      <4>1. v \in Buffered /\ v \in Acks
        BY <1>2, <2>2 DEF Acks
      <4>2. ~(v < x)
        BY <1>6, <3>1
      <4> QED BY <4>1, <4>2, <2>2, <1>2 DEF FlowInv, OrderInv, Before
    <3> QED BY <3>1, <3>2, <1>2 DEF Chain, Acks
  <2> QED BY <2>1, <2>2, <1>2
<1>7. RangeInv' /\ EcbInv'
  BY <1>4, <1>6, KeptChain
<1>8. AckInv'
  BY <1>4 DEF FlowInv, AckInv
<1> QED BY <1>5, <1>7, <1>8 DEF FlowInv

\* The connection is broken and acks are thrown away, by routineCleanFail() or
\* by discard().
LEMMA DropStep ==
  ASSUME ChannelTypes, FlowInv, ~link, aPc' = "failed", abuf' = <<>>,
         ackChan' = ackChan \/ (ackChan # <<>> /\ ackChan' = Tail(ackChan)),
         UNCHANGED <<ecb, refused, sent, wPc, link, up, down, bIO, hand, read, acked>>
  PROVE FlowInv'
<1>1. Queued' \subseteq Queued /\ Ascending(ackChan', "CONFIRM_ENTRY")
  <2>1. ackChan \in Seq(CmdType) /\ Ascending(ackChan, "CONFIRM_ENTRY")
    BY DEF ChannelTypes, FlowInv, OrderInv
  <2>2. CASE ackChan' = ackChan
    BY <2>1, <2>2 DEF Queued
  <2>3. CASE ackChan # <<>> /\ ackChan' = Tail(ackChan)
    BY <2>1, <2>3, TailIds DEF Queued
  <2> QED BY <2>2, <2>3
<1>2. Buffered' = {} /\ Ascending(abuf', "CONFIRM_ENTRY")
  BY NoIds DEF Buffered
<1>3. /\ Arriving' = Arriving /\ InHand' = InHand /\ OnWire' = OnWire /\ Written' = Written
  BY DEF Arriving, InHand, OnWire, Written
<1>4. Acks' \subseteq Acks /\ Chain' \subseteq Chain
  BY <1>1, <1>2, <1>3 DEF Acks, Chain
<1>5. OrderInv'
  BY <1>1, <1>2, <1>3, <1>4 DEF FlowInv, OrderInv, Before
<1>6. RangeInv' /\ EcbInv'
  BY <1>3, <1>4, KeptChain DEF FlowInv, EcbInv
<1>7. AckInv'
  BY <1>4 DEF FlowInv, AckInv
<1> QED BY <1>5, <1>6, <1>7 DEF FlowInv

\* The connection breaks: both directions lose their end.
LEMMA BreakStep ==
  ASSUME ChannelTypes, FlowInv, Break PROVE FlowInv'
<1>1. /\ link' = FALSE
      /\ UNCHANGED <<ecb, refused, sent, wPc, bIO, hand, ackChan, abuf, aPc, read, acked>>
  BY DEF Break, callVars, writerVars, readerVars, histVars
<1>2. PICK m \in 0..Len(up), n \in 0..Len(down) : up' = SubSeq(up, 1, m) /\ down' = SubSeq(down, 1, n)
  BY DEF Break
<1>3. /\ up \in Seq(CmdType) /\ down \in Seq(CmdType)
      /\ Ascending(up, "NEW_ENTRY") /\ Ascending(down, "CONFIRM_ENTRY")
  BY DEF ChannelTypes, FlowInv, OrderInv
<1>4. OnWire' \subseteq OnWire /\ Ascending(up', "NEW_ENTRY")
  BY <1>2, <1>3, PrefixIds DEF OnWire
<1>5. /\ Arriving' \subseteq Arriving /\ Ascending(down', "CONFIRM_ENTRY")
      /\ \A x \in Arriving, v \in Arriving' : x < v => x \in Arriving'
  BY <1>2, <1>3, PrefixIds DEF Arriving
<1>6. /\ Buffered' = Buffered /\ Queued' = Queued /\ InHand' = InHand /\ Written' = Written
  BY <1>1 DEF Buffered, Queued, InHand, Written
<1>7. Acks' \subseteq Acks /\ Chain' \subseteq Chain
  BY <1>4, <1>5, <1>6 DEF Acks, Chain
<1>8. OrderInv'
  BY <1>1, <1>4, <1>5, <1>6, <1>7 DEF FlowInv, OrderInv, Before
<1>9. \A x \in Unconfirmed, v \in Arriving' : x < v => x \in Arriving'
  BY <1>5 DEF FlowInv, EcbInv
<1>10. RangeInv' /\ EcbInv'
  BY <1>1, <1>7, <1>9, KeptChain
<1>11. AckInv'
  BY <1>1, <1>7 DEF FlowInv, AckInv
<1> QED BY <1>8, <1>10, <1>11 DEF FlowInv

\* The ack at the front of the connection is for the oldest unconfirmed entry
\* or for a refused one: an older one that is unconfirmed would arrive first.
LEMMA FrontIsOldest ==
  ASSUME ChannelTypes, FlowInv PROVE AcksInOrder
<1> DEFINE v == Head(down).val
<1> SUFFICES ASSUME wPc # "closed", down # <<>>, Head(down).cmd = "CONFIRM_ENTRY", v \notin refused
             PROVE ecb # <<>> /\ v = Head(ecb)
  BY DEF AcksInOrder
<1>1. Arriving = {v} \cup Of(Tail(down), "CONFIRM_ENTRY") /\ Before({v}, Of(Tail(down), "CONFIRM_ENTRY"))
  <2>1. down \in Seq(CmdType) /\ Ascending(down, "CONFIRM_ENTRY")
    BY DEF ChannelTypes, FlowInv, OrderInv
  <2>2. One(Head(down), "CONFIRM_ENTRY") = {v}
    BY DEF One
  <2> QED BY <2>1, <2>2, TailIds, Zenon DEF Arriving
<1>2. v \in Unconfirmed
  BY <1>1 DEF FlowInv, EcbInv, Chain, Acks
<1> HIDE DEF v
<1>3. PICK i \in 1..Len(ecb) : v = ecb[i]
  BY <1>2 DEF Unconfirmed
<1>4. ecb # <<>> /\ Head(ecb) = ecb[1] /\ 1 \in 1..Len(ecb)
  BY <1>3 DEF ChannelTypes
<1>5. ASSUME i # 1 PROVE FALSE
  <2>1. ecb[1] < v /\ ecb[1] \in Unconfirmed
    BY <1>3, <1>4, <1>5 DEF FlowInv, EcbInv, Unconfirmed
  <2>2. ecb[1] \in Arriving
    BY <2>1, <1>1 DEF FlowInv, EcbInv
  <2>3. ecb[1] \in Nat /\ v \in Nat
    BY <2>1, <1>2 DEF FlowInv, RangeInv, ChannelTypes
  <2>4. ecb[1] = v \/ v < ecb[1]
    BY <2>2, <1>1 DEF Before
  <2> QED BY <2>1, <2>3, <2>4
<1> QED BY <1>3, <1>4, <1>5

\* An element of a sequence is of the sequence's type.
LEMMA ElementIn ==
  ASSUME NEW S, NEW s \in Seq(S), NEW i \in 1..Len(s) PROVE s[i] \in S
OBVIOUS

\* Confirm() of the oldest entry removes exactly that one.
LEMMA ConfirmOldest ==
  ASSUME ChannelTypes, ecb # <<>>, \A i, j \in 1..Len(ecb) : i < j => ecb[i] < ecb[j],
         ecb' = Tail(ecb)
  PROVE /\ Unconfirmed' = Unconfirmed \ {Head(ecb)} /\ Head(ecb) \in Unconfirmed
        /\ \A i, j \in 1..Len(ecb') : i < j => ecb'[i] < ecb'[j]
<1>1. /\ Len(ecb') = Len(ecb) - 1 /\ Len(ecb) \in Nat \ {0} /\ Head(ecb) = ecb[1]
      /\ \A i \in 1..Len(ecb') : ecb'[i] = ecb[i + 1]
  BY DEF ChannelTypes
<1>2. ASSUME NEW i \in 1..Len(ecb) PROVE ecb[i] \in Nat
  <2>1. ecb \in Seq(1..MaxId)
    BY DEF ChannelTypes
  <2>2. ecb[i] \in 1..MaxId
    BY <2>1, ElementIn, Zenon
  <2> QED BY <2>2
<1>3. Head(ecb) \in Unconfirmed
  BY <1>1 DEF Unconfirmed
<1>4. ASSUME NEW i \in 1..Len(ecb') PROVE ecb'[i] \in Unconfirmed \ {Head(ecb)}
  <2>1. i + 1 \in 1..Len(ecb) /\ 1 \in 1..Len(ecb) /\ 1 < i + 1
    BY <1>1
  <2>2. ecb[1] < ecb[i + 1]
    BY <2>1
  <2> QED BY <2>1, <2>2, <1>1, <1>2 DEF Unconfirmed
<1>5. ASSUME NEW i \in 1..Len(ecb), ecb[i] # Head(ecb) PROVE \E j \in 1..Len(ecb') : ecb'[j] = ecb[i]
  <2>1. i - 1 \in 1..Len(ecb') /\ ecb'[i - 1] = ecb[i]
    BY <1>1, <1>5
  <2> QED BY <2>1, Zenon
<1>6. ASSUME NEW i \in 1..Len(ecb'), NEW j \in 1..Len(ecb'), i < j PROVE ecb'[i] < ecb'[j]
  <2>1. i + 1 \in 1..Len(ecb) /\ j + 1 \in 1..Len(ecb) /\ i + 1 < j + 1
    BY <1>1, <1>6
  <2> QED BY <2>1, <1>1
<1>7. Unconfirmed' = Unconfirmed \ {Head(ecb)}
  BY <1>4, <1>5 DEF Unconfirmed
<1> QED BY <1>3, <1>6, <1>7

\* The writer decodes a command: an ack of the chain confirms its entry, or
\* was for a refused one; or the call fails and closes the connection.
LEMMA DecodeStep ==
  ASSUME ChannelTypes, FlowInv, wPc # "closed", down # <<>>, down' = Tail(down),
         UNCHANGED <<refused, sent, up, bIO, hand, ackChan, abuf, aPc, read>>,
         \/ Head(down).cmd = "CONFIRM_ENTRY" /\ ecb # <<>> /\ Confirm(Head(down).val) /\ link' = link
         \/ Head(down).cmd = "CONFIRM_ENTRY" /\ ecb = <<>> /\ UNCHANGED <<ecb, acked, link>>
         \/ Head(down).cmd # "CONFIRM_ENTRY" /\ UNCHANGED <<ecb, acked, link>>
         \/ acked' = acked /\ ecb' = <<>> /\ link' = FALSE /\ wPc' = "closed"
  PROVE FlowInv'
<1> DEFINE h == One(Head(down), "CONFIRM_ENTRY")
<1>1. /\ Arriving = h \cup Arriving' /\ Before(h, Arriving') /\ Ascending(down', "CONFIRM_ENTRY")
  <2>1. down \in Seq(CmdType) /\ Ascending(down, "CONFIRM_ENTRY")
    BY DEF ChannelTypes, FlowInv, OrderInv
  <2> QED BY <2>1, TailIds DEF Arriving
<1>2. Head(down).cmd = "CONFIRM_ENTRY" => h = {Head(down).val}
  BY DEF One
<1>3. Head(down).cmd # "CONFIRM_ENTRY" => h = {}
  BY DEF One
<1> HIDE DEF h
<1>4. /\ Buffered' = Buffered /\ Queued' = Queued /\ InHand' = InHand /\ OnWire' = OnWire
      /\ Written' = Written
  BY DEF Buffered, Queued, InHand, OnWire, Written
<1>5. /\ Acks = h \cup Acks' /\ Chain = h \cup Chain'
  BY <1>1, <1>4 DEF Acks, Chain
<1>6. OrderInv'
  <2>1. Arriving' \subseteq Arriving /\ Acks' \subseteq Acks
    BY <1>1, <1>5
  <2> QED BY <2>1, <1>1, <1>4 DEF FlowInv, OrderInv, Before
<1>7. h \cap Chain' = {}
  <2>1. h \subseteq Nat /\ h \subseteq Arriving
    BY <1>1 DEF FlowInv, RangeInv, ChannelTypes, Chain, Acks
  <2> SUFFICES ASSUME NEW x \in h, x \in Chain' PROVE FALSE
    OBVIOUS
  <2>2. x < x
    BY <2>1, <1>1, <1>4 DEF FlowInv, OrderInv, Before, Chain, Acks
  <2> QED BY <2>1, <2>2
<1>8. CASE acked' = acked /\ ecb' = <<>> /\ link' = FALSE /\ wPc' = "closed"
  <2>1. Unconfirmed' = {} /\ Len(ecb') = 0
    BY <1>8 DEF Unconfirmed
  <2>2. RangeInv' /\ EcbInv' /\ AckInv'
    BY <2>1, <1>8, <1>5 DEF FlowInv, RangeInv, EcbInv, AckInv
  <2> QED BY <2>2, <1>6 DEF FlowInv
<1>9. CASE ~(acked' = acked /\ ecb' = <<>> /\ link' = FALSE /\ wPc' = "closed")
  <2>1. /\ Unconfirmed' = Unconfirmed \ h /\ link' = link /\ acked' \subseteq acked \cup h
        /\ \A i, j \in 1..Len(ecb') : i < j => ecb'[i] < ecb'[j]
    <3> DEFINE v == Head(down).val
    <3>1. \A i, j \in 1..Len(ecb) : i < j => ecb[i] < ecb[j]
      BY DEF FlowInv, EcbInv
    <3>2. CASE Head(down).cmd = "CONFIRM_ENTRY" /\ ecb # <<>> /\ Confirm(v) /\ link' = link
      <4>1. v = Head(ecb) \/ v \in refused
        BY <3>2, FrontIsOldest DEF AcksInOrder
      <4>2. CASE v = Head(ecb)
        <5>1. ecb' = Tail(ecb) /\ acked' = acked \cup {v}
          BY <3>2, <4>2, Zenon DEF Confirm
        <5> QED BY <5>1, <3>1, <3>2, <4>2, <1>2, ConfirmOldest
      <4>3. CASE v # Head(ecb)
        <5>1. ecb' = ecb /\ acked' = acked
          BY <3>2, <4>3, Zenon DEF Confirm
        <5>2. v \notin Unconfirmed
          BY <4>1, <4>3, Zenon DEF FlowInv, EcbInv
        <5> QED BY <5>1, <5>2, <3>1, <3>2, <1>2 DEF Unconfirmed
      <4> QED BY <4>2, <4>3, Zenon
    <3>3. CASE ecb = <<>> /\ UNCHANGED <<ecb, acked, link>>
      BY <3>3 DEF Unconfirmed
    <3>4. CASE Head(down).cmd # "CONFIRM_ENTRY" /\ UNCHANGED <<ecb, acked, link>>
      BY <3>1, <3>4, <1>3 DEF Unconfirmed
    <3> QED BY <3>2, <3>3, <3>4, <1>9, Zenon
  <2>2. RangeInv'
    BY <2>1, <1>5 DEF FlowInv, RangeInv
  <2>3. EcbInv'
    <3>1. Unconfirmed' \cap refused' = {} /\ Chain' \subseteq Unconfirmed' \cup refused'
      BY <2>1, <1>5, <1>7 DEF FlowInv, EcbInv
    <3>2. link' => Unconfirmed' \subseteq Chain'
      BY <2>1, <1>5 DEF FlowInv, EcbInv
    <3>3. \A x \in Unconfirmed', w \in Arriving' : x < w => x \in Arriving'
      BY <2>1, <1>1 DEF FlowInv, EcbInv
    <3> QED BY <3>1, <3>2, <3>3, <2>1 DEF EcbInv
  <2>4. AckInv'
    BY <2>1, <1>5 DEF FlowInv, AckInv
  <2> QED BY <1>6, <2>2, <2>3, <2>4 DEF FlowInv
<1> QED BY <1>8, <1>9, Zenon

-----------------------------------------------------------------------------
\* The type invariant, in four parts.
CallTypes ==
  /\ wPc \in {"idle", "flush", "read", "entry", "send", "sync", "answer", "failed", "closed"}
  /\ next \in {"idle", "read", "send", "sync", "answer"}
  /\ svc \in [orig : BOOLEAN, blocking : BOOLEAN, got : BOOLEAN, last : BOOLEAN,
              ret : {"idle", "entry", "send", "sync"}]
  /\ goal \in {"none", "TAG", "INGESTER_STATE", "DITTO_BLOCK", "PING", "CLOSE"}
  /\ todo \in Nat

WriterTypes ==
  /\ sent \in 0..MaxId /\ bIO \in Seq(CmdType) /\ ecb \in Seq(1..MaxId) /\ Len(ecb) < Capacity
  /\ tags \in Seq(Nat) /\ ejected \in Seq(1..MaxId)
  /\ link \in BOOLEAN /\ cancelled \in BOOLEAN /\ wErr \in BOOLEAN

ReaderTypes ==
  /\ up \in Seq(CmdType) /\ Len(up) <= UpCap /\ down \in Seq(CmdType) /\ Len(down) <= DownCap
  /\ hand \in Seq(CmdType) /\ Len(hand) <= 1
  /\ ackChan \in Seq(CmdType) /\ Len(ackChan) <= AckCap
  /\ aPc \in {"select", "feed", "spill", "send", "failed"} /\ abuf \in Seq(CmdType)

HistTypes ==
  /\ read \subseteq 1..MaxId /\ acked \subseteq 1..MaxId /\ refused \subseteq 1..MaxId
  /\ calls \in 0..MaxCalls /\ timeouts \in 0..MaxTimeout /\ throttles \in 0..MaxThrottle

\* The parts make up TypeOK.
LEMMA TypeParts == TypeOK <=> CallTypes /\ WriterTypes /\ ReaderTypes /\ HistTypes
BY Zenon DEF TypeOK, CallTypes, WriterTypes, ReaderTypes, HistTypes

\* What the lemmas on the chain need of them.
LEMMA Channels == WriterTypes /\ ReaderTypes => ChannelTypes
BY TransportAssumption DEF WriterTypes, ReaderTypes, ChannelTypes

\* The commands the writer puts into its buffer are commands.
LEMMA CmdTypes == \A c \in Commands, v \in Nat : Cmd(c, v) \in CmdType
BY DEF Cmd, CmdType

\* Fail leaves the writer's state well typed and ends the call.
LEMMA FailTypes ==
  ASSUME CallTypes, WriterTypes, Fail
  PROVE /\ wPc' \in {"failed", "closed"} /\ link' \in BOOLEAN /\ ecb' \in Seq(1..MaxId)
        /\ Len(ecb') < Capacity /\ ejected' \in Seq(1..MaxId)
<1>1. CASE goal = "CLOSE"
  <2>1. wPc' = "closed" /\ link' = FALSE /\ ejected' = ecb /\ ecb' = <<>>
    BY <1>1 DEF Fail
  <2>2. <<>> \in Seq(1..MaxId) /\ Len(<<>>) < Capacity
    BY TransportAssumption
  <2> QED BY <2>1, <2>2, Zenon DEF WriterTypes
<1>2. CASE goal # "CLOSE"
  BY <1>2 DEF Fail, WriterTypes
<1> QED BY <1>1, <1>2, Zenon

\* What throwAckSync() does to the writer's buffer.
LEMMA SyncTypes ==
  ASSUME NEW v \in Nat, NEW c \in Commands, WriterTypes, bIO' = Append(bIO, Cmd(c, v))
  PROVE bIO' \in Seq(CmdType)
<1>1. bIO \in Seq(CmdType) /\ Cmd(c, v) \in CmdType
  BY CmdTypes DEF WriterTypes
<1> QED BY <1>1

\* The calls.
LEMMA CallsTypes ==
  ASSUME TypeOK, CallInv, Calls PROVE TypeOK' /\ CallInv'
<1>0. CallTypes /\ WriterTypes /\ ReaderTypes /\ HistTypes
  BY TypeParts
<1> SUFFICES CallTypes' /\ WriterTypes' /\ ReaderTypes' /\ HistTypes' /\ CallInv'
  BY TypeParts, PTL
<1>1. CASE Write
  <2>1. /\ UNCHANGED <<writerVars, linkVars, readerVars, histVars>>
        /\ todo' = 1 /\ goal' = "none" /\ sent + 1 <= MaxId
        /\ svc' \in [orig : BOOLEAN, blocking : BOOLEAN, got : BOOLEAN, last : BOOLEAN,
                     ret : {"idle", "entry", "send", "sync"}]
        /\ \/ wPc' = "flush" /\ next' = "read"
           \/ wPc' = "read" /\ next' = next
    <3>1. Full \in BOOLEAN
      BY DEF Full
    <3> QED BY <1>0, <1>1, <3>1, TransportAssumption DEF Write, serviceAcks, flush, WriterTypes
  <2>2. CallTypes'
    BY <2>1, <1>0 DEF CallTypes
  <2>3. WriterTypes' /\ ReaderTypes' /\ HistTypes'
    <3>1. WriterTypes'
      BY <2>1, <1>0, Zenon DEF WriterTypes, writerVars, linkVars
    <3>2. ReaderTypes'
      BY <2>1, <1>0, Zenon DEF ReaderTypes, linkVars, readerVars
    <3>3. HistTypes'
      BY <2>1, <1>0, Zenon DEF HistTypes, histVars
    <3> QED BY <3>1, <3>2, <3>3, Zenon
  <2>4. CallInv'
    BY <2>1, <1>0 DEF CallInv, writerVars, WriterTypes
  <2> QED BY <2>2, <2>3, <2>4, Zenon
<1>2. CASE WriteBatch
  <2>1. /\ UNCHANGED <<next, svc, writerVars, linkVars, readerVars, histVars>>
        /\ todo' \in 1..MaxBatch /\ sent + todo' <= MaxId /\ goal' = "none" /\ wPc' = "entry"
    BY <1>2 DEF WriteBatch
  <2>2. CallTypes'
    BY <2>1, <1>0 DEF CallTypes
  <2>3. WriterTypes' /\ ReaderTypes' /\ HistTypes'
    <3>1. WriterTypes'
      BY <2>1, <1>0, Zenon DEF WriterTypes, writerVars, linkVars
    <3>2. ReaderTypes'
      BY <2>1, <1>0, Zenon DEF ReaderTypes, linkVars, readerVars
    <3>3. HistTypes'
      BY <2>1, <1>0, Zenon DEF HistTypes, histVars
    <3> QED BY <3>1, <3>2, <3>3, Zenon
  <2>4. CallInv'
    BY <2>1 DEF CallInv, writerVars
  <2> QED BY <2>2, <2>3, <2>4, Zenon
<1>3. CASE ForceAck \/ NegotiateTag \/ SendIngesterState \/ Close
  <2>1. /\ UNCHANGED <<svc, todo, ecb, sent, tags, ejected, linkVars, readerVars, read, acked, refused, timeouts, throttles>>
        /\ goal' \in {"none", "TAG", "INGESTER_STATE", "CLOSE"} /\ wPc' = "flush" /\ next' = "sync"
        /\ bIO' = Append(bIO, Cmd("FORCE_ACK", 0))
        /\ calls' = calls \/ (calls < MaxCalls /\ calls' = calls + 1)
    BY <1>3 DEF ForceAck, NegotiateTag, SendIngesterState, Close, StartSync, Call, throwAckSync, flush
  <2>2. CallTypes' /\ CallInv'
    BY <2>1, <1>0 DEF CallTypes, CallInv, Writing
  <2>3. bIO' \in Seq(CmdType)
    BY <2>1, <1>0, SyncTypes DEF Commands
  <2>4. WriterTypes' /\ ReaderTypes'
    BY <2>1, <2>3, <1>0, Zenon DEF WriterTypes, ReaderTypes, linkVars, readerVars
  <2>5. HistTypes'
    BY <2>1, <1>0, TransportAssumption DEF HistTypes
  <2> QED BY <2>2, <2>4, <2>5, Zenon
<1>4. CASE Ping \/ WriteDittoBlock
  <2>1. /\ UNCHANGED <<svc, todo, ecb, tags, ejected, linkVars, readerVars, read, acked, refused, timeouts, throttles>>
        /\ goal' \in {"PING", "DITTO_BLOCK"} /\ wPc' = "flush" /\ next' = "answer"
        /\ \E c \in {"PING", "DITTO_BLOCK"} : bIO' = Append(bIO, Cmd(c, 0))
        /\ sent' = sent \/ (sent < MaxId /\ sent' = sent + 1)
        /\ calls < MaxCalls /\ calls' = calls + 1
    BY <1>4 DEF Ping, WriteDittoBlock, Call, flush
  <2>2. CallTypes' /\ CallInv'
    BY <2>1, <1>0 DEF CallTypes, CallInv, Writing
  <2>3. bIO' \in Seq(CmdType)
    BY <2>1, <1>0, SyncTypes DEF Commands
  <2>4. WriterTypes' /\ ReaderTypes'
    <3>1. sent' \in 0..MaxId
      BY <2>1, <1>0, TransportAssumption DEF WriterTypes
    <3>2. WriterTypes'
      BY <2>1, <2>3, <3>1, <1>0, Zenon DEF WriterTypes, linkVars
    <3>3. ReaderTypes'
      BY <2>1, <1>0, Zenon DEF ReaderTypes, linkVars, readerVars
    <3> QED BY <3>2, <3>3, Zenon
  <2>5. HistTypes'
    BY <2>1, <1>0, TransportAssumption DEF HistTypes
  <2> QED BY <2>2, <2>4, <2>5, Zenon
<1>5. CASE DittoTagFailed
  <2>1. wPc' = "idle" /\ UNCHANGED <<next, svc, goal, todo, writerVars, linkVars, readerVars, histVars>>
    BY <1>5, Zenon DEF DittoTagFailed
  <2>2. CallTypes' /\ CallInv'
    BY <2>1, <1>0 DEF CallTypes, CallInv, Writing
  <2>3. WriterTypes' /\ ReaderTypes' /\ HistTypes'
    <3>1. WriterTypes'
      BY <2>1, <1>0, Zenon DEF WriterTypes, writerVars, linkVars
    <3>2. ReaderTypes'
      BY <2>1, <1>0, Zenon DEF ReaderTypes, linkVars, readerVars
    <3>3. HistTypes'
      BY <2>1, <1>0, Zenon DEF HistTypes, histVars
    <3> QED BY <3>1, <3>2, <3>3, Zenon
  <2> QED BY <2>2, <2>3, Zenon
<1> QED BY <1>1, <1>2, <1>3, <1>4, <1>5 DEF Calls

\* The steps that write.
LEMMA WriteTypes ==
  ASSUME TypeOK, CallInv, Flush \/ WaitForSlot \/ SendEntry PROVE TypeOK' /\ CallInv'
<1>0. CallTypes /\ WriterTypes /\ ReaderTypes /\ HistTypes
  BY TypeParts
<1> SUFFICES CallTypes' /\ WriterTypes' /\ ReaderTypes' /\ HistTypes' /\ CallInv'
  BY TypeParts, PTL
<1>1. CASE Flush
  <2>1. /\ wPc = "flush"
        /\ UNCHANGED <<next, svc, goal, todo, sent, tags, down, cancelled, readerVars, read, acked, refused, calls, throttles>>
    BY <1>1, Zenon DEF Flush
  <2>2. CASE /\ bIO # <<>> /\ Len(up) < UpCap /\ up' = Append(up, Head(bIO)) /\ bIO' = Tail(bIO)
             /\ UNCHANGED <<wPc, link, ejected, ecb, wErr, timeouts>>
    <3>1. CallTypes' /\ CallInv' /\ HistTypes'
      BY <2>1, <2>2, <1>0 DEF CallTypes, CallInv, Writing, HistTypes
    <3>2. bIO' \in Seq(CmdType) /\ up' \in Seq(CmdType) /\ Len(up') <= UpCap
      <4>1. bIO \in Seq(CmdType) /\ up \in Seq(CmdType)
        BY <1>0, Zenon DEF WriterTypes, ReaderTypes
      <4> QED BY <4>1, <2>2, TransportAssumption
    <3>3. WriterTypes'
      BY <2>1, <2>2, <3>2, <1>0, Zenon DEF WriterTypes
    <3>4. ReaderTypes'
      BY <2>1, <2>2, <3>2, <1>0, Zenon DEF ReaderTypes, readerVars
    <3> QED BY <3>1, <3>3, <3>4, Zenon
  <2>3. CASE wPc' = next /\ UNCHANGED <<up, bIO, link, ejected, ecb, wErr, timeouts>>
    <3>1. CallTypes' /\ CallInv'
      BY <2>1, <2>3, <1>0 DEF CallTypes, CallInv, Writing
    <3>2. WriterTypes' /\ ReaderTypes' /\ HistTypes'
      BY <2>1, <2>3, <1>0, Zenon DEF WriterTypes, ReaderTypes, HistTypes, readerVars
    <3> QED BY <3>1, <3>2, Zenon
  <2>4. CASE /\ FlushFailed /\ UNCHANGED <<up, bIO>> /\ wErr' \in BOOLEAN
             /\ timeouts' = timeouts \/ (timeouts < MaxTimeout /\ timeouts' = timeouts + 1)
    <3>1. /\ wPc' \in {"failed", "closed", "answer"} /\ link' \in BOOLEAN /\ ecb' \in Seq(1..MaxId)
          /\ Len(ecb') < Capacity /\ ejected' \in Seq(1..MaxId)
      BY <2>4, <1>0, FailTypes DEF FlushFailed, WriterTypes
    <3>2. CallTypes' /\ CallInv'
      BY <2>1, <3>1, <1>0 DEF CallTypes, CallInv, Writing
    <3>3. WriterTypes'
      BY <2>1, <2>4, <3>1, <1>0, Zenon DEF WriterTypes
    <3>4. ReaderTypes'
      BY <2>1, <2>4, <1>0, Zenon DEF ReaderTypes, readerVars
    <3>5. HistTypes'
      BY <2>1, <2>4, <1>0, TransportAssumption DEF HistTypes
    <3> QED BY <3>2, <3>3, <3>4, <3>5, Zenon
  <2>5. wErr \in BOOLEAN
    BY <1>0, Zenon DEF WriterTypes
  <2> QED BY <1>1, <2>2, <2>3, <2>4, <2>5, ZenonT(60) DEF Flush
<1>2. CASE WaitForSlot
  <2>1. /\ wPc = "entry" /\ wPc' = "flush" /\ next' = "read"
        /\ svc' = [orig |-> TRUE, blocking |-> TRUE, got |-> FALSE, last |-> FALSE, ret |-> "send"]
        /\ UNCHANGED <<goal, todo, writerVars, linkVars, readerVars, histVars>>
    BY <1>2, Zenon DEF WaitForSlot, serviceAcks, flush
  <2>2. CallTypes' /\ CallInv'
    BY <2>1, <1>0 DEF CallTypes, CallInv, Writing, writerVars
  <2>3. WriterTypes' /\ ReaderTypes' /\ HistTypes'
    <3>1. WriterTypes'
      BY <2>1, <1>0, Zenon DEF WriterTypes, writerVars, linkVars
    <3>2. ReaderTypes'
      BY <2>1, <1>0, Zenon DEF ReaderTypes, linkVars, readerVars
    <3>3. HistTypes'
      BY <2>1, <1>0, Zenon DEF HistTypes, histVars
    <3> QED BY <3>1, <3>2, <3>3, Zenon
  <2> QED BY <2>2, <2>3, Zenon
<1>3. CASE SendEntry
  <2>1. /\ wPc \in {"entry", "send"} /\ todo \in Nat /\ todo >= 1 /\ sent + todo <= MaxId /\ sent \in Nat
        /\ UNCHANGED <<svc, goal, tags, ejected, linkVars, readerVars, read, acked, calls, timeouts, throttles>>
    BY <1>3, <1>0 DEF SendEntry, CallInv, Writing, CallTypes, WriterTypes
  <2>2. ReaderTypes'
    BY <2>1, <1>0, Zenon DEF ReaderTypes, linkVars, readerVars
  <2>3. CASE flush("send") /\ UNCHANGED <<bIO, ecb, sent, todo, refused>>
    <3>1. CallTypes' /\ CallInv'
      BY <2>1, <2>3, <1>0 DEF CallTypes, CallInv, flush
    <3>2. WriterTypes' /\ HistTypes'
      BY <2>1, <2>3, <1>0, Zenon DEF WriterTypes, HistTypes, linkVars
    <3> QED BY <3>1, <3>2, <2>2, Zenon
  <2>4. CASE bIO' = Append(bIO, Cmd("NEW_ENTRY", sent + 1)) /\ sent' = sent + 1 /\ UNCHANGED next
    <3>1. bIO' \in Seq(CmdType) /\ sent' \in 0..MaxId
      BY <2>1, <2>4, <1>0, SyncTypes, TransportAssumption DEF Commands
    <3>2. CASE Full
      <4>1. wPc' = "failed" /\ refused' = refused \cup {sent + 1} /\ UNCHANGED <<ecb, todo>>
        BY <1>3, <3>2, <2>4, <2>1 DEF SendEntry, WriterTypes
      <4>2. CallTypes' /\ CallInv'
        BY <4>1, <2>1, <2>4, <1>0 DEF CallTypes, CallInv, Writing
      <4>3. WriterTypes'
        BY <4>1, <3>1, <2>1, <1>0, Zenon DEF WriterTypes, linkVars
      <4>4. HistTypes'
        BY <4>1, <2>1, <1>0, TransportAssumption DEF HistTypes
      <4> QED BY <4>2, <4>3, <4>4, <2>2, Zenon
    <3>3. CASE ~Full
      <4>1. /\ ecb' = Append(ecb, sent + 1) /\ todo' = todo - 1 /\ refused' = refused
            /\ wPc' = IF todo = 1 THEN "idle" ELSE "entry"
        BY <1>3, <3>3, <2>4, <2>1 DEF SendEntry
      <4>2. CallTypes' /\ CallInv'
        BY <4>1, <2>1, <2>4, <1>0 DEF CallTypes, CallInv, Writing
      <4>3. ecb' \in Seq(1..MaxId) /\ Len(ecb') < Capacity
        <5>1. ecb \in Seq(1..MaxId) /\ sent + 1 \in 1..MaxId
          BY <2>1, <1>0, TransportAssumption DEF WriterTypes
        <5> QED BY <5>1, <4>1, <3>3, TransportAssumption DEF Full
      <4>4. WriterTypes'
        BY <4>3, <3>1, <2>1, <1>0, Zenon DEF WriterTypes, linkVars
      <4>5. HistTypes'
        BY <4>1, <2>1, <1>0, Zenon DEF HistTypes
      <4> QED BY <4>2, <4>4, <4>5, <2>2, Zenon
    <3> QED BY <3>2, <3>3, Zenon
  <2> QED BY <1>3, <2>3, <2>4 DEF SendEntry
<1> QED BY <1>1, <1>2, <1>3, Zenon

\* Confirm() keeps the confirmation buffer and the confirmed IDs well typed.
LEMMA ConfirmTypes ==
  ASSUME WriterTypes, HistTypes, ecb # <<>>, NEW v, Confirm(v)
  PROVE /\ ecb' \in Seq(1..MaxId) /\ Len(ecb') < Capacity /\ acked' \subseteq 1..MaxId
<1>1. ecb \in Seq(1..MaxId) /\ Len(ecb) < Capacity /\ acked \subseteq 1..MaxId
  BY DEF WriterTypes, HistTypes
<1>2. CASE v = Head(ecb)
  <2>1. ecb' = Tail(ecb) /\ acked' = acked \cup {Head(ecb)}
    BY <1>2 DEF Confirm
  <2>2. Head(ecb) \in 1..MaxId /\ Tail(ecb) \in Seq(1..MaxId) /\ Len(Tail(ecb)) < Capacity
    BY <1>1, TransportAssumption
  <2> QED BY <1>1, <2>1, <2>2, Zenon
<1>3. CASE v # Head(ecb)
  BY <1>1, <1>3, Zenon DEF Confirm
<1> QED BY <1>2, <1>3, Zenon

\* The end of readAcks(): another round, or back to the caller.
LEMMA DoneTypes ==
  ASSUME CallTypes, WriterTypes, CallInv, wPc = "read", readAcksDone, UNCHANGED <<goal, todo, sent>>
  PROVE CallTypes' /\ CallInv' /\ bIO' \in Seq(CmdType)
<1>1. CASE Full /\ ~svc.last
  <2>1. /\ svc' = [svc EXCEPT !.orig = TRUE, !.blocking = TRUE, !.got = FALSE, !.last = TRUE]
        /\ wPc' = "flush" /\ next' = "read" /\ bIO' = Append(bIO, Cmd("FORCE_ACK", 0))
    BY <1>1 DEF readAcksDone, throwAckSync, flush
  <2>2. svc'.ret = svc.ret
    BY <2>1 DEF CallTypes
  <2>3. CallTypes'
    BY <2>1, Zenon DEF CallTypes
  <2>4. CallInv'
    BY <2>1, <2>2 DEF CallInv, Writing
  <2> QED BY <2>1, <2>3, <2>4, SyncTypes DEF Commands
<1>2. CASE ~(Full /\ ~svc.last)
  <2>1. wPc' = svc.ret /\ UNCHANGED <<svc, next, bIO>>
    BY <1>2 DEF readAcksDone
  <2> QED BY <2>1 DEF CallTypes, CallInv, Writing, WriterTypes
<1> QED BY <1>1, <1>2, Zenon

\* The steps that read acks.
LEMMA AcksTypes ==
  ASSUME TypeOK, CallInv, ReadAcksEnd \/ ReadAck \/ ReadNothing PROVE TypeOK' /\ CallInv'
<1>0. CallTypes /\ WriterTypes /\ ReaderTypes /\ HistTypes
  BY TypeParts
<1> SUFFICES CallTypes' /\ WriterTypes' /\ ReaderTypes' /\ HistTypes' /\ CallInv'
  BY TypeParts, PTL
<1>1. CASE ReadAcksEnd
  <2>1. /\ wPc = "read" /\ readAcksDone
        /\ UNCHANGED <<goal, todo, ecb, sent, tags, ejected, linkVars, readerVars, histVars>>
    BY <1>1, Zenon DEF ReadAcksEnd
  <2>2. CallTypes' /\ CallInv' /\ bIO' \in Seq(CmdType)
    BY <2>1, <1>0, DoneTypes, Zenon
  <2>3. WriterTypes' /\ ReaderTypes' /\ HistTypes'
    BY <2>1, <2>2, <1>0, Zenon DEF WriterTypes, ReaderTypes, HistTypes, linkVars, readerVars, histVars
  <2> QED BY <2>2, <2>3, Zenon
<1>2. CASE ReadAck
  <2>1. /\ wPc = "read" /\ ecb # <<>> /\ down # <<>> /\ down' = Tail(down)
        /\ UNCHANGED <<next, goal, todo, bIO, sent, tags, up, cancelled, wErr, readerVars, read, refused, calls, timeouts, throttles>>
    BY <1>2, Zenon DEF ReadAck
  <2>2. down' \in Seq(CmdType) /\ Len(down') <= DownCap
    <3>1. down \in Seq(CmdType) /\ Len(down) <= DownCap
      BY <1>0, Zenon DEF ReaderTypes
    <3> QED BY <3>1, <2>1, TransportAssumption
  <2>3. ReaderTypes'
    BY <2>1, <2>2, <1>0, Zenon DEF ReaderTypes, readerVars
  <2>4. CASE /\ \E o \in BOOLEAN, g \in BOOLEAN : svc' = [svc EXCEPT !.blocking = o, !.got = g]
             /\ UNCHANGED <<wPc, link, ejected>>
             /\ (\E v : Confirm(v)) \/ UNCHANGED <<ecb, acked>>
    <3>1. CallTypes' /\ svc'.ret = svc.ret
      BY <2>1, <2>4, <1>0, Zenon DEF CallTypes
    <3>2. CallInv'
      BY <3>1, <2>1, <2>4 DEF CallInv, Writing
    <3>3. ecb' \in Seq(1..MaxId) /\ Len(ecb') < Capacity /\ acked' \subseteq 1..MaxId
      BY <2>1, <2>4, <1>0, ConfirmTypes, Zenon DEF WriterTypes, HistTypes
    <3>4. WriterTypes' /\ HistTypes'
      BY <3>3, <2>1, <2>4, <1>0, Zenon DEF WriterTypes, HistTypes
    <3> QED BY <3>1, <3>2, <3>4, <2>3, Zenon
  <2>5. CASE Fail /\ UNCHANGED <<svc, acked>>
    <3>1. /\ wPc' \in {"failed", "closed"} /\ link' \in BOOLEAN /\ ecb' \in Seq(1..MaxId)
          /\ Len(ecb') < Capacity /\ ejected' \in Seq(1..MaxId)
      BY <2>5, <1>0, FailTypes, Zenon
    <3>2. CallTypes' /\ CallInv'
      BY <2>1, <2>5, <3>1, <1>0 DEF CallTypes, CallInv, Writing
    <3>3. WriterTypes' /\ HistTypes'
      BY <2>1, <2>5, <3>1, <1>0, Zenon DEF WriterTypes, HistTypes
    <3> QED BY <3>2, <3>3, <2>3, Zenon
  <2>6. svc.orig \in BOOLEAN /\ svc.got \in BOOLEAN /\ svc.blocking \in BOOLEAN
    BY <1>0 DEF CallTypes
  <2>7. \A o \in BOOLEAN : [svc EXCEPT !.blocking = o] = [svc EXCEPT !.blocking = o, !.got = svc.got]
    BY <1>0, Zenon DEF CallTypes
  <2>8. \/ UNCHANGED <<wPc, link, ejected>> /\ Confirm(Head(down).val) /\ svc' = [svc EXCEPT !.blocking = FALSE, !.got = TRUE]
        \/ UNCHANGED <<wPc, link, ejected, ecb, acked>> /\ svc' = [svc EXCEPT !.blocking = svc.orig]
        \/ UNCHANGED <<wPc, link, ejected, ecb, acked>> /\ svc' = [svc EXCEPT !.blocking = FALSE]
        \/ Fail /\ UNCHANGED <<svc, acked>>
    BY <1>2, Zenon DEF ReadAck
  <2> QED BY <2>4, <2>5, <2>6, <2>7, <2>8, Zenon
<1>3. CASE ReadNothing
  <2>1. /\ wPc = "read"
        /\ UNCHANGED <<goal, todo, sent, tags, up, down, cancelled, wErr, readerVars, read, acked, refused, calls, throttles>>
        /\ timeouts' = timeouts \/ (timeouts < MaxTimeout /\ timeouts' = timeouts + 1)
    BY <1>3, Zenon DEF ReadNothing
  <2>2. ReaderTypes' /\ HistTypes'
    <3>1. ReaderTypes'
      BY <2>1, <1>0, Zenon DEF ReaderTypes, readerVars
    <3>2. HistTypes'
      BY <2>1, <1>0, TransportAssumption DEF HistTypes
    <3> QED BY <3>1, <3>2, Zenon
  <2>3. CASE readAcksDone /\ UNCHANGED <<link, ejected, ecb>>
    <3>1. CallTypes' /\ CallInv' /\ bIO' \in Seq(CmdType)
      BY <2>1, <2>3, <1>0, DoneTypes, Zenon
    <3>2. WriterTypes'
      BY <3>1, <2>1, <2>3, <1>0, Zenon DEF WriterTypes
    <3> QED BY <3>1, <3>2, <2>2, Zenon
  <2>4. CASE throwAckSync("read") /\ svc' = [svc EXCEPT !.last = TRUE] /\ UNCHANGED <<link, ejected, ecb>>
    <3>1. wPc' = "flush" /\ next' = "read" /\ bIO' = Append(bIO, Cmd("FORCE_ACK", 0))
      BY <2>4 DEF throwAckSync, flush
    <3>2. CallTypes' /\ svc'.ret = svc.ret
      BY <3>1, <2>1, <2>4, <1>0, Zenon DEF CallTypes
    <3>3. CallInv'
      BY <3>1, <3>2, <2>1 DEF CallInv, Writing
    <3>4. bIO' \in Seq(CmdType)
      BY <3>1, <1>0, SyncTypes DEF Commands
    <3>5. WriterTypes'
      BY <3>4, <2>1, <2>4, <1>0, Zenon DEF WriterTypes
    <3> QED BY <3>2, <3>3, <3>5, <2>2, Zenon
  <2>5. CASE Fail /\ UNCHANGED <<svc, next, bIO>>
    <3>1. /\ wPc' \in {"failed", "closed"} /\ link' \in BOOLEAN /\ ecb' \in Seq(1..MaxId)
          /\ Len(ecb') < Capacity /\ ejected' \in Seq(1..MaxId)
      BY <2>5, <1>0, FailTypes, Zenon
    <3>2. CallTypes' /\ CallInv'
      BY <2>1, <2>5, <3>1, <1>0 DEF CallTypes, CallInv, Writing
    <3>3. WriterTypes'
      BY <2>1, <2>5, <3>1, <1>0, Zenon DEF WriterTypes
    <3> QED BY <3>2, <3>3, <2>2, Zenon
  <2> QED BY <1>3, <2>3, <2>4, <2>5 DEF ReadNothing
<1> QED BY <1>1, <1>2, <1>3, Zenon

\* The steps that wait for an answer.
LEMMA AnswerTypes ==
  ASSUME TypeOK, CallInv, Sync \/ ReadAnswer \/ AnswerNothing PROVE TypeOK' /\ CallInv'
<1>0. CallTypes /\ WriterTypes /\ ReaderTypes /\ HistTypes
  BY TypeParts
<1> SUFFICES CallTypes' /\ WriterTypes' /\ ReaderTypes' /\ HistTypes' /\ CallInv'
  BY TypeParts, PTL
<1>1. CASE Sync
  <2>1. UNCHANGED <<goal, todo, sent, tags, up, down, cancelled, wErr, readerVars, histVars>>
    BY <1>1, Zenon DEF Sync
  <2>2. ReaderTypes' /\ HistTypes'
    BY <2>1, <1>0, Zenon DEF ReaderTypes, HistTypes, readerVars, histVars
  <2>3. CASE serviceAcks(TRUE, "sync") /\ UNCHANGED <<bIO, link, ejected, ecb>>
    <3>1. /\ svc' = [orig |-> TRUE, blocking |-> TRUE, got |-> FALSE, last |-> FALSE, ret |-> "sync"]
          /\ wPc' = "flush" /\ next' = "read"
      BY <2>3, Zenon DEF serviceAcks, flush
    <3>2. CallTypes' /\ CallInv'
      BY <3>1, <2>1, <1>0 DEF CallTypes, CallInv, Writing
    <3>3. WriterTypes'
      BY <2>1, <2>3, <1>0, Zenon DEF WriterTypes
    <3> QED BY <3>2, <3>3, <2>2, Zenon
  <2>4. CASE Fail /\ UNCHANGED <<svc, next, bIO>>
    <3>1. /\ wPc' \in {"failed", "closed"} /\ link' \in BOOLEAN /\ ecb' \in Seq(1..MaxId)
          /\ Len(ecb') < Capacity /\ ejected' \in Seq(1..MaxId)
      BY <2>4, <1>0, FailTypes, Zenon
    <3>2. CallTypes' /\ CallInv'
      BY <2>1, <2>4, <3>1, <1>0 DEF CallTypes, CallInv, Writing
    <3>3. WriterTypes'
      BY <2>1, <2>4, <3>1, <1>0, Zenon DEF WriterTypes
    <3> QED BY <3>2, <3>3, <2>2, Zenon
  <2>5. CASE wPc' = "idle" /\ UNCHANGED <<svc, next, bIO, link, ejected, ecb>>
    <3>1. CallTypes' /\ CallInv'
      BY <2>1, <2>5, <1>0 DEF CallTypes, CallInv, Writing
    <3>2. WriterTypes'
      BY <2>1, <2>5, <1>0, Zenon DEF WriterTypes
    <3> QED BY <3>1, <3>2, <2>2, Zenon
  <2>6. CASE /\ goal \in {"TAG", "INGESTER_STATE"} /\ flush("answer")
             /\ bIO' = Append(bIO, Cmd(goal, IF goal = "TAG" THEN Len(tags) + 1 ELSE 0))
             /\ UNCHANGED <<svc, link, ejected, ecb>>
    <3>1. CallTypes' /\ CallInv'
      BY <2>1, <2>6, <1>0 DEF CallTypes, CallInv, Writing, flush
    <3>2. bIO' \in Seq(CmdType)
      <4>1. (IF goal = "TAG" THEN Len(tags) + 1 ELSE 0) \in Nat /\ goal \in Commands
        BY <2>6, <1>0 DEF WriterTypes, Commands
      <4> QED BY <4>1, <2>6, <1>0, SyncTypes
    <3>3. WriterTypes'
      BY <3>2, <2>1, <2>6, <1>0, Zenon DEF WriterTypes
    <3> QED BY <3>1, <3>3, <2>2, Zenon
  <2> QED BY <1>1, <2>3, <2>4, <2>5, <2>6, ZenonT(60) DEF Sync
<1>2. CASE ReadAnswer
  <2>1. /\ wPc = "answer" /\ down # <<>> /\ down' = Tail(down)
        /\ UNCHANGED <<next, svc, goal, todo, bIO, sent, up, cancelled, wErr, readerVars, read, refused, calls, throttles>>
        /\ timeouts' = timeouts \/ (timeouts < MaxTimeout /\ timeouts' = timeouts + 1)
    BY <1>2, ZenonT(60) DEF ReadAnswer
  <2>2. down' \in Seq(CmdType) /\ Len(down') <= DownCap /\ Head(down).val \in Nat
    <3>1. down \in Seq(CmdType) /\ Len(down) <= DownCap
      BY <1>0, Zenon DEF ReaderTypes
    <3>2. Head(down) \in CmdType
      BY <3>1, <2>1
    <3>3. Head(down).val \in Nat
      BY <3>2 DEF CmdType
    <3> QED BY <3>1, <3>3, <2>1, TransportAssumption
  <2>3. ReaderTypes'
    BY <2>1, <2>2, <1>0, Zenon DEF ReaderTypes, readerVars
  <2>4. timeouts' \in 0..MaxTimeout
    BY <2>1, <1>0, TransportAssumption DEF HistTypes
  <2>5. \/ UNCHANGED <<wPc, tags, link, ejected>> /\ ecb # <<>> /\ Confirm(Head(down).val)
        \/ UNCHANGED <<link, ejected, ecb, acked>> /\ tags' \in {tags, Append(tags, Head(down).val)}
           /\ wPc' \in {"idle", "answer"}
        \/ UNCHANGED <<tags, acked>> /\ Fail
    BY <1>2, <2>1, ZenonT(60) DEF ReadAnswer
  <2>6. /\ wPc' \in {"idle", "answer", "failed", "closed"} /\ link' \in BOOLEAN /\ ecb' \in Seq(1..MaxId)
        /\ Len(ecb') < Capacity /\ ejected' \in Seq(1..MaxId) /\ acked' \subseteq 1..MaxId
        /\ tags' \in Seq(Nat)
    <3>1. CASE UNCHANGED <<wPc, tags, link, ejected>> /\ ecb # <<>> /\ Confirm(Head(down).val)
      BY <3>1, <2>1, <1>0, ConfirmTypes DEF WriterTypes
    <3>2. CASE /\ UNCHANGED <<link, ejected, ecb, acked>> /\ tags' \in {tags, Append(tags, Head(down).val)}
               /\ wPc' \in {"idle", "answer"}
      <4>1. tags' \in Seq(Nat)
        <5>1. tags \in Seq(Nat)
          BY <1>0, Zenon DEF WriterTypes
        <5>2. Append(tags, Head(down).val) \in Seq(Nat)
          BY <5>1, <2>2
        <5> QED BY <5>1, <5>2, <3>2, Zenon
      <4> QED BY <4>1, <3>2, <1>0, Zenon DEF WriterTypes, HistTypes
    <3>3. CASE UNCHANGED <<tags, acked>> /\ Fail
      BY <3>3, <1>0, FailTypes DEF WriterTypes, HistTypes
    <3> QED BY <2>5, <3>1, <3>2, <3>3, ZenonT(60)
  <2>7. CallTypes' /\ CallInv'
    BY <2>1, <2>6, <1>0 DEF CallTypes, CallInv, Writing
  <2>8. WriterTypes' /\ HistTypes'
    BY <2>1, <2>4, <2>6, <1>0, Zenon DEF WriterTypes, HistTypes
  <2> QED BY <2>3, <2>7, <2>8, Zenon
<1>3. CASE AnswerNothing
  <2>1. /\ Fail
        /\ timeouts' = timeouts \/ (timeouts < MaxTimeout /\ timeouts' = timeouts + 1)
        /\ UNCHANGED <<next, svc, goal, todo, bIO, sent, tags, up, down, cancelled, wErr, readerVars, read, acked, refused, calls, throttles>>
    BY <1>3, Zenon DEF AnswerNothing
  <2>2. /\ wPc' \in {"failed", "closed"} /\ link' \in BOOLEAN /\ ecb' \in Seq(1..MaxId)
        /\ Len(ecb') < Capacity /\ ejected' \in Seq(1..MaxId)
    BY <2>1, <1>0, FailTypes, Zenon
  <2>3. CallTypes' /\ CallInv'
    BY <2>1, <2>2, <1>0 DEF CallTypes, CallInv, Writing
  <2>4. WriterTypes'
    BY <2>1, <2>2, <1>0, Zenon DEF WriterTypes
  <2>5. ReaderTypes'
    BY <2>1, <1>0, Zenon DEF ReaderTypes, readerVars
  <2>6. HistTypes'
    BY <2>1, <1>0, TransportAssumption DEF HistTypes
  <2> QED BY <2>3, <2>4, <2>5, <2>6, Zenon
<1> QED BY <1>1, <1>2, <1>3, Zenon

\* A step of the reader, of the ackRoutine or of the connection.
Remote ==
  Reader \/ SendThrottle \/ AckSelect \/ AckOther \/ Break \/ Cancel

\* Those steps leave the writer alone.
LEMMA RemoteTypes ==
  ASSUME TypeOK, CallInv, RangeInv, Remote PROVE TypeOK' /\ CallInv'
<1>0. CallTypes /\ WriterTypes /\ ReaderTypes /\ HistTypes
  BY TypeParts
<1> SUFFICES CallTypes' /\ WriterTypes' /\ ReaderTypes' /\ HistTypes' /\ CallInv'
  BY TypeParts, PTL
<1>1. /\ UNCHANGED <<callVars, writerVars, wErr, acked, refused, calls, timeouts>>
      /\ link' \in {link, FALSE} /\ cancelled' \in {cancelled, TRUE}
  BY Zenon DEF Remote, Reader, ReadCommand, throwAck, SendThrottle, AckSelect, AckOther, AckKeepAlive, AckFeed,
         AckTimer, AckWrite, AckWritten, AckDiscard, Break, Cancel, ackVars, linkVars, histVars
<1>2. CallTypes' /\ CallInv'
  BY <1>0, <1>1 DEF CallTypes, CallInv, Writing, callVars, writerVars
<1>3. WriterTypes'
  BY <1>0, <1>1, ZenonT(60) DEF WriterTypes, writerVars
<1>4. ReaderTypes' /\ HistTypes'
  <2>0. /\ up \in Seq(CmdType) /\ down \in Seq(CmdType) /\ hand \in Seq(CmdType)
        /\ ackChan \in Seq(CmdType) /\ abuf \in Seq(CmdType)
        /\ Len(up) <= UpCap /\ Len(down) <= DownCap /\ Len(hand) <= 1 /\ Len(ackChan) <= AckCap
    BY <1>0, Zenon DEF ReaderTypes
  <2>1. CASE ReadCommand
    <3> DEFINE c == Head(up)
    <3>1. /\ up # <<>> /\ up' = Tail(up)
          /\ UNCHANGED <<down, ackChan, aPc, abuf, acked, refused, calls, timeouts, throttles>>
      BY <2>1 DEF ReadCommand
    <3>2. c \in CmdType /\ up' \in Seq(CmdType) /\ Len(up') <= UpCap
      BY <2>0, <3>1, TransportAssumption
    <3>3. c.val \in Nat /\ c.cmd \in Commands
      BY <3>2 DEF CmdType
    <3>4. hand' = hand \/ \E d \in CmdType : hand' = <<d>>
      BY <2>1, <3>2, <3>3, CmdTypes DEF ReadCommand, Commands
    <3>5. hand' \in Seq(CmdType) /\ Len(hand') <= 1
      <4>1. CASE hand' = hand
        BY <4>1, <2>0
      <4>2. ASSUME NEW d \in CmdType, hand' = <<d>> PROVE hand' \in Seq(CmdType) /\ Len(hand') <= 1
        BY <4>2
      <4> QED BY <4>1, <4>2, <3>4, Zenon
    <3>6. ReaderTypes'
      BY <3>1, <3>2, <3>5, <1>0, Zenon DEF ReaderTypes
    <3>7. read' \subseteq read \cup OnWire
      <4>1. read' = read \/ (c.cmd = "NEW_ENTRY" /\ read' = read \cup {c.val})
        BY <2>1, ZenonT(60) DEF ReadCommand
      <4>2. c.cmd = "NEW_ENTRY" => c.val \in OnWire
        BY <3>1, <2>0, TailIds, Zenon DEF OnWire, One
      <4> QED BY <4>1, <4>2, ZenonT(60)
    <3>8. HistTypes'
      BY <3>1, <3>7, <1>0, TransportAssumption DEF HistTypes, RangeInv, Chain, WriterTypes
    <3> QED BY <3>6, <3>8, Zenon
  <2>2. CASE throwAck
    <3>1. /\ hand # <<>> /\ Len(ackChan) < AckCap /\ ackChan' = Append(ackChan, hand[1]) /\ hand' = <<>>
          /\ UNCHANGED <<linkVars, aPc, abuf, histVars>>
      BY <2>2 DEF throwAck, AckChanRoom
    <3>2. ackChan' \in Seq(CmdType) /\ Len(ackChan') <= AckCap /\ hand' \in Seq(CmdType) /\ Len(hand') <= 1
      <4>1. hand[1] \in CmdType
        BY <3>1, <2>0
      <4> QED BY <4>1, <3>1, <2>0, TransportAssumption
    <3> QED BY <3>1, <3>2, <1>0 DEF ReaderTypes, HistTypes, linkVars, histVars
  <2>3. CASE SendThrottle
    <3>1. /\ Len(ackChan) < AckCap /\ ackChan' = Append(ackChan, Cmd("THROTTLE", 0))
          /\ throttles < MaxThrottle /\ throttles' = throttles + 1
          /\ UNCHANGED <<linkVars, hand, aPc, abuf, read, acked, refused, calls, timeouts>>
      BY <2>3 DEF SendThrottle, AckChanRoom
    <3>2. ackChan' \in Seq(CmdType) /\ Len(ackChan') <= AckCap
      <4>1. Cmd("THROTTLE", 0) \in CmdType
        BY CmdTypes DEF Commands
      <4> QED BY <4>1, <3>1, <2>0, TransportAssumption
    <3>3. HistTypes'
      BY <3>1, <1>0, TransportAssumption DEF HistTypes
    <3> QED BY <3>1, <3>2, <3>3, <1>0 DEF ReaderTypes, linkVars
  <2>4. CASE AckSelect \/ AckFeed
    <3>1. /\ ackChan # <<>> /\ ackChan' = Tail(ackChan) /\ abuf' = encode(abuf, Head(ackChan))
          /\ aPc' \in {"send", "feed", "spill"} /\ UNCHANGED <<linkVars, hand, histVars>>
      <4>1. CASE AckSelect
        BY <4>1 DEF AckSelect, ackVars
      <4>2. CASE AckFeed
        BY <4>2 DEF AckFeed, ackVars
      <4> QED BY <4>1, <4>2, <2>4, Zenon
    <3>2. ackChan' \in Seq(CmdType) /\ Len(ackChan') <= AckCap /\ abuf' \in Seq(CmdType)
      <4>1. Head(ackChan) \in CmdType
        BY <3>1, <2>0
      <4>2. abuf' = abuf \/ abuf' = Append(abuf, Head(ackChan))
        BY <3>1 DEF encode
      <4>3. Append(abuf, Head(ackChan)) \in Seq(CmdType)
        BY <4>1, <2>0
      <4>4. abuf' \in Seq(CmdType)
        BY <4>2, <4>3, <2>0, Zenon
      <4> QED BY <4>4, <3>1, <2>0, TransportAssumption
    <3> QED BY <3>1, <3>2, <1>0 DEF ReaderTypes, HistTypes, linkVars, histVars
  <2>5. CASE AckKeepAlive \/ AckTimer \/ AckWritten \/ AckDiscard
    <3>1. /\ aPc' \in {"select", "send", "feed", aPc} /\ UNCHANGED <<linkVars, hand, histVars>>
          /\ abuf' = abuf \/ abuf' = <<Cmd("PONG", 0)>>
          /\ ackChan' = ackChan \/ (ackChan # <<>> /\ ackChan' = Tail(ackChan))
      BY <2>5, Zenon DEF AckKeepAlive, AckTimer, AckWritten, AckDiscard, ackVars
    <3>2. abuf' \in Seq(CmdType)
      <4>1. Cmd("PONG", 0) \in CmdType
        BY CmdTypes DEF Commands
      <4>2. <<Cmd("PONG", 0)>> \in Seq(CmdType)
        BY <4>1
      <4> QED BY <4>2, <3>1, <2>0, Zenon
    <3>3. ackChan' \in Seq(CmdType) /\ Len(ackChan') <= AckCap
      <4>1. CASE ackChan # <<>> /\ ackChan' = Tail(ackChan)
        BY <4>1, <2>0, TransportAssumption
      <4> QED BY <4>1, <3>1, <2>0, Zenon
    <3>4. ReaderTypes'
      BY <3>1, <3>2, <3>3, <1>0 DEF ReaderTypes, linkVars
    <3>5. HistTypes'
      BY <3>1, <1>0 DEF HistTypes, histVars
    <3> QED BY <3>4, <3>5, Zenon
  <2>6. CASE AckWrite
    <3>1. /\ abuf # <<>> /\ UNCHANGED <<up, hand, ackChan, histVars>>
          /\ \/ Len(down) < DownCap /\ down' = Append(down, Head(abuf)) /\ abuf' = Tail(abuf) /\ aPc' = aPc
             \/ aPc' = "failed" /\ abuf' = <<>> /\ down' = down
      BY <2>6 DEF AckWrite
    <3>2. down' \in Seq(CmdType) /\ Len(down') <= DownCap /\ abuf' \in Seq(CmdType)
      <4>1. Head(abuf) \in CmdType /\ Tail(abuf) \in Seq(CmdType)
        BY <3>1, <2>0
      <4>2. CASE Len(down) < DownCap /\ down' = Append(down, Head(abuf)) /\ abuf' = Tail(abuf)
        BY <4>1, <4>2, <2>0, TransportAssumption
      <4>3. CASE abuf' = <<>> /\ down' = down
        BY <4>3, <2>0
      <4> QED BY <4>2, <4>3, <3>1, Zenon
    <3> QED BY <3>1, <3>2, <1>0 DEF ReaderTypes, HistTypes, histVars
  <2>7. CASE Break
    <3>1. UNCHANGED <<readerVars, histVars>>
      BY <2>7 DEF Break
    <3>2. PICK m \in 0..Len(up), n \in 0..Len(down) : up' = SubSeq(up, 1, m) /\ down' = SubSeq(down, 1, n)
      BY <2>7 DEF Break
    <3>3. up' \in Seq(CmdType) /\ Len(up') = m /\ down' \in Seq(CmdType) /\ Len(down') = n
      BY <3>2, <2>0, PrefixIds
    <3>4. Len(up') <= UpCap /\ Len(down') <= DownCap
      BY <3>3, <2>0, TransportAssumption
    <3> QED BY <3>1, <3>3, <3>4, <1>0 DEF ReaderTypes, HistTypes, readerVars, histVars
  <2>8. CASE Cancel
    BY <2>8, <1>0 DEF Cancel, ReaderTypes, HistTypes, readerVars, histVars
  <2> QED BY <2>1, <2>2, <2>3, <2>4, <2>5, <2>6, <2>7, <2>8 DEF Remote, Reader, AckOther
<1> QED BY <1>2, <1>3, <1>4, Zenon

-----------------------------------------------------------------------------
\* The invariant holds at the start.
LEMMA InitInv == Init => TInv
<1> SUFFICES ASSUME Init PROVE TInv
  OBVIOUS
<1>1. TypeOK
  <2>1. <<>> \in Seq(CmdType) /\ <<>> \in Seq(1..MaxId) /\ <<>> \in Seq(Nat) /\ Len(<<>>) = 0
    OBVIOUS
  <2>2. CallTypes
    BY DEF Init, CallTypes
  <2>3. WriterTypes
    <3>1. sent \in 0..MaxId /\ Len(ecb) < Capacity
      BY TransportAssumption DEF Init
    <3>2. link \in BOOLEAN /\ cancelled \in BOOLEAN /\ wErr \in BOOLEAN
      BY ZenonT(60) DEF Init
    <3> QED BY <2>1, <3>1, <3>2 DEF Init, WriterTypes
  <2>4. ReaderTypes
    BY <2>1, TransportAssumption DEF Init, ReaderTypes
  <2>5. HistTypes
    BY TransportAssumption DEF Init, HistTypes
  <2> QED BY <2>2, <2>3, <2>4, <2>5, TypeParts
<1>2. CallInv
  BY Zenon DEF Init, CallInv, Writing
<1>3. /\ Arriving = {} /\ Buffered = {} /\ Queued = {} /\ InHand = {} /\ OnWire = {} /\ Written = {}
      /\ Unconfirmed = {} /\ Len(ecb) = 0
  BY NoIds DEF Init, Arriving, Buffered, Queued, InHand, OnWire, Written, Unconfirmed
<1>4. Acks = {} /\ Chain = {}
  BY <1>3 DEF Acks, Chain
<1>5. OrderInv
  BY <1>3, <1>4, NoIds, Zenon DEF Init, OrderInv, Before
<1>6. RangeInv /\ EcbInv /\ AckInv
  BY <1>3, <1>4 DEF Init, RangeInv, EcbInv, AckInv
<1> QED BY <1>1, <1>2, <1>5, <1>6 DEF TInv, FlowInv

\* The writer's steps keep the chain.
LEMMA WriterFlow ==
  ASSUME TInv, Calls \/ Steps PROVE FlowInv'
<1>0. ChannelTypes /\ CallTypes /\ FlowInv
  BY TypeParts, Channels DEF TInv
<1>1. \A c \in Commands \ {"NEW_ENTRY"}, v \in Nat : Cmd(c, v) \in CmdType /\ Cmd(c, v).cmd # "NEW_ENTRY"
  BY CmdTypes, Zenon DEF Cmd
<1>2. ASSUME Fail PROVE \/ ecb' = ecb /\ link' = link
                        \/ ecb' = <<>> /\ link' = FALSE /\ wPc' = "closed"
  BY <1>2 DEF Fail
<1>3. CASE Write \/ WriteBatch \/ DittoTagFailed \/ WaitForSlot
  <2>1. /\ UNCHANGED <<writerVars, linkVars, readerVars, histVars>> /\ wPc # "closed"
    BY <1>3, ZenonT(60) DEF Write, WriteBatch, DittoTagFailed, WaitForSlot
  <2> QED BY <2>1, <1>0, QuietStep DEF writerVars, linkVars, readerVars, histVars, ChannelTypes
<1>4. CASE ForceAck \/ NegotiateTag \/ SendIngesterState \/ Close \/ Ping \/ WriteDittoBlock
  <2>1. /\ UNCHANGED <<ecb, linkVars, readerVars, read, acked, refused>> /\ wPc # "closed"
        /\ sent' = sent \/ sent' = sent + 1
        /\ \E c \in {"FORCE_ACK", "PING", "DITTO_BLOCK"} : bIO' = Append(bIO, Cmd(c, 0))
    <3>1. CASE ForceAck
      BY <3>1 DEF ForceAck, StartSync, Call, throwAckSync
    <3>2. CASE NegotiateTag
      BY <3>2 DEF NegotiateTag, StartSync, Call, throwAckSync
    <3>3. CASE SendIngesterState
      BY <3>3 DEF SendIngesterState, StartSync, Call, throwAckSync
    <3>4. CASE Close
      BY <3>4 DEF Close, StartSync, Call, throwAckSync
    <3>5. CASE Ping
      BY <3>5 DEF Ping, Call
    <3>6. CASE WriteDittoBlock
      BY <3>6 DEF WriteDittoBlock, Call
    <3> QED BY <1>4, <3>1, <3>2, <3>3, <3>4, <3>5, <3>6, Zenon
  <2>2. \E c \in CmdType : c.cmd # "NEW_ENTRY" /\ bIO' = Append(bIO, c)
    BY <2>1, <1>1 DEF Commands
  <2>3. sent' \in Nat /\ sent <= sent'
    BY <2>1, <1>0 DEF ChannelTypes
  <2> QED BY <2>1, <2>2, <2>3, <1>0, QuietStep, Zenon DEF linkVars, readerVars
<1>5. CASE Flush
  <2>1. wPc = "flush" /\ UNCHANGED <<sent, down, readerVars, read, acked, refused>>
    BY <1>5, Zenon DEF Flush
  <2>2. CASE /\ bIO # <<>> /\ up' = Append(up, Head(bIO)) /\ bIO' = Tail(bIO)
             /\ UNCHANGED <<wPc, link, ecb>>
    BY <2>1, <2>2, <1>0, FlushStep DEF readerVars
  <2>3. CASE UNCHANGED <<up, bIO>> /\ (UNCHANGED <<link, ecb>> \/ Fail)
    <3>1. \/ ecb' = ecb /\ link' = link
          \/ ecb' = <<>> /\ link' = FALSE /\ wPc' = "closed"
      BY <2>3, <1>2, Zenon
    <3>2. sent' \in Nat /\ sent <= sent'
      BY <2>1, <1>0 DEF ChannelTypes
    <3> QED BY <2>1, <2>3, <3>1, <3>2, <1>0, QuietStep, Zenon DEF readerVars
  <2> QED BY <1>5, <2>2, <2>3 DEF Flush, FlushFailed
<1>6. CASE SendEntry
  <2>1. /\ wPc # "closed" /\ UNCHANGED <<linkVars, readerVars, read, acked>>
        /\ \/ UNCHANGED <<bIO, ecb, sent, refused>>
           \/ /\ bIO' = Append(bIO, Cmd("NEW_ENTRY", sent + 1)) /\ sent' = sent + 1
              /\ \/ ecb' = Append(ecb, sent + 1) /\ refused' = refused
                 \/ ecb' = ecb /\ refused' = refused \cup {sent + 1}
    BY <1>6 DEF SendEntry
  <2>2. CASE UNCHANGED <<bIO, ecb, sent, refused>>
    BY <2>1, <2>2, <1>0, QuietStep DEF linkVars, readerVars, ChannelTypes
  <2>3. CASE /\ bIO' = Append(bIO, Cmd("NEW_ENTRY", sent + 1)) /\ sent' = sent + 1
             /\ \/ ecb' = Append(ecb, sent + 1) /\ refused' = refused
                \/ ecb' = ecb /\ refused' = refused \cup {sent + 1}
    BY <2>1, <2>3, <1>0, SendStep DEF linkVars, readerVars
  <2> QED BY <2>1, <2>2, <2>3, Zenon
<1>7. CASE ReadAcksEnd \/ ReadNothing \/ Sync \/ AnswerNothing
  <2>1. /\ wPc # "closed" /\ UNCHANGED <<sent, up, down, readerVars, read, acked, refused>>
        /\ UNCHANGED <<link, ecb>> \/ Fail
    BY <1>7, Zenon DEF ReadAcksEnd, ReadNothing, Sync, AnswerNothing, linkVars, histVars
  <2>2. bIO' = bIO \/ \E c \in CmdType : c.cmd # "NEW_ENTRY" /\ bIO' = Append(bIO, c)
    <3>1. Cmd("FORCE_ACK", 0) \in CmdType /\ Cmd("FORCE_ACK", 0).cmd # "NEW_ENTRY"
      BY <1>1 DEF Commands
    <3>2. CASE ReadAcksEnd \/ ReadNothing \/ AnswerNothing
      <4>1. bIO' = bIO \/ bIO' = Append(bIO, Cmd("FORCE_ACK", 0))
        BY <3>2 DEF ReadAcksEnd, ReadNothing, AnswerNothing, readAcksDone, throwAckSync
      <4> QED BY <4>1, <3>1, Zenon
    <3>3. CASE Sync
      <4> DEFINE v == IF goal = "TAG" THEN Len(tags) + 1 ELSE 0
      <4>1. v \in Nat
        BY DEF TInv, TypeOK
      <4>2. bIO' = bIO \/ (goal \in {"TAG", "INGESTER_STATE"} /\ bIO' = Append(bIO, Cmd(goal, v)))
        BY <3>3, Zenon DEF Sync
      <4> HIDE DEF v
      <4>3. goal \in {"TAG", "INGESTER_STATE"} => Cmd(goal, v) \in CmdType /\ Cmd(goal, v).cmd # "NEW_ENTRY"
        BY <4>1, <1>1 DEF Commands
      <4> QED BY <4>2, <4>3, Zenon
    <3> QED BY <3>2, <3>3, <1>7, Zenon
  <2>3. \/ ecb' = ecb /\ link' = link
        \/ ecb' = <<>> /\ link' = FALSE /\ wPc' = "closed"
    BY <2>1, <1>2, Zenon
  <2>4. sent' \in Nat /\ sent <= sent'
    BY <2>1, <1>0 DEF ChannelTypes
  <2> QED BY <2>1, <2>2, <2>3, <2>4, <1>0, QuietStep, Zenon DEF readerVars
<1>8. CASE ReadAck \/ ReadAnswer
  <2>1. /\ wPc # "closed" /\ down # <<>> /\ down' = Tail(down)
        /\ UNCHANGED <<refused, sent, up, bIO, readerVars, read>>
    BY <1>8 DEF ReadAck, ReadAnswer
  <2>2. \/ Head(down).cmd = "CONFIRM_ENTRY" /\ ecb # <<>> /\ Confirm(Head(down).val) /\ link' = link
        \/ Head(down).cmd = "CONFIRM_ENTRY" /\ ecb = <<>> /\ Fail /\ UNCHANGED acked
        \/ Head(down).cmd # "CONFIRM_ENTRY" /\ UNCHANGED acked /\ (Fail \/ UNCHANGED <<ecb, link>>)
    <3>1. CASE ReadAck
      BY <3>1 DEF ReadAck
    <3>2. CASE ReadAnswer
      <4>1. AnswerTo(goal) # "CONFIRM_ENTRY"
        BY DEF AnswerTo
      <4> QED BY <3>2, <4>1, Zenon DEF ReadAnswer
    <3> QED BY <3>1, <3>2, <1>8, Zenon
  <2> QED BY <2>1, <2>2, <1>0, <1>2, DecodeStep, Zenon DEF readerVars
<1> QED BY <1>3, <1>4, <1>5, <1>6, <1>7, <1>8 DEF Calls, Steps

\* The other steps keep the chain.
LEMMA RemoteFlow ==
  ASSUME TInv, Remote PROVE FlowInv'
<1>0. ChannelTypes /\ FlowInv
  BY TypeParts, Channels DEF TInv
<1>1. CASE Reader
  BY <1>0, <1>1, TakeStep, ThrowStep DEF Reader
<1>2. CASE SendThrottle
  BY <1>0, <1>2, ThrottleStep
<1>3. CASE AckSelect \/ AckFeed
  <2>1. /\ ackChan # <<>> /\ ackChan' = Tail(ackChan) /\ abuf' = encode(abuf, Head(ackChan))
        /\ aPc' \notin {"select", "failed"} /\ UNCHANGED ackVars
    <3>1. CASE AckSelect
      BY <3>1 DEF AckSelect
    <3>2. CASE AckFeed
      BY <3>2 DEF AckFeed
    <3> QED BY <3>1, <3>2, <1>3, Zenon
  <2>2. UNCHANGED <<ecb, refused, sent, wPc, link, up, down, bIO, hand, read, acked>>
    BY <2>1 DEF ackVars, callVars, writerVars, linkVars, histVars
  <2> QED BY <2>1, <2>2, <1>0, EncodeStep
<1>4. CASE AckKeepAlive
  BY <1>0, <1>4, KeepAliveStep
<1>5. CASE AckTimer \/ AckWritten
  <2>1. /\ UNCHANGED <<callVars, writerVars, linkVars, hand, histVars, ackChan, abuf>>
        /\ aPc' # "failed" /\ (aPc' = "select" => abuf = <<>>)
    BY <1>5 DEF AckTimer, AckWritten, ackVars
  <2>2. UNCHANGED <<Acks, Chain, Unconfirmed, Arriving, Buffered, Queued, InHand, OnWire, Written>>
    BY <2>1, ZenonT(60) DEF Acks, Chain, Unconfirmed, Arriving, Buffered, Queued, InHand, OnWire, Written, callVars, writerVars, linkVars
  <2>3. OrderInv' /\ RangeInv' /\ EcbInv'
    BY <2>1, <2>2, <1>0, ZenonT(60) DEF FlowInv, OrderInv, RangeInv, EcbInv, callVars, writerVars, linkVars, histVars
  <2>4. AckInv'
    BY <2>1, <2>2, <1>0 DEF FlowInv, AckInv, histVars
  <2> QED BY <2>3, <2>4 DEF FlowInv
<1>6. CASE AckWrite
  <2>1. /\ abuf # <<>> /\ aPc \notin {"select", "failed"}
        /\ UNCHANGED <<callVars, writerVars, up, link, cancelled, wErr, hand, ackChan, histVars>>
        /\ \/ link /\ down' = Append(down, Head(abuf)) /\ abuf' = Tail(abuf) /\ aPc' = aPc
           \/ ~link /\ aPc' = "failed" /\ abuf' = <<>> /\ down' = down
    BY <1>6 DEF AckWrite
  <2>2. UNCHANGED <<ecb, refused, sent, wPc, link, up, bIO, hand, ackChan, read, acked>>
    BY <2>1 DEF callVars, writerVars, histVars
  <2>3. CASE link /\ down' = Append(down, Head(abuf)) /\ abuf' = Tail(abuf) /\ aPc' = aPc
    BY <2>1, <2>2, <2>3, <1>0, AckWriteStep
  <2>4. CASE ~link /\ aPc' = "failed" /\ abuf' = <<>> /\ down' = down
    BY <2>2, <2>4, <1>0, DropStep
  <2> QED BY <2>1, <2>3, <2>4, Zenon
<1>7. CASE AckDiscard
  <2>1. /\ aPc = "failed" /\ ackChan # <<>> /\ ackChan' = Tail(ackChan) /\ UNCHANGED <<aPc, abuf>>
        /\ UNCHANGED <<ecb, refused, sent, wPc, link, up, down, bIO, hand, read, acked>>
    BY <1>7 DEF AckDiscard, ackVars, callVars, writerVars, linkVars, histVars
  <2>2. abuf = <<>> /\ ~link
    BY <2>1, <1>0 DEF FlowInv, AckInv
  <2> QED BY <2>1, <2>2, <1>0, DropStep
<1>8. CASE Break
  BY <1>0, <1>8, BreakStep
<1>9. CASE Cancel
  <2>1. UNCHANGED <<ecb, refused, sent, wPc, link, up, down, bIO, hand, ackChan, abuf, aPc, read, acked>>
    BY <1>9 DEF Cancel, callVars, writerVars, readerVars, histVars
  <2> QED BY <2>1, <1>0, QuietStep DEF ChannelTypes
<1> QED BY <1>1, <1>2, <1>3, <1>4, <1>5, <1>6, <1>7, <1>8, <1>9 DEF Remote, AckOther

\* Every step keeps the invariant.
LEMMA StepInv == TInv /\ [Next]_vars => TInv'
<1> SUFFICES ASSUME TInv, [Next]_vars PROVE TInv'
  OBVIOUS
<1>1. CASE UNCHANGED vars
  <2>1. UNCHANGED <<wPc, next, svc, goal, todo, bIO, ecb, sent, tags, ejected, up, down, link, cancelled, wErr,
                    hand, ackChan, aPc, abuf, read, acked, refused, calls, timeouts, throttles>>
    BY <1>1 DEF vars, callVars, writerVars, linkVars, readerVars, histVars
  <2>2. UNCHANGED <<Acks, Chain, Unconfirmed, Arriving, Buffered, Queued, InHand, OnWire, Written>>
    BY <2>1, ZenonT(60) DEF Acks, Chain, Unconfirmed, Arriving, Buffered, Queued, InHand, OnWire, Written
  <2>3. TypeOK'
    <3>0. CallTypes /\ WriterTypes /\ ReaderTypes /\ HistTypes
      BY TypeParts DEF TInv
    <3>1. CallTypes'
      BY <2>1, <3>0 DEF CallTypes
    <3>2. WriterTypes'
      BY <2>1, <3>0 DEF WriterTypes
    <3>3. ReaderTypes'
      BY <2>1, <3>0 DEF ReaderTypes
    <3>4. HistTypes'
      BY <2>1, <3>0, TransportAssumption DEF HistTypes
    <3>5. TypeOK' <=> CallTypes' /\ WriterTypes' /\ ReaderTypes' /\ HistTypes'
      BY TypeParts, PTL
    <3> QED BY <3>1, <3>2, <3>3, <3>4, <3>5, Zenon
  <2>4. CallInv'
    BY <2>1 DEF TInv, CallInv, Writing
  <2>5. FlowInv'
    BY <2>1, <2>2, Zenon DEF TInv, FlowInv, OrderInv, RangeInv, EcbInv, AckInv
  <2> QED BY <2>3, <2>4, <2>5, Zenon DEF TInv
<1>2. CASE Calls \/ Steps
  <2>1. TypeOK' /\ CallInv'
    BY <1>2, CallsTypes, WriteTypes, AcksTypes, AnswerTypes, Zenon DEF TInv, Steps
  <2>2. FlowInv'
    BY <1>2, WriterFlow, Zenon
  <2> QED BY <2>1, <2>2, Zenon DEF TInv
<1>3. CASE Remote
  <2>1. TypeOK' /\ CallInv'
    BY <1>3, RemoteTypes DEF TInv, FlowInv
  <2>2. FlowInv'
    BY <1>3, RemoteFlow
  <2> QED BY <2>1, <2>2 DEF TInv
<1> QED BY <1>1, <1>2, <1>3 DEF Next, Remote, Finished

\* The inductive invariant: the types, what a call that writes still has to
\* do, and the chain of IDs.
THEOREM Invariance == Spec => []TInv
BY InitInv, StepInv, PTL DEF Spec

\* The buffers keep to their capacities and the variables to their types,
\* whatever the capacities are.
THEOREM TypeCorrect == Spec => []TypeOK
<1>1. TInv => TypeOK
  BY DEF TInv
<1> QED BY <1>1, Invariance, PTL

\* An entry that leaves the confirmation buffer because of an ack has been
\* read by the indexer, for any buffer sizes, timeouts and breaks.
THEOREM ConfirmedIsRead == Spec => []AckedIsRead
<1>1. TInv => AckedIsRead
  BY DEF TInv, FlowInv, AckInv, AckedIsRead
<1> QED BY <1>1, Invariance, PTL

\* The ack that readAcks() or readCommandsUntil() decodes next is for the
\* oldest unconfirmed entry or for one that Add() refused.
THEOREM AcksComeInOrder == Spec => []AcksInOrder
<1>1. TInv => AcksInOrder
  BY FrontIsOldest, TypeParts, Channels DEF TInv
<1> QED BY <1>1, Invariance, PTL
=============================================================================
