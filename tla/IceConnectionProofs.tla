------------------------- MODULE IceConnectionProofs -------------------------
(***************************************************************************)
(* Proofs about IceConnection.  Framing is inductive once it is known      *)
(* where in the stream the next header is looked for: exactly where the    *)
(* next unhandled command starts.  The bound on the buffer needs what was  *)
(* left over before the piece at hand arrived.  The last part is about     *)
(* TcpServer, which owns the connections.                                  *)
(***************************************************************************)
EXTENDS IceConnection, TcpServer, TLAPS

\* Commands follow each other in the stream without gaps.
Stream ==
  /\ \A i \in DOMAIN cmds : /\ cmds[i].len <= MaxContent
                            /\ cmds[i].at + HeaderLen + cmds[i].len <= wire
  /\ \A i, j \in DOMAIN cmds : i < j => cmds[i].at + HeaderLen + cmds[i].len <= cmds[j].at
  /\ \A i \in DOMAIN cmds :
       (i + 1) \in DOMAIN cmds => cmds[i + 1].at = cmds[i].at + HeaderLen + cmds[i].len
  /\ cmds # <<>> => wire = cmds[Len(cmds)].at + HeaderLen + cmds[Len(cmds)].len
  /\ cmds = <<>> => wire = 0

\* The next header is looked for where the next unhandled command starts, as
\* long as no overlong command was handled.
Aligned ==
  ShortUpTo(Len(handled)) =>
    /\ Len(handled) <= Len(cmds)
    /\ ParseAt = IF Len(handled) < Len(cmds) THEN cmds[Len(handled) + 1].at ELSE wire

\* The buffer holds the new piece, and before it less than a command.
Buffer ==
  /\ pc = "idle" => totalUsedLen = 0
  /\ pc = "parse" => /\ totalUsedLen <= received - base
                     /\ dataLen <= received - base
                     /\ received - base < dataLen + HeaderLen + MaxContent

IInv == TypeOK /\ Stream /\ InOrder /\ Aligned /\ Buffer /\ BufferBounded

-------------------------------------------------------------------------------
\* What a remainder may be.
LEMMA Remainder ==
  ASSUME NEW x \in Nat, NEW m \in Nat \ {0}
  PROVE  x % m \in Nat /\ x % m <= x /\ x % m < m /\ (x < m => x % m = x)
<1>1. CASE x < m
  BY <1>1
<1>2. CASE ~(x < m)
  <2>1. x % m \in 0 .. m - 1
    OBVIOUS
  <2> QED BY <2>1, <1>2
<1> QED BY <1>1, <1>2

\* The commands sent and their fields have their types.
LEMMA CommandTypes ==
  ASSUME TypeOK, NEW i \in DOMAIN cmds
  PROVE  cmds[i] \in Command /\ cmds[i].at \in Nat /\ cmds[i].len \in Nat
<1>1. cmds[i] \in Command
  BY DEF TypeOK
<1> QED BY <1>1 DEF Command

\* At the start of a command the length field says the low bits of its length.
LEMMA LengthRead ==
  ASSUME TypeOK, Stream, NEW k \in DOMAIN cmds
  PROVE  ContentLen(cmds[k].at) = {cmds[k].len % LengthMod}
<1> USE LengthsAssumption DEF TypeOK
<1>1. \A j \in DOMAIN cmds : cmds[j].at = cmds[k].at => j = k
  <2> SUFFICES ASSUME NEW j \in DOMAIN cmds, cmds[j].at = cmds[k].at, j # k PROVE FALSE
    OBVIOUS
  <2>1. cmds[j] \in Command /\ cmds[k] \in Command
    OBVIOUS
  <2>2. j < k \/ k < j
    OBVIOUS
  <2> QED BY <2>1, <2>2 DEF Stream, Command
<1>2. {j \in DOMAIN cmds : cmds[j].at = cmds[k].at} = {k}
  BY <1>1
<1> QED BY <1>2 DEF ContentLen

LEMMA InitOK == Init => IInv
BY LengthsAssumption
   DEF Init, IInv, TypeOK, Stream, InOrder, Aligned, Buffer, BufferBounded, ParseAt, Command,
       ShortUpTo

LEMMA SendOK ==
  ASSUME IInv, NEW l \in 0 .. MaxContent, Send(l)
  PROVE  IInv'
<1> USE LengthsAssumption DEF IInv, Send
<1> DEFINE new == [at |-> wire, len |-> l]
<1>1. new \in Command /\ cmds' = Append(cmds, new) /\ Len(cmds') = Len(cmds) + 1
  BY DEF TypeOK, Command
<1>2. /\ DOMAIN cmds' = 1 .. Len(cmds) + 1 /\ DOMAIN cmds = 1 .. Len(cmds)
      /\ \A i \in DOMAIN cmds : cmds'[i] = cmds[i]
      /\ cmds'[Len(cmds) + 1] = new
      /\ \A i \in DOMAIN cmds : cmds[i] \in Command
  BY <1>1 DEF TypeOK
<1>2a. \A i \in DOMAIN cmds : cmds[i].at \in Nat /\ cmds[i].len \in Nat
  BY <1>2 DEF Command
<1>3. TypeOK'
  BY <1>1 DEF TypeOK
<1>4. Stream'
  <2>1. (\A i \in DOMAIN cmds : /\ cmds[i].len <= MaxContent
                                /\ cmds[i].at + HeaderLen + cmds[i].len <= wire)'
    BY <1>2, <1>2a DEF Stream, TypeOK
  <2>2. (\A i, j \in DOMAIN cmds :
           i < j => cmds[i].at + HeaderLen + cmds[i].len <= cmds[j].at)'
    <3> SUFFICES ASSUME NEW i \in DOMAIN cmds', NEW j \in DOMAIN cmds', i < j
                 PROVE  cmds'[i].at + HeaderLen + cmds'[i].len <= cmds'[j].at
      OBVIOUS
    <3>1. i \in DOMAIN cmds
      BY <1>2, <1>3 DEF TypeOK
    <3>2. CASE j \in DOMAIN cmds
      BY <3>1, <3>2, <1>2, <1>2a DEF Stream
    <3>3. CASE j = Len(cmds) + 1
      BY <3>1, <3>3, <1>2, <1>2a DEF Stream
    <3> QED BY <3>2, <3>3, <1>2
  <2>3. (\A i \in DOMAIN cmds :
           (i + 1) \in DOMAIN cmds => cmds[i + 1].at = cmds[i].at + HeaderLen + cmds[i].len)'
    <3> SUFFICES ASSUME NEW i \in DOMAIN cmds', (i + 1) \in DOMAIN cmds'
                 PROVE  cmds'[i + 1].at = cmds'[i].at + HeaderLen + cmds'[i].len
      OBVIOUS
    <3>1. i \in DOMAIN cmds /\ cmds'[i] = cmds[i]
      BY <1>2, <1>3 DEF TypeOK
    <3>2. CASE (i + 1) \in DOMAIN cmds
      BY <3>1, <3>2, <1>2, <1>2a DEF Stream
    <3>3. CASE i = Len(cmds)
      BY <3>1, <3>3, <1>2, <1>2a DEF Stream
    <3> QED BY <3>1, <3>2, <3>3, <1>2
  <2>4. (cmds # <<>> => wire = cmds[Len(cmds)].at + HeaderLen + cmds[Len(cmds)].len)'
    BY <1>1, <1>2 DEF TypeOK
  <2>5. (cmds = <<>> => wire = 0)'
    BY <1>1 DEF TypeOK
  <2> QED BY <2>1, <2>2, <2>3, <2>4, <2>5 DEF Stream
<1>4a. \A n \in Nat : ShortUpTo(n)' => ShortUpTo(n)
  BY <1>2 DEF ShortUpTo
<1>5. InOrder'
  <2> SUFFICES ASSUME NEW i \in DOMAIN handled, ShortUpTo(i - 1)'
               PROVE  /\ i \in DOMAIN cmds'
                      /\ handled[i] = [at |-> cmds'[i].at, len |-> cmds'[i].len % LengthMod]
    BY DEF InOrder
  <2>1. i - 1 \in Nat
    BY DEF TypeOK
  <2>2. ShortUpTo(i - 1)
    BY <2>1, <1>4a
  <2> QED BY <2>2, <1>2 DEF InOrder
<1>6. Aligned'
  <2> SUFFICES ASSUME ShortUpTo(Len(handled))
               PROVE  /\ Len(handled) <= Len(cmds')
                      /\ ParseAt = IF Len(handled) < Len(cmds') THEN cmds'[Len(handled) + 1].at
                                   ELSE wire'
    <3>1. Len(handled) \in Nat
      BY DEF TypeOK
    <3> QED BY <3>1, <1>4a DEF Aligned, ParseAt
  <2>0. Len(handled) <= Len(cmds) /\ Len(handled) \in Nat /\ Len(cmds) \in Nat
    BY DEF Aligned, TypeOK
  <2>1. CASE Len(handled) < Len(cmds)
    BY <2>0, <2>1, <1>1, <1>2 DEF Aligned
  <2>2. CASE Len(handled) = Len(cmds)
    BY <2>0, <2>2, <1>1, <1>2 DEF Aligned
  <2> QED BY <2>0, <2>1, <2>2
<1>7. Buffer' /\ BufferBounded'
  BY DEF Buffer, BufferBounded
<1> QED BY <1>3, <1>4, <1>5, <1>6, <1>7

LEMMA ReadOK ==
  ASSUME IInv, NEW n \in 1 .. MaxChunk, ReadCallback(n)
  PROVE  IInv'
<1> USE LengthsAssumption DEF IInv, ReadCallback
<1>1. TypeOK'
  BY DEF TypeOK
<1>2. Stream' /\ InOrder'
  BY DEF Stream, InOrder, ShortUpTo
<1>3. Aligned'
  BY DEF Aligned, ParseAt, Buffer, ShortUpTo
<1>4. Buffer' /\ BufferBounded'
  BY DEF Buffer, BufferBounded, TypeOK
<1> QED BY <1>1, <1>2, <1>3, <1>4

LEMMA ParseOK ==
  ASSUME IInv, NEW l \in 0 .. LengthMod - 1, ParseCommand(l)
  PROVE  IInv'
<1> USE LengthsAssumption DEF IInv, ParseCommand
<1> DEFINE k == Len(handled) + 1
<1>0. /\ Len(handled) \in Nat /\ Len(cmds) \in Nat
      /\ DOMAIN cmds = 1 .. Len(cmds) /\ DOMAIN handled = 1 .. Len(handled)
      /\ \A i \in DOMAIN cmds : cmds[i] \in Command /\ cmds[i].at \in Nat /\ cmds[i].len \in Nat
  <2>1. \A i \in DOMAIN cmds : cmds[i] \in Command /\ cmds[i].at \in Nat /\ cmds[i].len \in Nat
    BY CommandTypes
  <2> QED BY <2>1 DEF TypeOK
<1>1. ASSUME ShortUpTo(Len(handled))
      PROVE  k \in DOMAIN cmds /\ ParseAt = cmds[k].at /\ l = cmds[k].len % LengthMod
  <2>1. Len(handled) < Len(cmds)
    BY <1>0, <1>1 DEF Complete, nLength, ParseAt, Aligned, TypeOK
  <2>2. k \in DOMAIN cmds
    BY <1>0, <2>1
  <2>3. ParseAt = cmds[k].at
    BY <1>0, <1>1, <2>1 DEF Aligned
  <2> QED BY <2>2, <2>3, LengthRead
<1>2. [at |-> ParseAt, len |-> l] \in Command
  BY DEF Command, ParseAt, TypeOK
<1>3. /\ Len(handled') = k /\ DOMAIN handled' = 1 .. k
      /\ \A i \in DOMAIN handled : handled'[i] = handled[i]
      /\ handled'[k] = [at |-> ParseAt, len |-> l]
  BY <1>0, <1>2 DEF TypeOK
<1>4. TypeOK'
  BY <1>0, <1>2 DEF TypeOK
<1>5. Stream'
  BY DEF Stream
<1>6. InOrder'
  <2> SUFFICES ASSUME NEW i \in 1 .. k, ShortUpTo(i - 1)
               PROVE  /\ i \in DOMAIN cmds
                      /\ handled'[i] = [at |-> cmds[i].at, len |-> cmds[i].len % LengthMod]
    BY <1>3 DEF InOrder, ShortUpTo
  <2>1. CASE i = k
    BY <2>1, <1>0, <1>1, <1>3
  <2>2. CASE i \in DOMAIN handled
    BY <2>2, <1>3 DEF InOrder
  <2> QED BY <2>1, <2>2, <1>0
<1>7. Aligned'
  <2> SUFFICES ASSUME ShortUpTo(k)
               PROVE  /\ k <= Len(cmds)
                      /\ ParseAt' = IF k < Len(cmds) THEN cmds[k + 1].at ELSE wire
    BY <1>3 DEF Aligned, ShortUpTo
  <2>1. ShortUpTo(Len(handled))
    BY <1>0 DEF ShortUpTo
  <2>2. k \in DOMAIN cmds /\ k <= Len(cmds) /\ cmds[k].at \in Nat /\ cmds[k].len \in Nat
    BY <2>1, <1>0, <1>1
  <2>3. l = cmds[k].len
    BY <2>1, <2>2, <1>0, <1>1, Remainder DEF ShortUpTo
  <2>4. ParseAt' = cmds[k].at + HeaderLen + cmds[k].len
    <3>1. base \in Nat /\ totalUsedLen \in Nat /\ l \in Nat /\ HeaderLen \in Nat
      BY DEF TypeOK
    <3>2. base' = base /\ totalUsedLen' = totalUsedLen + HeaderLen + l
      OBVIOUS
    <3>3. base + totalUsedLen = cmds[k].at
      BY <2>1, <1>1 DEF ParseAt
    <3>4. QED
      <4> HIDE DEF IInv, ParseCommand, k
      <4> QED BY <3>1, <3>2, <3>3, <2>2, <2>3 DEF ParseAt
  <2>5. CASE k < Len(cmds)
    <3>1. k + 1 \in DOMAIN cmds
      BY <2>5, <1>0
    <3>2. cmds[k + 1].at = cmds[k].at + HeaderLen + cmds[k].len
      BY <3>1, <2>2 DEF Stream
    <3> HIDE DEF IInv, ParseCommand, k
    <3> QED BY <2>2, <2>4, <2>5, <3>2
  <2>6. CASE k = Len(cmds)
    <3>1. wire = cmds[k].at + HeaderLen + cmds[k].len
      BY <2>2, <2>6, <1>0 DEF Stream
    <3>2. ~(k < Len(cmds))
      BY <2>6, <1>0
    <3> HIDE DEF IInv, ParseCommand, k
    <3> QED BY <2>2, <2>4, <3>1, <3>2, Zenon
  <2>7. k < Len(cmds) \/ k = Len(cmds)
    <3> HIDE DEF IInv, ParseCommand, k
    <3>1. k \in Nat /\ Len(cmds) \in Nat /\ k <= Len(cmds)
      BY <2>2, <1>0
    <3> QED BY <3>1
  <2> QED BY <2>5, <2>6, <2>7, Zenon
<1>8. Buffer' /\ BufferBounded'
  BY DEF Buffer, BufferBounded, Complete, nLength, TypeOK
<1> QED BY <1>4, <1>5, <1>6, <1>7, <1>8

LEMMA EndsOK ==
  ASSUME IInv, HandleCommandEnds
  PROVE  IInv'
<1> USE LengthsAssumption DEF IInv, HandleCommandEnds
<1>1. TypeOK'
  BY DEF TypeOK, Buffer
<1>2. Stream' /\ InOrder'
  BY DEF Stream, InOrder, ShortUpTo
<1>3. Aligned'
  BY DEF Aligned, ParseAt, ShortUpTo, TypeOK
<1>4. Buffer'
  BY DEF Buffer
<1>5. nLength < HeaderLen + MaxContent
  <2>0. Len(handled) \in Nat /\ Len(cmds) \in Nat /\ DOMAIN cmds = 1 .. Len(cmds)
    BY DEF TypeOK
  <2>1. CASE ~MoreToParse
    BY <2>1 DEF MoreToParse, nLength, Buffer, TypeOK
  <2>2. ASSUME NEW l \in ContentLen(ParseAt), ~Complete(l), ShortUpTo(Len(handled)),
               Len(handled) < Len(cmds)
        PROVE  nLength < HeaderLen + MaxContent
    <3> DEFINE k == Len(handled) + 1
    <3>1. k \in DOMAIN cmds /\ cmds[k] \in Command /\ ParseAt = cmds[k].at
      <4>1. k \in DOMAIN cmds
        BY <2>0, <2>2
      <4>2. cmds[k] \in Command
        BY <4>1 DEF TypeOK
      <4>3. ParseAt = cmds[k].at
        BY <2>0, <2>2 DEF Aligned
      <4> QED BY <4>1, <4>2, <4>3
    <3>2. l = cmds[k].len % LengthMod
      BY <2>2, <3>1, LengthRead
    <3>3. cmds[k].len \in Nat /\ cmds[k].len <= MaxContent
      BY <3>1 DEF Stream, Command
    <3>4. l \in Nat /\ l <= MaxContent
      <4> HIDE DEF IInv, HandleCommandEnds, k
      <4> QED BY <3>2, <3>3, Remainder
    <3> QED BY <2>2, <3>4 DEF Complete, nLength, TypeOK
  <2>3. CASE ShortUpTo(Len(handled)) /\ ~(Len(handled) < Len(cmds))
    BY <2>3, <2>0 DEF Aligned, ParseAt, nLength, TypeOK
  <2>4. ASSUME NEW l \in ContentLen(ParseAt), ~Complete(l), ~ShortUpTo(Len(handled))
        PROVE  nLength < HeaderLen + MaxContent
    <3>1. LengthMod <= MaxContent
      <4>1. PICK j \in DOMAIN cmds : ~(cmds[j].len < LengthMod)
        BY <2>4 DEF ShortUpTo
      <4>2. cmds[j].len \in Nat /\ cmds[j].len <= MaxContent
        BY CommandTypes DEF Stream
      <4> QED BY <4>1, <4>2
    <3>2. l \in 0 .. LengthMod - 1
      <4>1. \A j \in DOMAIN cmds : cmds[j].len \in Nat
        BY CommandTypes
      <4> QED BY <2>4, <4>1 DEF ContentLen
    <3> QED BY <2>4, <3>1, <3>2 DEF Complete, nLength, TypeOK
  <2> QED BY <2>1, <2>2, <2>3, <2>4
<1>6. BufferBounded'
  BY <1>5 DEF BufferBounded, nLength, TypeOK
<1> QED BY <1>1, <1>2, <1>3, <1>4, <1>6

LEMMA StepOK == ASSUME IInv, [Next]_vars PROVE IInv'
<1>1. ASSUME NEW l \in 0 .. MaxContent, Send(l) PROVE IInv'
  BY <1>1, SendOK
<1>2. ASSUME NEW n \in 1 .. MaxChunk, ReadCallback(n) PROVE IInv'
  BY <1>2, ReadOK
<1>3. ASSUME NEW l \in 0 .. LengthMod - 1, ParseCommand(l) PROVE IInv'
  BY <1>3, ParseOK
<1>4. CASE HandleCommandEnds
  BY <1>4, EndsOK
<1>5. CASE UNCHANGED vars
  BY <1>5 DEF vars, IInv, TypeOK, Stream, InOrder, Aligned, Buffer, BufferBounded, ParseAt,
                   ShortUpTo
<1> QED BY <1>1, <1>2, <1>3, <1>4, <1>5 DEF Next, Read, Parse

-------------------------------------------------------------------------------
(***************************************************************************)
(* For every way the stream is split into pieces, handleCommand hands over *)
(* the commands that were sent, in order, up to the first content of 2^16  *)
(* bytes or more, and of that one the part that its length field says.     *)
(***************************************************************************)
THEOREM Framing == Spec => []InOrder
<1>1. IInv /\ [Next]_vars => IInv'
  BY StepOK
<1>2. IInv => InOrder
  BY DEF IInv
<1> QED BY InitOK, <1>1, <1>2, PTL DEF Spec

(***************************************************************************)
(* recvBuffer_ never keeps as much as the longest command between two      *)
(* reads, also after an overlong command, and no assertion of the handler  *)
(* fails.                                                                  *)
(***************************************************************************)
THEOREM BufferSafe == Spec => [](BufferBounded /\ AssertsHold)
<1>1. IInv /\ [Next]_vars => IInv'
  BY StepOK
<1>2. IInv => BufferBounded /\ AssertsHold
  BY LengthsAssumption DEF IInv, AssertsHold, Buffer, MoreToParse, nLength, TypeOK
<1> QED BY InitOK, <1>1, <1>2, PTL DEF Spec

-------------------------------------------------------------------------------
(* The connections below IceConnection *)

\* Every event of a peer that ends meets an early return of eventCallback.
LEMMA EndEventsReturn == \A what \in EndEvents : ReturnsEarly(what)
BY DEF EndEvents, ReturnsEarly, READING, WRITING

\* Only ends of connections are waiting to be reported.
EndsPending == pending \in [Conns -> EndEvents \cup {{}}]

(***************************************************************************)
(* A connection once accepted stays in connections_, so haveConnection     *)
(* also holds for the ones that are gone, and server_, which no            *)
(* constructor sets, is never followed: for any number of connections.     *)
(***************************************************************************)
THEOREM EndedStaysKnown == TcpSpec => []StaysKnown
<1> DEFINE TInv == EndsPending /\ StaysKnown /\ peer \in [Conns -> {"none", "up", "gone"}]
<1>1. TcpInit => TInv
  BY DEF TcpInit, EndsPending, StaysKnown
<1>2. TInv /\ [TcpNext]_tcpVars => TInv'
  <2> SUFFICES ASSUME TInv, [TcpNext]_tcpVars PROVE TInv'
    OBVIOUS
  <2>1. ASSUME NEW c \in Conns, NEW garbage \in {NULL, "wild"}, AcceptCallback(c, garbage)
        PROVE  TInv'
    BY <2>1 DEF AcceptCallback, haveConnection, EndsPending, StaysKnown
  <2>2. ASSUME NEW c \in Conns, NEW what \in EndEvents, PeerEnds(c, what)
        PROVE  TInv'
    BY <2>2 DEF PeerEnds, haveConnection, EndsPending, StaysKnown
  <2>3. ASSUME NEW c \in Conns, EventCallback(c) PROVE TInv'
    <3>1. ~Closes(c)
      BY <2>3, EndEventsReturn DEF EventCallback, EndsPending, Closes
    <3>2. ~fault' /\ connections' = connections
      BY <2>3, <3>1, Zenon DEF EventCallback, StaysKnown
    <3>3. pending' = [pending EXCEPT ![c] = {}] /\ peer' = peer
      BY <2>3 DEF EventCallback
    <3> QED BY <3>2, <3>3 DEF EndsPending, StaysKnown, haveConnection
  <2>4. CASE UNCHANGED tcpVars
    BY <2>4 DEF tcpVars, EndsPending, StaysKnown, haveConnection
  <2> QED BY <2>1, <2>2, <2>3, <2>4 DEF TcpNext
<1>3. TInv => StaysKnown
  OBVIOUS
<1> QED BY <1>1, <1>2, <1>3, PTL DEF TcpSpec
==============================================================================
