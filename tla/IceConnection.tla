---------------------------- MODULE IceConnection ----------------------------
(***************************************************************************)
(* IceConnection (IceConnection.cpp): cutting the byte stream of a CCS     *)
(* connection into commands.                                               *)
(*                                                                         *)
(* A command is a header of HeaderLen bytes, whose last field is the       *)
(* length of the content, followed by the content.  TCP delivers the       *)
(* stream in pieces of any size; Connection::readCallback hands pieces of  *)
(* at most MaxChunk bytes to handleCommand, which appends the piece to     *)
(* recvBuffer_ and runs parseCommand in a loop.                            *)
(*                                                                         *)
(* Bytes are named by their position in the stream: recvBuffer_ holds the  *)
(* positions base .. received-1, and command i occupies the bytes from     *)
(* cmds[i].at on.  The model follows handleCommand step by step, because   *)
(* its loop condition is what deserves attention.                          *)
(***************************************************************************)
EXTENDS Naturals, Sequences

CONSTANTS HeaderLen,    \* ICE_COMMAND_HEADER_LEN
          MaxChunk,     \* what readCallback reads at once
          LengthMod,    \* the length field is read modulo this (unsigned short)
          MaxContent,   \* the longest content the CCS sends
          MaxCommands   \* bound of the model: commands sent by the CCS

ASSUME LengthsAssumption ==
  /\ HeaderLen \in Nat \ {0} /\ MaxChunk \in Nat \ {0} /\ LengthMod \in Nat \ {0}
  /\ MaxContent \in Nat /\ MaxCommands \in Nat

VARIABLES
  cmds,          \* the commands the CCS has sent: position and content length
  wire,          \* bytes the CCS has sent
  received,      \* bytes appended to recvBuffer_ so far
  base,          \* position of the first byte of recvBuffer_
  dataLen,       \* handleCommand: size of the piece at hand
  totalUsedLen,  \* handleCommand: bytes of recvBuffer_ already parsed
  pc,            \* "idle", or "parse" inside handleCommand
  handled        \* history: the commands given to handleIceCommand

vars == <<cmds, wire, received, base, dataLen, totalUsedLen, pc, handled>>

Command == [at : Nat, len : Nat]

Init ==
  /\ cmds = <<>> /\ wire = 0
  /\ received = 0 /\ base = 0
  /\ dataLen = 0 /\ totalUsedLen = 0 /\ pc = "idle"
  /\ handled = <<>>

\* The CCS writes a command with a content of l bytes to its socket.
Send(l) ==
  /\ Len(cmds) < MaxCommands
  /\ cmds' = Append(cmds, [at |-> wire, len |-> l])
  /\ wire' = wire + HeaderLen + l
  /\ UNCHANGED <<received, base, dataLen, totalUsedLen, pc, handled>>

-------------------------------------------------------------------------------
\* Mutant: recvBuffer_ is replaced by the new piece instead of extended by it.
ReadCallbackAssigns(n) ==
  /\ pc = "idle"
  /\ received + n <= wire
  /\ base' = received
  /\ received' = received + n
  /\ dataLen' = n
  /\ totalUsedLen' = 0
  /\ pc' = "parse"
  /\ UNCHANGED <<cmds, wire, handled>>

\* readCallback reads n bytes, and handleCommand appends them to recvBuffer_
ReadCallback(n) ==
  /\ pc = "idle"
  /\ received + n <= wire
  /\ received' = received + n
  /\ dataLen' = n
  /\ totalUsedLen' = 0
  /\ pc' = "parse"
  /\ UNCHANGED <<cmds, wire, base, handled>>

\* recvBuffer_.size() - totalUsedLen: the bytes parseCommand is given
nLength == received - base - totalUsedLen

\* Where parseCommand looks for a header
ParseAt == base + totalUsedLen

\* What the length field of a header at position p may read: at the start of a
\* command the low 16 bits of its length, inside a command anything.
ContentLen(p) ==
  IF \E i \in DOMAIN cmds : cmds[i].at = p
    THEN {cmds[i].len % LengthMod : i \in {j \in DOMAIN cmds : cmds[j].at = p}}
    ELSE 0 .. LengthMod - 1

\* Mutant: one command per piece, as if the loop were an if.
MoreToParseOnce == dataLen > totalUsedLen /\ totalUsedLen = 0

\* Mutant: a piece not longer than a header is not looked at.
MoreToParseLongPiece == dataLen > totalUsedLen + HeaderLen

\* the loop condition: it compares with the size of the new piece
MoreToParse == dataLen > totalUsedLen

\* parseCommand succeeds: header and content are there
Complete(l) == HeaderLen <= nLength /\ l <= nLength - HeaderLen

\* parseCommand succeeds, and handleIceCommand gets the command
ParseCommand(l) ==
  /\ pc = "parse"
  /\ MoreToParse
  /\ l \in ContentLen(ParseAt)
  /\ Complete(l)
  /\ handled' = Append(handled, [at |-> ParseAt, len |-> l])
  /\ totalUsedLen' = totalUsedLen + HeaderLen + l
  /\ UNCHANGED <<cmds, wire, received, base, dataLen, pc>>

\* the loop ends; used bytes are removed from recvBuffer_
HandleCommandEnds ==
  /\ pc = "parse"
  /\ ~MoreToParse \/ \E l \in ContentLen(ParseAt) : ~Complete(l)
  /\ base' = base + totalUsedLen
  /\ totalUsedLen' = 0
  /\ dataLen' = 0
  /\ pc' = "idle"
  /\ UNCHANGED <<cmds, wire, received, handled>>

-------------------------------------------------------------------------------
Read == \E n \in 1 .. MaxChunk : ReadCallback(n)

Parse == (\E l \in 0 .. LengthMod - 1 : ParseCommand(l)) \/ HandleCommandEnds

Next == (\E l \in 0 .. MaxContent : Send(l)) \/ Read \/ Parse

Spec == Init /\ [][Next]_vars

\* The loop thread polls a readable socket and runs its callback to the end;
\* the CCS may stop sending at any time.
FairSpec == Spec /\ WF_vars(Read) /\ WF_vars(Parse)

-------------------------------------------------------------------------------
(* Properties *)

TypeOK ==
  /\ cmds \in Seq(Command) /\ handled \in Seq(Command)
  /\ wire \in Nat /\ received \in 0 .. wire /\ base \in 0 .. received
  /\ dataLen \in 0 .. MaxChunk /\ totalUsedLen \in Nat
  /\ pc \in {"idle", "parse"}

\* the first n commands are no longer than the length field can say
ShortUpTo(n) == \A j \in DOMAIN cmds : j <= n => cmds[j].len < LengthMod

(***************************************************************************)
(* Framing, as far as the 16 bits of the length reach: the commands handed *)
(* to handleIceCommand are the commands the CCS sent, in order, none       *)
(* skipped or repeated, however TCP splits and merges them, up to and with *)
(* the first one that is too long; that one is cut to the low bits of its  *)
(* length, and nothing is promised of what its rest is taken for.          *)
(***************************************************************************)
InOrder ==
  \A i \in DOMAIN handled : ShortUpTo(i - 1) =>
    /\ i \in DOMAIN cmds
    /\ handled[i] = [at |-> cmds[i].at, len |-> cmds[i].len % LengthMod]

(***************************************************************************)
(* The assertions of handleCommand and parseCommand: never is more used    *)
(* than the buffer holds, and parseCommand is never called without data.   *)
(***************************************************************************)
AssertsHold ==
  pc = "parse" => /\ totalUsedLen <= received - base
                  /\ MoreToParse => nLength > 0

(***************************************************************************)
(* What stays in recvBuffer_ between two reads is shorter than the longest *)
(* command - although the loop can stop before a complete command.         *)
(***************************************************************************)
BufferBounded == pc = "idle" => received - base < HeaderLen + MaxContent

(***************************************************************************)
(* A command with no overlong one before it reaches handleIceCommand at    *)
(* the latest when as many bytes as the longest command has were sent      *)
(* after it.                                                               *)
(***************************************************************************)
PushedOut ==
  \A i \in 1 .. MaxCommands :
    (i <= Len(cmds) /\ ShortUpTo(i - 1)
      /\ wire >= cmds[i].at + cmds[i].len + 2 * HeaderLen + MaxContent)
    ~> Len(handled) >= i
==============================================================================
