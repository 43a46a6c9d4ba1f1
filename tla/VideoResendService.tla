-------------------------- MODULE VideoResendService --------------------------
(***************************************************************************)
(* VideoResendService (MediaFilter.h): the last video packets sent to an   *)
(* xmpp client are kept, so that the client can ask for a range of         *)
(* sequence numbers again.                                                 *)
(*                                                                         *)
(* Packets are numbered 0, 1, 2, ... in the order the webrtc side made     *)
(* them; packet n carries the RTP sequence number n % SeqMod and is kept   *)
(* in the slot (n % SeqMod) % CacheSize.  The network loses, duplicates    *)
(* and reorders packets, a late one by less than the size of the cache.    *)
(*                                                                         *)
(* handle is followed through its loop, whose variable is a uint16_t.      *)
(***************************************************************************)
EXTENDS Naturals

CONSTANTS SeqMod,      \* 2^16
          CacheSize,   \* MAX_CACHE_RTP_PKT_COUNT
          None,        \* an empty slot
          MaxPacket    \* bound of the model: the last packet

\* As in the code, the numbers wrap around at a multiple of the cache size.
ASSUME SizesAssumption ==
  /\ CacheSize \in Nat \ {0} /\ SeqMod \in Nat \ {0} /\ SeqMod % CacheSize = 0
  /\ MaxPacket \in Nat /\ None \notin Nat

Packets == 0 .. MaxPacket
SeqNos == 0 .. SeqMod - 1
Slots == 0 .. CacheSize - 1

VARIABLES
  rtpPackages,       \* rtpPackages_: the packet in each slot, or None
  cached,            \* history: the packets that reached cacheData
  pc,                \* "idle", "resend" inside the loop of handle, "aborted"
  seq,               \* the loop variable of handle
  startSeq, endSeq,  \* the range asked for
  resent             \* history: the packets sent for this request

vars == <<rtpPackages, cached, pc, seq, startSeq, endSeq, resent>>

\* ntohs of the sequence number of packet n
sequence(n) == n % SeqMod

slot(s) == s % CacheSize

Init ==
  /\ rtpPackages = [i \in Slots |-> None]
  /\ cached = {}
  /\ pc = "idle"
  /\ seq = 0 /\ startSeq = 0 /\ endSeq = 0
  /\ resent = {}

-------------------------------------------------------------------------------
\* Mutant: a slot in use is not overwritten.
cacheDataOnce(n) ==
  rtpPackages' = [rtpPackages EXCEPT ![slot(sequence(n))] = IF @ = None THEN n ELSE @]

\* cacheData
cacheData(n) == rtpPackages' = [rtpPackages EXCEPT ![slot(sequence(n))] = n]

\* a packet from the webrtc side is cached before it is forwarded
WebrtcPacket(n) ==
  /\ pc = "idle"
  /\ \A m \in cached : m < n + CacheSize
  /\ cacheData(n)
  /\ cached' = cached \cup {n}
  /\ UNCHANGED <<pc, seq, startSeq, endSeq, resent>>

\* handle: a request, unless its range is rejected
HandleBegins(s, e) ==
  /\ pc = "idle"
  /\ s <= e
  /\ pc' = "resend"
  /\ seq' = s
  /\ startSeq' = s /\ endSeq' = e
  /\ resent' = {}
  /\ UNCHANGED <<rtpPackages, cached>>

\* Mutant: < instead of <=.
LoopGoesOnBelow == pc = "resend" /\ seq < endSeq

\* the loop condition of handle
LoopGoesOn == pc = "resend" /\ seq <= endSeq

\* assert(packet.size() >= 12) fails: nothing was ever cached in this slot
ResendAborts ==
  /\ LoopGoesOn
  /\ rtpPackages[slot(seq)] = None
  /\ pc' = "aborted"
  /\ UNCHANGED <<rtpPackages, cached, seq, startSeq, endSeq, resent>>

\* the packet in the slot is sent if it is the one asked for
ToSend(n) == IF sequence(n) = seq THEN {n} ELSE {}

\* Mutant: a packet that is not found is looked up again.
ResendStepRetries ==
  /\ LoopGoesOn
  /\ rtpPackages[slot(seq)] # None
  /\ resent' = resent \cup ToSend(rtpPackages[slot(seq)])
  /\ seq' = IF ToSend(rtpPackages[slot(seq)]) = {} THEN seq ELSE (seq + 1) % SeqMod
  /\ UNCHANGED <<rtpPackages, cached, pc, startSeq, endSeq>>

\* one round of the loop; seq++ is an increment of a uint16_t
ResendStep ==
  /\ LoopGoesOn
  /\ rtpPackages[slot(seq)] # None
  /\ resent' = resent \cup ToSend(rtpPackages[slot(seq)])
  /\ seq' = (seq + 1) % SeqMod
  /\ UNCHANGED <<rtpPackages, cached, pc, startSeq, endSeq>>

\* the loop ends, and with it the life of its variables
HandleReturns ==
  /\ pc = "resend"
  /\ ~LoopGoesOn
  /\ pc' = "idle"
  /\ seq' = 0 /\ startSeq' = 0 /\ endSeq' = 0
  /\ resent' = {}
  /\ UNCHANGED <<rtpPackages, cached>>

-------------------------------------------------------------------------------
Handle == ResendAborts \/ ResendStep \/ HandleReturns

Next ==
  \/ \E n \in Packets : WebrtcPacket(n)
  \/ \E s, e \in SeqNos : HandleBegins(s, e)
  \/ Handle

Spec == Init /\ [][Next]_vars

\* The loop thread keeps running the handler it is in.
FairSpec == Spec /\ WF_vars(Handle)

-------------------------------------------------------------------------------
(* Properties *)

\* The numbers of a request and of the loop that answers it fit 16 bits.
TypeOK ==
  /\ rtpPackages \in [Slots -> Packets \cup {None}]
  /\ cached \subseteq Packets
  /\ pc \in {"idle", "resend", "aborted"}
  /\ seq \in SeqNos /\ startSeq \in SeqNos /\ endSeq \in SeqNos
  /\ resent \subseteq Packets

\* Packets fewer than CacheSize numbers behind the newest one.
Recent(n) == \A m \in cached : m < n + CacheSize

(***************************************************************************)
(* A packet that reached the cache stays there until the stream is a cache *)
(* size ahead of it, across losses, duplicates, late packets and the wrap  *)
(* of the sequence numbers.                                                *)
(***************************************************************************)
RecentKept == \A n \in cached : Recent(n) => rtpPackages[slot(sequence(n))] = n

(***************************************************************************)
(* Only packets of the requested range are sent again - provided the range *)
(* does not end at the largest sequence number.                            *)
(***************************************************************************)
OnlyRequested ==
  endSeq # SeqMod - 1 => \A n \in resent : sequence(n) \in startSeq .. endSeq

(***************************************************************************)
(* When handle returns, every recent packet of the requested range was     *)
(* sent again.                                                             *)
(***************************************************************************)
RecentResent ==
  [][pc = "resend" /\ pc' = "idle" =>
       \A n \in cached : Recent(n) /\ sequence(n) \in startSeq .. endSeq => n \in resent]_vars

(***************************************************************************)
(* handle returns or aborts when the range ends below the largest sequence *)
(* number, and only then returns: the uint16_t of the loop cannot pass the *)
(* largest one, so that such a request ends in the assertion or never.     *)
(***************************************************************************)
ReturnsBelowTop ==
  /\ (pc = "resend" /\ endSeq # SeqMod - 1) ~> pc # "resend"
  /\ [][pc = "resend" /\ pc' = "idle" => endSeq # SeqMod - 1]_vars
==============================================================================
