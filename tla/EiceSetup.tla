------------------------------ MODULE EiceSetup ------------------------------
(***************************************************************************)
(* eice.cpp: how the two ends of a call are configured.  The caller makes  *)
(* its object and its local content; the callee makes its object from its  *)
(* own configuration and the caller's content and starts; its content goes *)
(* back and the caller starts (eice_new_caller, eice_new_callee,           *)
(* eice_caller_nego).  Which TURN server, which relay session and whether  *)
(* the relay is forced is settled on the way, on each side alone.          *)
(*                                                                         *)
(* A content is delivered as it was written; the contents of other         *)
(* programs are not modelled.  Addresses are reduced to whose they are and *)
(* their family, candidates to whether there are any.  What ipv4ToIpv6     *)
(* finds, and whether pjnath has candidates, is open at every call.        *)
(***************************************************************************)
EXTENDS Naturals

Peers == {"caller", "callee"}

Nobody == [of |-> "nobody", af |-> 4]
Families == {4, 6}
Address == [of : Peers \cup {"nobody"}, af : Families]

\* relayMS: the session number is 0 where the JSON value is null
NullRelay == [session |-> 0, for |-> {}]
Relay == [session : 0 .. 2, for : SUBSET Peers]

\* turnAddrs: null, an empty array, or addresses that one side has named
TurnAddrs == {"null", "empty"} \cup Peers

NoContent == [cands |-> FALSE, relay |-> NullRelay, turnAddrs |-> "null", force |-> FALSE]
Content == [cands : BOOLEAN, relay : Relay, turnAddrs : TurnAddrs, force : BOOLEAN]

VARIABLES
  given,        \* the configuration that the user passes
  phase,        \* how far the calls on each side are
  initDone,     \* ice_init_done
  af,           \* ice_cfg.af
  turnHost,     \* cfg->turn_host
  turnAddrs,    \* cfg->turnAddrs
  server,       \* bind_cfg: the first STUN server; Nobody where stun_serv_num is 0
  relayMs,      \* cfg->relay_ms with relay_caller and relay_callee
  force,        \* force_relay
  remoteForce,  \* remote_force_relay
  remoteCands,  \* remote_cand_count > 0, and so str_remote_ufrag is set
  content,      \* local_content
  confice,      \* sessionId of the relay object; 0 where there is none
  iceStarted,   \* the direct ICE session was started
  kicked        \* the caller selects the relay without waiting for ICE

settingVars == <<af, turnHost, turnAddrs, server, relayMs, force>>
remoteVars == <<remoteForce, remoteCands>>
startVars == <<confice, iceStarted, kicked>>
setupVars == <<given, phase, initDone, settingVars, remoteVars, content, startVars>>

\* a configuration; its relayMS names a relay channel for the sides in for
Given == [turnHost : BOOLEAN, turnAddrs : {"null", "empty", "some"}, hasRelay : BOOLEAN,
          for : SUBSET Peers]

SetupInit ==
  /\ given \in [Peers -> {g \in Given : g.for # {} => g.hasRelay}]
  /\ phase = [p \in Peers |-> "none"]
  /\ initDone = [p \in Peers |-> FALSE]
  /\ af = [p \in Peers |-> 4]
  /\ turnHost = [p \in Peers |-> Nobody]
  /\ turnAddrs = [p \in Peers |-> "null"]
  /\ server = [p \in Peers |-> Nobody]
  /\ relayMs = [p \in Peers |-> NullRelay]
  /\ force = [p \in Peers |-> FALSE]
  /\ remoteForce = [p \in Peers |-> FALSE]
  /\ remoteCands = [p \in Peers |-> FALSE]
  /\ content = [p \in Peers |-> NoContent]
  /\ confice = [p \in Peers |-> 0]
  /\ iceStarted = [p \in Peers |-> FALSE]
  /\ kicked = [p \in Peers |-> FALSE]

-------------------------------------------------------------------------------
(* parse_eice_config and parse_turn_config *)

Other(p) == CHOOSE q \in Peers : q # p

\* the array named in the configuration of p
ParsedAddrs(p) == IF given[p].turnAddrs = "some" THEN p ELSE given[p].turnAddrs

\* parse_turn_config: stun_serv_ips[0], as it was written
FirstServer(addrs) == IF addrs \in Peers THEN [of |-> addrs, af |-> 4] ELSE Nobody

\* turnHost, by default the first of turnAddrs; where ipv4ToIpv6 finds an IPv6 address for it
\* (or, without a host, for a fixed address) that is the family of the object
ParsedHost(p, family) ==
  IF given[p].turnHost \/ given[p].turnAddrs = "some"
    THEN [of |-> p, af |-> family]
    ELSE Nobody

\* relayMS with a session number taken from the clock
ParsedRelay(p) ==
  IF given[p].hasRelay
    THEN [session |-> IF p = "caller" THEN 1 ELSE 2, for |-> given[p].for]
    ELSE NullRelay

-------------------------------------------------------------------------------
(* parse_content: what a side takes over from the content c of the other *)

\* candidates, each with a component, a known type and an address in the host's family
RemoteCands(c) == c.cands

\* relayMS, if there was none so far
AdoptedRelay(own, c) == IF own.session = 0 THEN c.relay ELSE own

\* turnAddrs of a callee: cleared when the caller forces the relay, otherwise the caller's
AdoptedAddrs(own, c) ==
  CASE c.force /\ own # "null" -> "empty"
    [] ~c.force /\ c.turnAddrs # "null" -> c.turnAddrs
    [] OTHER -> own

AdoptedServer(own, c) ==
  CASE c.force -> Nobody
    [] ~c.force /\ c.turnAddrs # "null" -> FirstServer(c.turnAddrs)
    [] OTHER -> own

\* turn_host follows the first of the addresses; it is not converted to IPv6
AdoptedHost(own, c) ==
  CASE c.force -> Nobody
    [] ~c.force /\ c.turnAddrs \in Peers -> FirstServer(c.turnAddrs)
    [] OTHER -> own

-------------------------------------------------------------------------------
(* eice_new *)

\* the STUN server after _parse_remote: an IPv6 host tries ipv4ToIpv6 once more for it, and
\* keeps the IPv4 address where that fails
Converted(addr, family) ==
  IF addr # Nobody /\ family = 6 THEN {addr, [addr EXCEPT !.af = 6]} ELSE {addr}

\* nothing to find server reflexive candidates with: no host and stun_serv_num is 0
NoServer(host, addr) == host = Nobody /\ addr = Nobody

\* eice_new as far as the object of p is concerned, with the parsed settings
Made(p, family, host, addrs, addr, rel) ==
  /\ af' = [af EXCEPT ![p] = family]
  /\ turnHost' = [turnHost EXCEPT ![p] = host]
  /\ turnAddrs' = [turnAddrs EXCEPT ![p] = addrs]
  /\ \E bound \in Converted(addr, family) : server' = [server EXCEPT ![p] = bound]
  /\ relayMs' = [relayMs EXCEPT ![p] = rel]
  /\ force' = [force EXCEPT ![p] = NoServer(host, addr)]
  /\ phase' = [phase EXCEPT ![p] = "waiting"]

\* eice_new_caller: eice_new, then query_wait
NewCaller ==
  /\ phase["caller"] = "none"
  /\ \E family \in Families :
       Made("caller", family, ParsedHost("caller", family), ParsedAddrs("caller"),
            FirstServer(ParsedAddrs("caller")), ParsedRelay("caller"))
  /\ UNCHANGED <<given, initDone, remoteVars, content, startVars>>

\* eice_new_callee: eice_new with _parse_remote in it, then query_wait
NewCallee ==
  /\ phase["callee"] = "none"
  /\ phase["caller"] = "ready"
  /\ LET c == content["caller"]
     IN  /\ \E family \in Families :
              Made("callee", family, AdoptedHost(ParsedHost("callee", family), c),
                   AdoptedAddrs(ParsedAddrs("callee"), c),
                   AdoptedServer(FirstServer(ParsedAddrs("callee")), c),
                   AdoptedRelay(ParsedRelay("callee"), c))
         /\ remoteForce' = [remoteForce EXCEPT !["callee"] = c.force]
         /\ remoteCands' = [remoteCands EXCEPT !["callee"] = RemoteCands(c)]
  /\ UNCHANGED <<given, initDone, content, startVars>>

\* eice_new fails on the configuration, the content, a lock, a queue, a thread or ICE
NewFails(p) ==
  /\ phase[p] = "none"
  /\ p = "callee" => phase["caller"] = "ready"
  /\ phase' = [phase EXCEPT ![p] = "freed"]
  /\ UNCHANGED <<given, initDone, settingVars, remoteVars, content, startVars>>

\* cb_on_ice_complete for PJ_ICE_STRANS_OP_INIT, on the worker, with either status
InitDone(p) ==
  /\ phase[p] = "waiting" /\ ~initDone[p]
  /\ initDone' = [initDone EXCEPT ![p] = TRUE]
  /\ UNCHANGED <<given, phase, settingVars, remoteVars, content, startVars>>

\* query_wait returns 0
Waited(p) == phase[p] = "waiting" /\ initDone[p]

\* query_wait gives up after 30 s, or _get_local fails; eice_free
LocalFails(p) ==
  /\ phase[p] = "waiting"
  /\ phase' = [phase EXCEPT ![p] = "freed"]
  /\ UNCHANGED <<given, initDone, settingVars, remoteVars, content, startVars>>

\* eice_get_local: _get_local writes what candidates it gets, whatever ice_init_result is
GetLocal(p) ==
  /\ Waited(p)
  /\ \E cands \in BOOLEAN :
       content' = [content EXCEPT ![p] =
         [cands |-> cands, relay |-> relayMs[p], turnAddrs |-> turnAddrs[p], force |-> force[p]]]
  /\ phase' = [phase EXCEPT ![p] = "ready"]
  /\ UNCHANGED <<given, initDone, settingVars, remoteVars, startVars>>

-------------------------------------------------------------------------------
(* eice_start_nego: by the callee at once, by the caller with the answer *)

\* Mutant: the caller selects the relay at once only where it forces it itself.
SelectsAtOnceOwn(p, remote) == p = "caller" /\ force[p]

\* the relay is selected without waiting for the direct session
SelectsAtOnce(p, remote) == p = "caller" /\ (remote \/ force[p])

\* Mutant: a content is taken in where the object is made, and never again.
TakesInOnce(p) == ~remoteCands[p] /\ p = "callee"

\* _parse_remote takes a content in only while there are no candidates
TakesIn(p) == ~remoteCands[p]

\* parse_content once more in a callee whose caller has named no candidates
TakesInAgain(c) ==
  /\ turnHost' = [turnHost EXCEPT !["callee"] = AdoptedHost(@, c)]
  /\ turnAddrs' = [turnAddrs EXCEPT !["callee"] = AdoptedAddrs(@, c)]
  /\ server' = [server EXCEPT !["callee"] = AdoptedServer(@, c)]

\* _parse_remote, then the start of both paths
StartNego(p) ==
  /\ phase[p] = "ready"
  /\ p = "caller" => phase["callee"] = "started"
  /\ LET c == content[Other(p)]
         rel == IF TakesIn(p) THEN AdoptedRelay(relayMs[p], c) ELSE relayMs[p]
         cands == remoteCands[p] \/ RemoteCands(c)
         remote == IF TakesIn(p) THEN c.force ELSE remoteForce[p]
         conf == p \in rel.for
     IN  /\ IF TakesIn(p) /\ p = "callee" THEN TakesInAgain(c)
                                          ELSE UNCHANGED <<turnHost, turnAddrs, server>>
         /\ relayMs' = [relayMs EXCEPT ![p] = rel]
         /\ remoteCands' = [remoteCands EXCEPT ![p] = cands]
         /\ remoteForce' = [remoteForce EXCEPT ![p] = remote]
         /\ IF conf /\ ~cands
              THEN \* confice_new is given *str_remote_ufrag, a null pointer
                   /\ phase' = [phase EXCEPT ![p] = "crashed"]
                   /\ UNCHANGED startVars
              ELSE \* pj_ice_strans_start_ice refuses a peer without candidates: StartFails
                   /\ cands \/ force[p]
                   /\ phase' = [phase EXCEPT ![p] = "started"]
                   /\ confice' = [confice EXCEPT ![p] = IF conf THEN rel.session ELSE 0]
                   /\ iceStarted' = [iceStarted EXCEPT ![p] = ~force[p]]
                   /\ kicked' = [kicked EXCEPT ![p] = conf /\ SelectsAtOnce(p, remote)]
  /\ UNCHANGED <<given, initDone, af, force, content>>

\* confice_new or pj_ice_strans_start_ice fails; the callee is freed, the caller by its user
StartFails(p) ==
  /\ phase[p] = "ready"
  /\ p = "caller" => phase["callee"] = "started"
  /\ phase' = [phase EXCEPT ![p] = "freed"]
  /\ UNCHANGED <<given, initDone, settingVars, remoteVars, content, startVars>>

-------------------------------------------------------------------------------
SetupNext ==
  \/ NewCaller \/ NewCallee
  \/ \E p \in Peers : \/ NewFails(p) \/ InitDone(p) \/ LocalFails(p) \/ GetLocal(p)
                      \/ StartNego(p) \/ StartFails(p)

SetupSpec == SetupInit /\ [][SetupNext]_setupVars

-------------------------------------------------------------------------------
(* Properties *)

Exists(p) == phase[p] \in {"waiting", "ready", "started"}

\* The settings of both sides and what they tell each other have their types.
SetupTypeOK ==
  /\ given \in [Peers -> Given]
  /\ phase \in [Peers -> {"none", "waiting", "ready", "started", "freed", "crashed"}]
  /\ initDone \in [Peers -> BOOLEAN]
  /\ af \in [Peers -> Families]
  /\ turnHost \in [Peers -> Address]
  /\ turnAddrs \in [Peers -> TurnAddrs]
  /\ server \in [Peers -> Address]
  /\ relayMs \in [Peers -> Relay]
  /\ force \in [Peers -> BOOLEAN]
  /\ remoteForce \in [Peers -> BOOLEAN]
  /\ remoteCands \in [Peers -> BOOLEAN]
  /\ content \in [Peers -> Content]
  /\ confice \in [Peers -> 0 .. 2]
  /\ iceStarted \in [Peers -> BOOLEAN]
  /\ kicked \in [Peers -> BOOLEAN]

\* The relay that p is to use: its own, or the one that only the other side was given.
RelayOf(p) == IF given[p].hasRelay THEN ParsedRelay(p) ELSE ParsedRelay(Other(p))

(***************************************************************************)
(* A relay reaches both sides: whichever side was configured with it, each *)
(* side that it names and that has started has a relay object in its       *)
(* session, and no other side has one.  (Where both were configured with a *)
(* relay the sessions differ, and confice drops every packet of another    *)
(* session.)  A side reads the null user name of the other only where the  *)
(* relay names it and the other's content had no candidates.               *)
(***************************************************************************)
RelayReachesBoth ==
  \A p \in Peers :
    /\ phase[p] = "started" =>
         confice[p] = IF p \in RelayOf(p).for THEN RelayOf(p).session ELSE 0
    /\ phase[p] = "crashed" => p \in RelayOf(p).for /\ ~content[Other(p)].cands

(***************************************************************************)
(* A caller that forces the relay makes the callee force it, whatever the  *)
(* callee was configured with.  (The converse does not hold.)              *)
(***************************************************************************)
ForcedTogether == force["caller"] /\ Exists("callee") => force["callee"]

(***************************************************************************)
(* Once both have started, the caller selects the relay at once exactly    *)
(* when at least one side has no direct session: neither waits for a       *)
(* direct session that the other never started.                            *)
(***************************************************************************)
SelectsWhenNoDirect ==
  phase["caller"] = "started" /\ confice["caller"] # 0 =>
    (kicked["caller"] <=> \E p \in Peers : ~iceStarted[p])

(***************************************************************************)
(* Both sides agree on the paths: a caller that forces the relay makes the *)
(* callee force it, and the caller selects the relay at once exactly when  *)
(* one of them has no direct session.                                      *)
(***************************************************************************)
PathsAgree == ForcedTogether /\ SelectsWhenNoDirect
==============================================================================
