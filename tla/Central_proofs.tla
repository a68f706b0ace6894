---------------------------- MODULE Central_proofs -----------------------------
(***************************************************************************)
(* For every set of connection handles, of peripherals and of declared     *)
(* services, any length of the table and any bound: the variables keep     *)
(* their types; where only links that were reported are made, the table    *)
(* holds the links and the scan goes on while there is room; and with one  *)
(* link at a time what the library keeps of services, handles, buffers and *)
(* requests is of this link.                                               *)
(***************************************************************************)
EXTENDS Central, SequenceTheorems, FiniteSetTheorems, TLAPS

-------------------------------------------------------------------------------
(* Types. *)

\* Nothing is in progress on a link that is down.
SdTypes ==
    /\ link \in [Conns -> Peers \cup {NoPeer}]
    /\ queued \in [Conns -> 0 .. Capacity] /\ proc \in [Conns -> Procs]
    /\ confirming \subseteq up
    /\ \A h \in Conns \ up : queued[h] = 0 /\ proc[h] = NoProc

TableTypes ==
    /\ _connectionHandle \in [Slots -> Conns \cup {Invalid}]
    /\ _node \in [Slots -> Peers \cup {NoPeer}] /\ _tempNode \in Peers \cup {NoPeer}
    /\ _peripheralConnected \in 0 .. Byte - 1 /\ ending \in Conns \cup {Invalid}

RemoteTypes ==
    /\ ranges \in [Services -> Peers \cup {NoPeer}]
    /\ valueHandle \in [Services -> Peers \cup {NoPeer}]
    /\ connectionIndex \in [Services -> SUBSET Slots]
    /\ _remoteServiceDiscoveryIndex \in Nat
    /\ told \subseteq Conns

LocalTypes ==
    /\ _txBufferCount \in 0 .. Byte - 1
    /\ subscribed \in [Chars -> SUBSET Kinds]

TypeInv ==
    /\ SdTypes /\ TableTypes /\ RemoteTypes /\ LocalTypes
    /\ radio \in Radios /\ evts \in Seq(Events)
    /\ setup \in Setups /\ unreported \in Int

FlagTypes ==
    /\ cccd \in [Conns -> [Chars -> SUBSET Kinds]]
    /\ _status \in {"SCANNING", "CONNECT", "DISCONNECT"}
    /\ {_remoteRequestInProgress, shared, commanded, overheard} \subseteq BOOLEAN

LEMMA TypesShown == TypeInv /\ FlagTypes /\ unreported \in Nat => TypeOK
  BY DEF TypeInv, FlagTypes, TypeOK, SdTypes, TableTypes, RemoteTypes, LocalTypes

LEMMA Facts ==
    /\ Capacity \in Nat /\ Byte \in Nat /\ Capacity < Byte /\ 1 < Byte
    /\ MAX_PERIPHERAL \in Nat /\ MAX_PERIPHERAL < Byte
    /\ Invalid \notin Conns /\ NoPeer \notin Peers
    /\ NumServices \in Nat /\ Services \subseteq Nat
  BY CentralAssumption DEF Services

LEMMA SetupFacts ==
    ASSUME setup \in Setups
    PROVE  /\ setup.allowed \in Nat /\ 1 <= setup.allowed
           /\ setup.allowed <= MAX_PERIPHERAL
           /\ setup.services \subseteq Services /\ setup.chars \subseteq Chars
           /\ table \subseteq Slots /\ 0 \in table /\ setup.allowed \in Slots
           /\ setup.allowed \notin table
  BY CentralAssumption DEF table, _allowedPeripherals, Slots

\* The least element of a set of natural numbers.
LEMMA MinIsLeast ==
    ASSUME NEW S \in SUBSET Nat, S # {}
    PROVE  Min(S) \in S /\ \A x \in S : Min(S) <= x
<1> DEFINE R == OpToRel(<, Nat)
<1>1. \E m \in S : \A x \in S : ~ (<<x, m>> \in R)
  <2>1. IsWellFoundedOn(R, Nat)
    BY NatLessThanWellFounded
  <2> HIDE DEF R
  <2> QED
    BY <2>1, WFMin
<1>2. \A x, m \in S : <<x, m>> \notin R => m <= x
  BY DEF OpToRel
<1>3. \E m \in S : \A x \in S : m <= x
  BY <1>1, <1>2
<1> QED
  BY <1>3 DEF Min

\* The search finds the handle in the table, or ends at the slot behind it.
LEMMA SlotFound ==
    ASSUME setup \in Setups, NEW h
    PROVE  /\ slotOf(h) \in Slots
           /\ \/ slotOf(h) \in table /\ _connectionHandle[slotOf(h)] = h
              \/ slotOf(h) = setup.allowed /\ \A s \in table : _connectionHandle[s] # h
           /\ \A s \in table : _connectionHandle[s] = h => slotOf(h) <= s
<1> DEFINE S == {s \in table : _connectionHandle[s] = h} \cup {setup.allowed}
<1>1. S \in SUBSET Nat /\ S # {} /\ setup.allowed \in S
  BY SetupFacts, Facts DEF Slots
<1>2. slotOf(h) = Min(S)
  BY DEF slotOf, _allowedPeripherals
<1>3. Min(S) \in S /\ \A x \in S : Min(S) <= x
  BY <1>1, MinIsLeast
<1>4. \A s \in table : s < setup.allowed
  BY SetupFacts DEF table, _allowedPeripherals
<1>5. CASE Min(S) \in table
  BY <1>2, <1>3, <1>4, <1>5, SetupFacts
<1>6. CASE Min(S) \notin table
  <2>1. Min(S) = setup.allowed
    BY <1>3, <1>6
  <2>2. \A s \in table : _connectionHandle[s] # h
    <3> SUFFICES ASSUME NEW s \in table, _connectionHandle[s] = h PROVE FALSE
      OBVIOUS
    <3>1. s \in S /\ s \in Nat
      BY SetupFacts, Facts DEF Slots
    <3> QED
      BY <1>3, <1>4, <2>1, <3>1, SetupFacts
  <2> QED
    BY <1>2, <2>1, <2>2, SetupFacts
<1>7. \A s \in table : _connectionHandle[s] = h => slotOf(h) <= s
  BY <1>2, <1>3
<1> QED
  BY <1>5, <1>6, <1>7

\* The first slot.
LEMMA FirstSlot ==
    ASSUME setup \in Setups, NEW h, _connectionHandle[0] = h
    PROVE  slotOf(h) = 0
<1>1. slotOf(h) \in Nat /\ slotOf(h) <= 0
  BY SlotFound, SetupFacts, Facts DEF Slots
<1> QED
  BY <1>1

-------------------------------------------------------------------------------
(* The events that wait. *)

\* An event is added at the end.
LEMMA Raised ==
    ASSUME evts \in Seq(Events), NEW e \in Events, raise(e)
    PROVE  /\ evts' \in Seq(Events) /\ Len(evts) \in Nat /\ Len(evts') = Len(evts) + 1
           /\ DOMAIN evts = 1 .. Len(evts) /\ DOMAIN evts' = 1 .. Len(evts) + 1
           /\ \A k \in 1 .. Len(evts) : evts'[k] = evts[k]
           /\ evts'[Len(evts) + 1] = e
  BY AppendProperties DEF raise

\* The first event is taken.
LEMMA Polled ==
    ASSUME evts \in Seq(Events), NEW ev, polls(ev)
    PROVE  /\ evts' \in Seq(Events) /\ Len(evts) \in Nat \ {0}
           /\ Len(evts') = Len(evts) - 1
           /\ DOMAIN evts = 1 .. Len(evts) /\ DOMAIN evts' = 1 .. Len(evts) - 1
           /\ \A k \in 1 .. Len(evts) - 1 : evts'[k] = evts[k + 1]
           /\ Head(evts) = evts[1] /\ evts[1] \in Events /\ evts[1].ev = ev
           /\ link' = link /\ setup' = setup /\ cccd' = cccd /\ ending = Invalid
<1>1. evts # <<>> /\ evts' = Tail(evts) /\ Head(evts).ev = ev
  BY DEF polls
<1>2. /\ Head(evts) \in Events /\ Tail(evts) \in Seq(Events)
      /\ Len(Tail(evts)) = Len(evts) - 1
      /\ \A k \in 1 .. Len(Tail(evts)) : Tail(evts)[k] = evts[k + 1]
  BY <1>1, HeadTailProperties
<1>3. Len(evts) \in Nat \ {0} /\ DOMAIN evts = 1 .. Len(evts) /\ Head(evts) = evts[1]
  BY <1>1
<1> QED
  BY <1>1, <1>2, <1>3, LenProperties DEF polls

LEMMA EventFacts ==
    ASSUME NEW e \in Events
    PROVE  /\ e.ev # "adv_report" => e.conn \in Conns
           /\ e.ev \in {"adv_report", "connected", "disconnected", "services", "characteristics"}
                => e.peer \in Peers
           /\ e.ev = "tx_complete" => e.count \in 1 .. Capacity
           /\ e.ev = "write_cccd" => e.char \in Chars /\ e.value \in Cccd
           /\ e.ev \in {"services", "characteristics"} =>
                /\ e.status \in Statuses
                /\ e.found \subseteq Services /\ e.todo \subseteq Services
                /\ e.status = "end" => e.found = {} /\ e.todo = {}
  BY DEF Events, Answers

LEMMA ProcFacts ==
    ASSUME NEW q \in Procs
    PROVE  /\ q.op \in {"services", "characteristics"} => q \in Discoveries
           /\ q.op = "request" => q \in Requests
           /\ q # NoProc => q.op \in {"services", "characteristics", "request"}
           /\ q = NoProc => q.op = "none"
  BY DEF Procs, Discoveries, Requests, NoProc

-------------------------------------------------------------------------------
(* Type correctness. *)

LEMMA StartedType ==
    ASSUME SdTypes, NEW h, NEW q \in Discoveries
    PROVE  /\ started(h, q) \in [Conns -> Procs]
           /\ \A g \in Conns \ up : started(h, q)[g] = NoProc
           /\ \A g \in Conns : started(h, q)[g] = IF g = h /\ h \in up /\ proc[h] = NoProc
                                                  THEN q ELSE proc[g]
<1>1. q \in Procs
  BY DEF Procs
<1>2. proc \in [Conns -> Procs] /\ up \subseteq Conns
  BY DEF SdTypes, up
<1>3. CASE h \in up /\ proc[h] = NoProc
  BY <1>1, <1>2, <1>3 DEF started, SdTypes
<1>4. CASE ~ (h \in up /\ proc[h] = NoProc)
  BY <1>2, <1>4 DEF started, SdTypes
<1> QED
  BY <1>3, <1>4

LEMMA DiscoveryType ==
    ASSUME NEW op \in {"services", "characteristics"}, NEW i \in Nat,
           NEW todo \in SUBSET Services
    PROVE  discovery(op, i, todo) \in Discoveries
  BY DEF discovery, Discoveries

LEMMA InitType == Init => TypeInv
<1> SUFFICES ASSUME Init PROVE TypeInv
  OBVIOUS
<1> USE Facts DEF Init
<1>1. SdTypes
  BY DEF SdTypes, Procs, up
<1>2. TableTypes
  BY DEF TableTypes
<1>3. RemoteTypes
  BY DEF RemoteTypes
<1>4. LocalTypes
  BY DEF LocalTypes
<1> QED
  BY <1>1, <1>2, <1>3, <1>4 DEF TypeInv, Radios

LEMMA AnswerRaised ==
    ASSUME TypeInv, NEW h \in Conns, NEW status \in Statuses, NEW found \in SUBSET Services,
           SdDiscovered(h, status, found)
    PROVE  \E e \in Events :
             /\ raise(e)
             /\ e.ev = proc[h].op /\ proc[h] \in Discoveries /\ h \in up
             /\ e.conn = h /\ e.peer = link[h] /\ e.found \cup e.todo = proc[h].todo
<1> DEFINE e == [ev |-> proc[h].op, conn |-> h, peer |-> link[h], status |-> status,
                 found |-> found, todo |-> proc[h].todo \ found]
<1> USE DEF TypeInv
<1>1. /\ proc[h].op \in {"services", "characteristics"}
      /\ found \subseteq proc[h].todo /\ (status = "success" <=> found # {})
      /\ (status = "end" => proc[h].todo = {}) /\ raise(e)
  BY DEF SdDiscovered
<1>2. proc[h] \in Discoveries /\ h \in up
  BY <1>1, ProcFacts DEF SdTypes
<1>3. proc[h].todo \in SUBSET Services /\ link[h] \in Peers
  BY <1>2 DEF Discoveries, SdTypes, up
<1>4. e \in Events
  <2>1. status = "end" => e.found = {} /\ e.todo = {}
    BY <1>1
  <2> QED
    BY <1>1, <1>3, <2>1 DEF Events, Answers
<1> QED
  BY <1>1, <1>2, <1>4

\* The links, the packets and the procedures, when the SoftDevice changes them.
LEMMA SdStepType ==
    ASSUME TypeInv, SoftDevice
    PROVE  /\ SdTypes' /\ evts' \in Seq(Events) /\ radio' \in Radios
           /\ UNCHANGED libVars /\ unreported' \in Int
<1> DEFINE Typed == /\ SdTypes' /\ evts' \in Seq(Events) /\ radio' \in Radios
                    /\ UNCHANGED libVars /\ unreported' \in Int
<1> USE Facts DEF TypeInv
<1>1. ASSUME NEW p \in Peers, SdReport(p) PROVE Typed
  <2>1. [ev |-> "adv_report", conn |-> Invalid, peer |-> p] \in Events
    BY DEF Events
  <2> QED
    BY <1>1, <2>1, Raised DEF SdReport, sdVars, history, SdTypes, up
<1>2. ASSUME NEW h \in Conns, SdConnect(h) PROVE Typed
  <2>1. radio.peer \in Peers
    BY <1>2 DEF SdConnect, Radios, Quiet, Scanning, Reaching
  <2>2. [ev |-> "connected", conn |-> h, peer |-> radio.peer] \in Events
    BY <2>1 DEF Events
  <2>3. evts' \in Seq(Events)
    BY <1>2, <2>2, Raised DEF SdConnect
  <2>4. up' = up \cup {h} /\ h \notin up
    BY <1>2, <2>1 DEF SdConnect, up, SdTypes
  <2>5. SdTypes'
    BY <1>2, <2>1, <2>4 DEF SdConnect, SdTypes
  <2> QED
    BY <1>2, <2>3, <2>5 DEF SdConnect, Radios
<1>3. ASSUME NEW h \in Conns, SdDisconnect(h) PROVE Typed
  <2>1. link[h] \in Peers
    BY <1>3 DEF SdDisconnect, up, SdTypes
  <2>2. [ev |-> "disconnected", conn |-> h, peer |-> link[h]] \in Events
    BY <2>1 DEF Events
  <2>3. evts' \in Seq(Events)
    BY <1>3, <2>2, Raised DEF SdDisconnect
  <2>4. up' = up \ {h}
    BY <1>3 DEF SdDisconnect, up, SdTypes
  <2>5. NoProc \in Procs /\ 0 \in 0 .. Capacity
    BY DEF Procs
  <2>6. SdTypes'
    BY <1>3, <2>4, <2>5 DEF SdDisconnect, SdTypes
  <2> QED
    BY <1>3, <2>3, <2>6 DEF SdDisconnect, history
<1>4. ASSUME NEW h \in Conns, SdConfirmed(h) PROVE Typed
  BY <1>4 DEF SdConfirmed, history, SdTypes, up
<1>5. ASSUME NEW h \in Conns, SdResponse(h) PROVE Typed
  <2>1. [ev |-> "response", conn |-> h] \in Events
    BY DEF Events
  <2>2. evts' \in Seq(Events)
    BY <1>5, <2>1, Raised DEF SdResponse
  <2>3. SdTypes'
    BY <1>5 DEF SdResponse, SdTypes, Procs, up
  <2> QED
    BY <1>5, <2>2, <2>3 DEF SdResponse, history
<1>6. ASSUME NEW h \in Conns, NEW n \in 1 .. queued[h], SdSent(h, n) PROVE Typed
  <2>1. queued[h] \in 0 .. Capacity /\ n \in 1 .. Capacity /\ queued[h] - n \in 0 .. Capacity
    BY DEF SdTypes
  <2>2. [ev |-> "tx_complete", conn |-> h, count |-> n] \in Events
    BY <2>1 DEF Events
  <2>3. evts' \in Seq(Events)
    BY <1>6, <2>2, Raised DEF SdSent
  <2>4. h \in up
    BY <2>1 DEF SdTypes
  <2>5. SdTypes'
    BY <1>6, <2>1, <2>4 DEF SdSent, SdTypes, up
  <2> QED
    BY <1>6, <2>1, <2>3, <2>5 DEF SdSent
<1>7. ASSUME NEW h \in Conns, NEW c \in setup.chars, NEW v \in Cccd, SdWriteCccd(h, c, v) PROVE Typed
  <2>1. [ev |-> "write_cccd", conn |-> h, char |-> c, value |-> v] \in Events
    BY SetupFacts DEF Events
  <2>2. evts' \in Seq(Events)
    BY <1>7, <2>1, Raised DEF SdWriteCccd
  <2> QED
    BY <1>7, <2>2 DEF SdWriteCccd, history, SdTypes, up
<1>8. ASSUME NEW h \in Conns, NEW status \in Statuses, NEW found \in SUBSET Services,
             SdDiscovered(h, status, found)
      PROVE  Typed
  <2>1. PICK e \in Events : raise(e)
    BY <1>8, AnswerRaised
  <2>2. evts' \in Seq(Events)
    BY <2>1, Raised
  <2>3. SdTypes'
    BY <1>8 DEF SdDiscovered, SdTypes, Procs, up
  <2> QED
    BY <1>8, <2>2, <2>3 DEF SdDiscovered, history
<1> QED
  BY <1>1, <1>2, <1>3, <1>4, <1>5, <1>6, <1>7, <1>8 DEF SoftDevice, Statuses

LEMMA RadioType ==
    ASSUME TypeInv
    PROVE  /\ scanStarted(radio) \in Radios
           /\ \A p \in Peers : connectStarted(radio, p) \in Radios
  BY DEF TypeInv, Radios, scanStarted, connectStarted

LEMMA CharacteristicsType ==
    ASSUME SdTypes, NEW i \in Services, NEW h, NEW p, NEW x \in characteristicsOf(i, h, p)
    PROVE  \E todo \in SUBSET Services :
                /\ x = started(h, discovery("characteristics", i, todo))
                /\ ranges[i] = p => todo = {i}
                /\ discovery("characteristics", i, todo) \in Discoveries
<1>1. PICK todo \in SUBSET Services : /\ x = started(h, discovery("characteristics", i, todo))
                                      /\ ranges[i] = p => todo = {i}
  BY DEF characteristicsOf
<1> QED
  BY <1>1, DiscoveryType, Facts

\* proc', where a handled event at most begins a procedure.
ProcTyped ==
    /\ proc' \in [Conns -> Procs]
    /\ \A g \in Conns \ up : proc'[g] = NoProc

LEMMA ProcKept == ASSUME SdTypes, proc' = proc PROVE ProcTyped
  BY DEF SdTypes, ProcTyped

LEMMA ProcStarted ==
    ASSUME SdTypes, NEW h, NEW q \in Discoveries, proc' = started(h, q)
    PROVE  ProcTyped
  BY StartedType DEF ProcTyped

\* poll() changes nothing of the links and the packets.
LEMMA PollSdTypes ==
    ASSUME SdTypes, NEW ev, polls(ev), UNCHANGED <<queued, confirming>>, ProcTyped
    PROVE  SdTypes'
<1>1. link' = link /\ up' = up
  BY DEF polls, up
<1> QED
  BY <1>1 DEF SdTypes, ProcTyped

LEMMA TableStepType ==
    ASSUME TypeInv, PollConnected \/ PollDisconnected
    PROVE  /\ SdTypes' /\ TableTypes' /\ RemoteTypes' /\ LocalTypes' /\ radio' \in Radios
<1> USE Facts DEF TypeInv
<1>1. CASE PollConnected
  <2> DEFINE h == Head(evts).conn  s == slotOf(Invalid)
             q == discovery("services", 0, Has[Head(evts).peer] \cap setup.services)
  <2>1. h \in Conns /\ Head(evts).peer \in Peers
    BY <1>1, Polled, EventFacts DEF PollConnected
  <2>2. q \in Discoveries
    BY <2>1, SetupFacts, DiscoveryType, CentralAssumption
  <2>3. s \in Slots
    BY SlotFound
  <2>4. /\ polls("connected") /\ UNCHANGED <<queued, confirming, ending, _tempNode, remoteVars, subscribed>>
        /\ proc' = IF setup.services # {} THEN started(h, q) ELSE proc
        /\ _connectionHandle' = [_connectionHandle EXCEPT ![s] = h]
        /\ _node' = [_node EXCEPT ![s] = _tempNode]
        /\ _txBufferCount' \in 0 .. Byte - 1
        /\ _peripheralConnected' = (_peripheralConnected + 1) % Byte
        /\ radio' = IF scansOn(_peripheralConnected') THEN scanStarted(radio) ELSE radio
    BY <1>1 DEF PollConnected
  <2> HIDE DEF q, h, s
  <2>5. ProcTyped
    BY <2>2, <2>4, ProcStarted, ProcKept
  <2>6. SdTypes'
    BY <2>4, <2>5, PollSdTypes
  <2>7. _peripheralConnected' \in 0 .. Byte - 1
    BY <2>4 DEF TableTypes
  <2>8. TableTypes'
    BY <2>1, <2>3, <2>4, <2>7 DEF TableTypes, h, s
  <2>9. RemoteTypes' /\ LocalTypes'
    BY <2>4 DEF remoteVars, RemoteTypes, LocalTypes
  <2> QED
    BY <2>4, <2>6, <2>8, <2>9, RadioType
<1>2. CASE PollDisconnected
  <2> DEFINE s == slotOf(Head(evts).conn)
  <2>1. s \in Slots
    BY SlotFound
  <2>2. /\ polls("disconnected")
        /\ UNCHANGED <<radio, queued, confirming, proc, _node, _tempNode, remoteVars, subscribed>>
        /\ _connectionHandle' = [_connectionHandle EXCEPT ![s] = Invalid]
        /\ _txBufferCount' = 0 /\ ending' = Head(evts).conn
        /\ _peripheralConnected' = (_peripheralConnected - 1) % Byte
    BY <1>2 DEF PollDisconnected
  <2> HIDE DEF s
  <2>3. SdTypes'
    BY <2>2, ProcKept, PollSdTypes
  <2>4. _peripheralConnected' \in 0 .. Byte - 1 /\ ending' \in Conns
    BY <2>2, Polled, EventFacts DEF TableTypes
  <2>5. TableTypes'
    BY <2>1, <2>2, <2>4 DEF TableTypes
  <2>6. RemoteTypes' /\ LocalTypes'
    BY <2>2 DEF remoteVars, RemoteTypes, LocalTypes
  <2> QED
    BY <2>2, <2>3, <2>5, <2>6
<1> QED
  BY <1>1, <1>2

LEMMA KnownIndex ==
    ASSUME NEW S \in SUBSET Services, S # {}
    PROVE  Min(S) \in S /\ Min(S) \in Services /\ Min(S) \in Nat /\ \A i \in S : Min(S) <= i
  BY MinIsLeast, Facts

LEMMA DiscoveryStepType ==
    ASSUME TypeInv, PollServices \/ PollCharacteristics
    PROVE  /\ SdTypes' /\ TableTypes' /\ RemoteTypes' /\ LocalTypes' /\ radio' \in Radios
<1> USE Facts DEF TypeInv
<1> DEFINE e == Head(evts)
           h == _connectionHandle[slotOf(e.conn)]
<1>1. CASE PollServices
  <2>1. /\ polls("services") /\ UNCHANGED <<queued, confirming, radio, tableVars, _tempNode,
                                            valueHandle, connectionIndex, told, localVars>>
    BY <1>1 DEF PollServices
  <2>2. e.peer \in Peers /\ e.todo \in SUBSET Services
    BY <2>1, Polled, EventFacts
  <2>3. /\ ProcTyped /\ ranges' \in [Services -> Peers \cup {NoPeer}]
        /\ _remoteServiceDiscoveryIndex' \in Nat
    <3>1. CASE /\ proc' = started(h, discovery("services", 0, e.todo))
               /\ ranges' = [i \in Services |-> IF i \in e.found THEN e.peer ELSE ranges[i]]
               /\ UNCHANGED _remoteServiceDiscoveryIndex
      <4> DEFINE q == discovery("services", 0, e.todo)
      <4>1. q \in Discoveries
        BY <2>2, DiscoveryType
      <4> HIDE DEF q
      <4>2. ProcTyped
        BY <3>1, <4>1, ProcStarted DEF q
      <4> QED
        BY <2>2, <3>1, <4>2 DEF RemoteTypes
    <3>2. CASE UNCHANGED <<proc, ranges, _remoteServiceDiscoveryIndex>>
      BY <3>2, ProcKept DEF RemoteTypes
    <3>3. ASSUME NEW found \in SUBSET Services, found # {}, UNCHANGED ranges,
                 _remoteServiceDiscoveryIndex' = Min(found),
                 proc' \in characteristicsOf(Min(found), h, e.peer)
          PROVE  /\ ProcTyped /\ ranges' \in [Services -> Peers \cup {NoPeer}]
                 /\ _remoteServiceDiscoveryIndex' \in Nat
      <4>1. Min(found) \in Services /\ Min(found) \in Nat
        BY <3>3, KnownIndex
      <4>2. PICK todo \in SUBSET Services :
                /\ proc' = started(h, discovery("characteristics", Min(found), todo))
                /\ discovery("characteristics", Min(found), todo) \in Discoveries
        BY <3>3, <4>1, CharacteristicsType
      <4> QED
        BY <3>3, <4>1, <4>2, ProcStarted DEF RemoteTypes
    <3>4. {i \in Services : known(i)} \in SUBSET Services
      OBVIOUS
    <3> QED
      BY <1>1, <3>1, <3>2, <3>3, <3>4 DEF PollServices
  <2>4. SdTypes'
    BY <2>1, <2>3, PollSdTypes
  <2> QED
    BY <2>1, <2>3, <2>4 DEF TableTypes, RemoteTypes, LocalTypes, tableVars, localVars
<1>2. CASE PollCharacteristics
  <2> DEFINE index == _remoteServiceDiscoveryIndex
             s == slotOf(e.conn)
  <2>1. /\ polls("characteristics") /\ UNCHANGED <<queued, confirming, radio, tableVars, _tempNode,
                                                   ranges, localVars>>
    BY <1>2 DEF PollCharacteristics
  <2>2. e.peer \in Peers /\ e.todo \in SUBSET Services /\ e.conn \in Conns
    BY <2>1, Polled, EventFacts
  <2>3. s \in Slots
    BY SlotFound
  <2>4. laterServices(index) \in SUBSET Services
    BY DEF laterServices
  <2>5. /\ ProcTyped /\ valueHandle' \in [Services -> Peers \cup {NoPeer}]
        /\ connectionIndex' \in [Services -> SUBSET Slots]
        /\ _remoteServiceDiscoveryIndex' \in Nat /\ told' \subseteq Conns
    <3>1. CASE /\ proc' = IF known(index)
                          THEN started(h, discovery("characteristics", index, e.todo)) ELSE proc
               /\ valueHandle' = [i \in Services |-> IF i \in e.found \cap {index} THEN e.peer
                                                     ELSE valueHandle[i]]
               /\ connectionIndex' = [i \in Services |-> IF i \in e.found \cap {index}
                                                         THEN connectionIndex[i] \cup {s}
                                                         ELSE connectionIndex[i]]
               /\ UNCHANGED <<_remoteServiceDiscoveryIndex, told>>
      <4> DEFINE q == discovery("characteristics", index, e.todo)
      <4>1. q \in Discoveries
        BY <2>2, DiscoveryType DEF RemoteTypes
      <4>2. proc' = started(h, q) \/ proc' = proc
        BY <3>1
      <4> HIDE DEF q, s, h
      <4>3. ProcTyped
        BY <4>1, <4>2, ProcStarted, ProcKept
      <4>4. connectionIndex' \in [Services -> SUBSET Slots]
        BY <2>3, <3>1 DEF RemoteTypes
      <4> QED
        BY <2>2, <3>1, <4>3, <4>4 DEF RemoteTypes
    <3>2. CASE /\ UNCHANGED <<proc, valueHandle, connectionIndex, _remoteServiceDiscoveryIndex>>
               /\ told' = told \/ told' = told \cup {e.conn}
      BY <2>2, <3>2, ProcKept DEF RemoteTypes
    <3>3. ASSUME NEW later \in SUBSET Services, later # {},
                 UNCHANGED <<valueHandle, connectionIndex, told>>,
                 _remoteServiceDiscoveryIndex' = Min(later),
                 proc' \in characteristicsOf(Min(later), h, e.peer)
          PROVE  /\ ProcTyped /\ valueHandle' \in [Services -> Peers \cup {NoPeer}]
                 /\ connectionIndex' \in [Services -> SUBSET Slots]
                 /\ _remoteServiceDiscoveryIndex' \in Nat /\ told' \subseteq Conns
      <4>1. Min(later) \in Services /\ Min(later) \in Nat
        BY <3>3, KnownIndex
      <4>2. PICK todo \in SUBSET Services :
                /\ proc' = started(h, discovery("characteristics", Min(later), todo))
                /\ discovery("characteristics", Min(later), todo) \in Discoveries
        BY <3>3, <4>1, CharacteristicsType
      <4> QED
        BY <3>3, <4>1, <4>2, ProcStarted DEF RemoteTypes
    <3> QED
      BY <1>2, <2>4, <3>1, <3>2, <3>3 DEF PollCharacteristics
  <2>6. SdTypes'
    BY <2>1, <2>5, PollSdTypes
  <2> QED
    BY <2>1, <2>5, <2>6 DEF TableTypes, RemoteTypes, LocalTypes, tableVars, localVars
<1> QED
  BY <1>1, <1>2

LEMMA ForgetType ==
    ASSUME TypeInv, PollForget
    PROVE  TypeInv'
<1> USE DEF TypeInv
<1>1. /\ UNCHANGED <<sdVars, evts, setup, _connectionHandle, _node, _peripheralConnected, _tempNode,
                     connectionIndex, _remoteServiceDiscoveryIndex, localVars, unreported>>
      /\ ranges' = [i \in Services |-> NoPeer] /\ told' \subseteq told /\ ending' = Invalid
      /\ valueHandle' = handlesAfter(_peripheralConnected) /\ radio' = scanStarted(radio)
  BY DEF PollForget, history
<1>2. SdTypes' /\ TableTypes' /\ LocalTypes'
  BY <1>1 DEF sdVars, localVars, SdTypes, TableTypes, LocalTypes, up
<1>3. valueHandle' \in [Services -> Peers \cup {NoPeer}]
  BY <1>1 DEF handlesAfter, RemoteTypes
<1>4. RemoteTypes'
  BY <1>1, <1>3 DEF RemoteTypes
<1> QED
  BY <1>1, <1>2, <1>4, RadioType

LEMMA PollStepType ==
    ASSUME TypeInv, Poll
    PROVE  TypeInv'
<1> USE Facts DEF TypeInv
<1> SUFFICES ASSUME ~ PollForget PROVE TypeInv'
  BY ForgetType
<1>1. /\ SdTypes' /\ TableTypes' /\ RemoteTypes' /\ LocalTypes' /\ radio' \in Radios
  <2>1. ASSUME NEW connects \in BOOLEAN, PollAdvReport(connects)
        PROVE  /\ SdTypes' /\ TableTypes' /\ RemoteTypes' /\ LocalTypes' /\ radio' \in Radios
    <3>1. Head(evts).peer \in Peers
      BY <2>1, Polled, EventFacts DEF PollAdvReport
    <3>2. SdTypes'
      BY <2>1, ProcKept, PollSdTypes DEF PollAdvReport
    <3> QED
      BY <2>1, <3>1, <3>2, RadioType
         DEF PollAdvReport, tableVars, remoteVars, localVars, TableTypes, RemoteTypes, LocalTypes
  <2>2. CASE PollTxComplete
    <3>1. Head(evts).count \in 1 .. Capacity
      BY <2>2, Polled, EventFacts DEF PollTxComplete
    <3>2. _txBufferCount' \in 0 .. Byte - 1
      BY <2>2, <3>1 DEF PollTxComplete, LocalTypes
    <3>3. SdTypes'
      BY <2>2, ProcKept, PollSdTypes DEF PollTxComplete
    <3> QED
      BY <2>2, <3>2, <3>3 DEF PollTxComplete, tableVars, remoteVars, TableTypes, RemoteTypes, LocalTypes
  <2>3. CASE PollWriteCccd
    <3>1. Head(evts).char \in Chars /\ Head(evts).value \in SUBSET Kinds
      BY <2>3, Polled, EventFacts, CentralAssumption DEF PollWriteCccd
    <3>2. SdTypes'
      BY <2>3, ProcKept, PollSdTypes DEF PollWriteCccd
    <3> QED
      BY <2>3, <3>1, <3>2 DEF PollWriteCccd, tableVars, remoteVars, TableTypes, RemoteTypes, LocalTypes
  <2>4. CASE PollResponse
    <3>1. SdTypes'
      BY <2>4, ProcKept, PollSdTypes DEF PollResponse
    <3> QED
      BY <2>4, <3>1 DEF PollResponse, tableVars, remoteVars, localVars, TableTypes, RemoteTypes, LocalTypes
  <2> QED
    BY <2>1, <2>2, <2>3, <2>4, TableStepType, DiscoveryStepType DEF Poll
<1>2. \E ev : polls(ev)
  BY DEF Poll, PollAdvReport, PollConnected, PollDisconnected, PollTxComplete, PollWriteCccd,
         PollServices, PollCharacteristics, PollResponse
<1>3. PICK ev : polls(ev)
  BY <1>2
<1>4. evts' \in Seq(Events) /\ setup' = setup
  BY <1>3, Polled
<1>5. unreported' \in Int
  BY <1>3, Polled, EventFacts DEF polls
<1> QED
  BY <1>1, <1>4, <1>5

LEMMA SketchStepType ==
    ASSUME TypeInv, Sketch
    PROVE  TypeInv'
<1> USE Facts DEF TypeInv
<1>1. CASE Stray
  <2>1. Quiet \in Radios
    BY DEF Radios
  <2> QED
    BY <1>1, <2>1, RadioType
       DEF Stray, sdVars, libVars, history, tableVars, remoteVars, localVars,
           SdTypes, TableTypes, RemoteTypes, LocalTypes, up
<1>2. ASSUME NEW c \in setup.chars, SetValue(c)
      PROVE  TypeInv'
  <2>1. _txBufferCount' \in 0 .. Byte - 1
    BY <1>2 DEF SetValue, notifies, oneLess, LocalTypes
  <2>2. queued' \in [Conns -> 0 .. Capacity] /\ \A h \in Conns : queued'[h] # queued[h] => h \in up
    BY <1>2 DEF SetValue, takesHvx, SdTypes
  <2>3. confirming' \subseteq up
    BY <1>2 DEF SetValue, takesHvx, SdTypes
  <2>4. UNCHANGED <<radio, link, proc, evts, setup, tableVars, _tempNode, remoteVars, subscribed, history>>
    BY <1>2 DEF SetValue
  <2>5. SdTypes'
    BY <2>2, <2>3, <2>4 DEF SdTypes, up
  <2> QED
    BY <2>1, <2>4, <2>5 DEF tableVars, remoteVars, history, TableTypes, RemoteTypes, LocalTypes
<1>3. ASSUME NEW i \in setup.services, NEW operation, Request(i, operation)
      PROVE  TypeInv'
  <2>1. valueHandle[i] \in Peers /\ i \in Services
    BY <1>3, SetupFacts DEF Request, discovered, RemoteTypes
  <2>2. [op |-> "request", service |-> i, handle |-> valueHandle[i]] \in Procs
    BY <2>1 DEF Procs, Requests
  <2>3. /\ proc' \in [Conns -> Procs] /\ queued' \in [Conns -> 0 .. Capacity]
        /\ \A h \in Conns \ up : proc'[h] = proc[h] /\ queued'[h] = queued[h]
    <3>1. CASE /\ proc' = [h \in Conns |->
                             IF h \in asked(i) /\ proc[h] = NoProc
                             THEN [op |-> "request", service |-> i, handle |-> valueHandle[i]]
                             ELSE proc[h]]
               /\ UNCHANGED queued
      BY <2>2, <3>1 DEF asked, SdTypes
    <3>2. CASE /\ queued' = [h \in Conns |-> IF h \in asked(i) /\ queued[h] < Capacity
                                             THEN queued[h] + 1 ELSE queued[h]]
               /\ UNCHANGED proc
      BY <3>2 DEF asked, SdTypes
    <3> QED
      BY <1>3, <3>1, <3>2 DEF Request
  <2>4. UNCHANGED <<radio, link, confirming, evts, setup, tableVars, _tempNode, remoteVars,
                    localVars, unreported>>
    BY <1>3 DEF Request
  <2>5. SdTypes'
    BY <2>3, <2>4 DEF SdTypes, up
  <2> QED
    BY <2>4, <2>5 DEF tableVars, remoteVars, localVars, TableTypes, RemoteTypes, LocalTypes
<1> QED
  BY <1>1, <1>2, <1>3 DEF Sketch

LEMMA TypeStep == TypeInv /\ [Next]_vars => TypeInv'
<1> SUFFICES ASSUME TypeInv, [Next]_vars PROVE TypeInv'
  OBVIOUS
<1>1. CASE SoftDevice
  BY <1>1, SdStepType
     DEF libVars, tableVars, remoteVars, localVars, TypeInv, TableTypes, RemoteTypes, LocalTypes
<1>2. CASE UNCHANGED vars
  BY <1>2 DEF vars, sdVars, libVars, tableVars, remoteVars, localVars, history,
              TypeInv, SdTypes, TableTypes, RemoteTypes, LocalTypes, up
<1> QED
  BY <1>1, <1>2, PollStepType, SketchStepType DEF Next

LEMMA TypeInvariance == Spec => []TypeInv
  BY InitType, TypeStep, PTL DEF Spec

\* The CCCDs, status() and the flags.
LEMMA FlagStep == TypeInv /\ FlagTypes /\ [Next]_vars => FlagTypes'
<1> SUFFICES ASSUME TypeInv, FlagTypes, [Next]_vars PROVE FlagTypes'
  OBVIOUS
<1> USE DEF FlagTypes
<1>1. CASE SoftDevice
  <2>1. UNCHANGED <<_status, _remoteRequestInProgress>>
    BY <1>1, SdStepType DEF libVars, tableVars
  <2>2. ASSUME NEW h \in Conns, SdConnect(h) PROVE FlagTypes'
    <3>1. [c \in Chars |-> {}] \in [Chars -> SUBSET Kinds]
      OBVIOUS
    <3>2. cccd' \in [Conns -> [Chars -> SUBSET Kinds]]
      BY <2>2, <3>1 DEF SdConnect
    <3>3. shared' \in BOOLEAN /\ UNCHANGED <<commanded, overheard>>
      BY <2>2 DEF SdConnect
    <3> QED
      BY <2>1, <3>2, <3>3
  <2>3. ASSUME NEW h \in Conns, NEW c \in setup.chars, NEW v \in Cccd, SdWriteCccd(h, c, v)
        PROVE  FlagTypes'
    <3>1. c \in Chars /\ v \in SUBSET Kinds
      BY SetupFacts, CentralAssumption DEF TypeInv
    <3>2. cccd' \in [Conns -> [Chars -> SUBSET Kinds]] /\ UNCHANGED <<shared, commanded, overheard>>
      BY <2>3, <3>1 DEF SdWriteCccd, history
    <3> QED
      BY <2>1, <3>2
  <2>4. ASSUME UNCHANGED <<cccd, shared, commanded, overheard>> PROVE FlagTypes'
    BY <2>1, <2>4
  <2>5. ASSUME NEW h \in Conns, NEW status, NEW found, SdDiscovered(h, status, found)
        PROVE  FlagTypes'
    BY <2>4, <2>5 DEF SdDiscovered, history
  <2>6. ASSUME NEW h \in Conns, NEW n, SdSent(h, n) PROVE FlagTypes'
    BY <2>4, <2>6 DEF SdSent
  <2>7. ASSUME NEW h \in Conns, SdDisconnect(h) \/ SdConfirmed(h) \/ SdResponse(h) PROVE FlagTypes'
    BY <2>4, <2>7 DEF SdDisconnect, SdConfirmed, SdResponse, history
  <2>8. ASSUME NEW p \in Peers, SdReport(p) PROVE FlagTypes'
    BY <2>4, <2>8 DEF SdReport, sdVars, history
  <2> QED
    BY <1>1, <2>2, <2>3, <2>5, <2>6, <2>7, <2>8 DEF SoftDevice
<1>2. CASE Poll
  <2>1. ASSUME NEW connects, PollAdvReport(connects) PROVE FlagTypes'
    <3>1. overheard' \in BOOLEAN
      BY <2>1 DEF PollAdvReport
    <3> QED
      BY <2>1, <3>1 DEF PollAdvReport, polls, tableVars
  <2>2. CASE PollForget
    BY <2>2 DEF PollForget, sdVars, history
  <2>3. CASE PollConnected \/ PollDisconnected
    BY <2>3 DEF PollConnected, PollDisconnected, polls
  <2>4. CASE PollTxComplete \/ PollWriteCccd \/ PollResponse
    BY <2>4 DEF PollTxComplete, PollWriteCccd, PollResponse, polls, tableVars
  <2>5. CASE PollServices \/ PollCharacteristics
    BY <2>5 DEF PollServices, PollCharacteristics, polls, tableVars
  <2> QED
    BY <1>2, <2>1, <2>2, <2>3, <2>4, <2>5 DEF Poll
<1>3. CASE Sketch
  BY <1>3 DEF Sketch, Stray, SetValue, Request, sdVars, libVars, tableVars, history
<1>4. CASE UNCHANGED vars
  BY <1>4 DEF vars, sdVars, libVars, tableVars, history
<1> QED
  BY <1>1, <1>2, <1>3, <1>4 DEF Next

-------------------------------------------------------------------------------
(* The packets that TX_COMPLETE events will give back. *)

given(e) == IF e.ev = "tx_complete" THEN e.count ELSE 0

\* left[k]: those reported by the events behind the first k.
Left(left) ==
    /\ left \in [Nat -> Nat] /\ left[0] = unreported
    /\ \A k \in DOMAIN evts : left[k] = left[k - 1] - given(evts[k])
    /\ \A k \in 0 .. Len(evts) :
         (\A j \in DOMAIN evts : j > k => evts[j].ev # "tx_complete") => left[k] = 0

CountInv == \E left : Left(left)

LEMMA Given == ASSUME NEW e \in Events PROVE given(e) \in Nat
  BY EventFacts, Facts DEF given

LEMMA LeftNone ==
    ASSUME NEW left, Left(left), Len(evts) \in Nat, DOMAIN evts = 1 .. Len(evts)
    PROVE  left[Len(evts)] = 0
<1>1. Len(evts) \in 0 .. Len(evts) /\ \A j \in DOMAIN evts : ~ (j > Len(evts))
  OBVIOUS
<1>2. \A k \in 0 .. Len(evts) :
        (\A j \in DOMAIN evts : j > k => evts[j].ev # "tx_complete") => left[k] = 0
  BY DEF Left
<1> QED
  BY <1>1, <1>2

LEMMA LeftOne ==
    ASSUME NEW left, Left(left), 1 \in DOMAIN evts
    PROVE  left[1] = left[0] - given(evts[1])
<1>1. \A k \in DOMAIN evts : left[k] = left[k - 1] - given(evts[k])
  BY DEF Left
<1>2. left[1] = left[1 - 1] - given(evts[1])
  BY <1>1
<1> QED
  BY <1>2

LEMMA CountRaised ==
    ASSUME TypeInv, CountInv, NEW e \in Events, raise(e), unreported' = unreported + given(e)
    PROVE  CountInv'
<1>1. PICK left : Left(left)
  BY DEF CountInv
<1>2. PICK n \in Nat : n = given(e)
  BY Given
<1>3. /\ Len(evts) \in Nat /\ Len(evts') = Len(evts) + 1
      /\ DOMAIN evts = 1 .. Len(evts) /\ DOMAIN evts' = 1 .. Len(evts) + 1
      /\ \A k \in 1 .. Len(evts) : evts'[k] = evts[k]
      /\ evts'[Len(evts) + 1] = e
  BY Raised DEF TypeInv
<1>4. left \in [Nat -> Nat] /\ left[0] = unreported
  BY <1>1 DEF Left
<1>5. left[Len(evts)] = 0
  BY <1>1, <1>3, LeftNone
<1>6. PICK more : more = [k \in Nat |-> IF k <= Len(evts) THEN left[k] + n ELSE 0]
  OBVIOUS
<1>7. more \in [Nat -> Nat] /\ more[0] = unreported'
  <2>1. \A k \in Nat : left[k] + n \in Nat
    BY <1>4
  <2>2. 0 \in Nat /\ 0 <= Len(evts)
    BY <1>3
  <2>3. more \in [Nat -> Nat] /\ more[0] = left[0] + n
    BY <1>6, <2>1, <2>2
  <2> QED
    BY <1>2, <1>4, <2>3
<1>8. ASSUME NEW k \in DOMAIN evts' PROVE more[k] = more[k - 1] - given(evts'[k])
  <2>1. CASE k <= Len(evts)
    <3>1. k \in DOMAIN evts /\ evts'[k] = evts[k] /\ k - 1 \in Nat /\ k \in Nat
      BY <1>3, <2>1
    <3>2. left[k] = left[k - 1] - given(evts[k])
      BY <1>1, <3>1 DEF Left
    <3>3. given(evts[k]) \in Nat
      BY <1>3, <3>1, Given, ElementOfSeq DEF TypeInv
    <3>4. more[k] = left[k] + n /\ more[k - 1] = left[k - 1] + n
      BY <1>3, <1>6, <2>1, <3>1
    <3> QED
      BY <1>2, <1>4, <3>1, <3>2, <3>3, <3>4
  <2>2. CASE k = Len(evts) + 1
    <3>1. more[k] = 0 /\ more[k - 1] = left[Len(evts)] + n /\ evts'[k] = e
      BY <1>3, <1>6, <2>2
    <3> QED
      BY <1>2, <1>5, <3>1
  <2> QED
    BY <1>3, <2>1, <2>2
<1>9. ASSUME NEW k \in 0 .. Len(evts'),
             \A j \in DOMAIN evts' : j > k => evts'[j].ev # "tx_complete"
      PROVE  more[k] = 0
  <2>1. CASE k <= Len(evts)
    <3>1. e.ev # "tx_complete"
      BY <1>3, <1>9, <2>1
    <3>2. \A j \in DOMAIN evts : j > k => evts[j].ev # "tx_complete"
      BY <1>3, <1>9
    <3>3. left[k] = 0
      BY <1>1, <1>3, <2>1, <3>2 DEF Left
    <3> QED
      BY <1>2, <1>3, <1>6, <2>1, <3>1, <3>3 DEF given
  <2>2. CASE k > Len(evts)
    BY <1>3, <1>6, <2>2
  <2> QED
    BY <1>3, <2>1, <2>2
<1>10. Left(more)'
  BY <1>7, <1>8, <1>9 DEF Left
<1> QED
  BY <1>10 DEF CountInv

LEMMA CountPolled ==
    ASSUME TypeInv, CountInv, NEW ev, polls(ev)
    PROVE  CountInv'
<1>1. PICK left : Left(left)
  BY DEF CountInv
<1>0. PICK rest : rest = [k \in Nat |-> left[k + 1]]
  OBVIOUS
<1>2. /\ Len(evts) \in Nat \ {0} /\ Len(evts') = Len(evts) - 1
      /\ DOMAIN evts = 1 .. Len(evts) /\ DOMAIN evts' = 1 .. Len(evts) - 1
      /\ \A k \in 1 .. Len(evts) - 1 : evts'[k] = evts[k + 1]
      /\ Head(evts) = evts[1] /\ evts[1].ev = ev
  BY Polled DEF TypeInv
<1>3. left \in [Nat -> Nat] /\ left[0] = unreported
  BY <1>1 DEF Left
<1>4. rest \in [Nat -> Nat]
  BY <1>0, <1>3
<1>5. rest[0] = unreported'
  <2>1. left[1] = left[0] - given(evts[1])
    BY <1>1, <1>2, LeftOne
  <2>2. unreported' = unreported - given(evts[1])
    <3>1. unreported' = IF ev = "tx_complete" THEN unreported - Head(evts).count ELSE unreported
      BY DEF polls
    <3>2. unreported \in Nat
      BY <1>3
    <3> QED
      BY <1>2, <3>1, <3>2 DEF given
  <2> QED
    BY <1>0, <1>3, <2>1, <2>2
<1>6. ASSUME NEW k \in DOMAIN evts' PROVE rest[k] = rest[k - 1] - given(evts'[k])
  <2>1. k + 1 \in DOMAIN evts /\ evts'[k] = evts[k + 1] /\ k \in Nat /\ k - 1 \in Nat
    BY <1>2
  <2>2. left[k + 1] = left[k + 1 - 1] - given(evts[k + 1])
    <3>1. \A m \in DOMAIN evts : left[m] = left[m - 1] - given(evts[m])
      BY <1>1 DEF Left
    <3> QED
      BY <2>1, <3>1
  <2>3. rest[k] = left[k + 1] /\ rest[k - 1] = left[k - 1 + 1]
    BY <1>0, <2>1
  <2>4. k - 1 + 1 = k /\ k + 1 - 1 = k
    BY <2>1
  <2> QED
    BY <2>1, <2>2, <2>3, <2>4
<1>7. ASSUME NEW k \in 0 .. Len(evts'),
             \A j \in DOMAIN evts' : j > k => evts'[j].ev # "tx_complete"
      PROVE  rest[k] = 0
  <2>1. ASSUME NEW j \in DOMAIN evts, j > k + 1 PROVE evts[j].ev # "tx_complete"
    <3>1. j - 1 \in DOMAIN evts' /\ j - 1 > k /\ evts'[j - 1] = evts[j]
      BY <1>2, <2>1
    <3> QED
      BY <1>7, <3>1
  <2>2. k + 1 \in 0 .. Len(evts)
    BY <1>2
  <2>3. left[k + 1] = 0
    BY <1>1, <2>1, <2>2 DEF Left
  <2> QED
    BY <1>0, <1>2, <2>3
<1>8. Left(rest)'
  BY <1>4, <1>5, <1>6, <1>7 DEF Left
<1> QED
  BY <1>8 DEF CountInv

LEMMA CountStep == TypeInv /\ CountInv /\ [Next]_vars => CountInv'
<1> SUFFICES ASSUME TypeInv, CountInv, [Next]_vars PROVE CountInv'
  OBVIOUS
<1> USE DEF TypeInv
<1>0. ASSUME UNCHANGED <<evts, unreported>> PROVE CountInv'
  <2>1. PICK left : Left(left)
    BY DEF CountInv
  <2>2. Left(left)'
    BY <1>0, <2>1 DEF Left
  <2> QED
    BY <2>2 DEF CountInv
<1>1. CASE SoftDevice
  <2>1. ASSUME NEW p \in Peers, SdReport(p) PROVE CountInv'
    <3> DEFINE e == [ev |-> "adv_report", conn |-> Invalid, peer |-> p]
    <3>1. e \in Events /\ given(e) = 0 /\ raise(e)
      BY <2>1 DEF Events, given, SdReport
    <3> QED
      BY <2>1, <3>1, CountRaised DEF SdReport, history
  <2>2. ASSUME NEW h \in Conns, SdConnect(h) PROVE CountInv'
    <3> DEFINE e == [ev |-> "connected", conn |-> h, peer |-> radio.peer]
    <3>1. e \in Events /\ given(e) = 0 /\ raise(e)
      BY <2>2 DEF Events, given, SdConnect, Radios, Quiet, Scanning, Reaching
    <3> QED
      BY <2>2, <3>1, CountRaised DEF SdConnect
  <2>3. ASSUME NEW h \in Conns, SdDisconnect(h) PROVE CountInv'
    <3> DEFINE e == [ev |-> "disconnected", conn |-> h, peer |-> link[h]]
    <3>1. e \in Events /\ given(e) = 0 /\ raise(e)
      BY <2>3 DEF Events, given, SdDisconnect, SdTypes, up
    <3> QED
      BY <2>3, <3>1, CountRaised DEF SdDisconnect, history
  <2>4. ASSUME NEW h \in Conns, SdConfirmed(h) PROVE CountInv'
    BY <1>0, <2>4 DEF SdConfirmed, history
  <2>5. ASSUME NEW h \in Conns, SdResponse(h) PROVE CountInv'
    <3> DEFINE e == [ev |-> "response", conn |-> h]
    <3>1. e \in Events /\ given(e) = 0 /\ raise(e)
      BY <2>5 DEF Events, given, SdResponse
    <3> QED
      BY <2>5, <3>1, CountRaised DEF SdResponse, history
  <2>6. ASSUME NEW h \in Conns, NEW n \in 1 .. queued[h], SdSent(h, n) PROVE CountInv'
    <3> DEFINE e == [ev |-> "tx_complete", conn |-> h, count |-> n]
    <3>1. n \in 1 .. Capacity
      BY Facts DEF SdTypes
    <3>2. e \in Events /\ given(e) = n /\ raise(e)
      BY <2>6, <3>1 DEF Events, given, SdSent
    <3> QED
      BY <2>6, <3>2, CountRaised DEF SdSent
  <2>7. ASSUME NEW h \in Conns, NEW c \in setup.chars, NEW v \in Cccd, SdWriteCccd(h, c, v)
        PROVE  CountInv'
    <3> DEFINE e == [ev |-> "write_cccd", conn |-> h, char |-> c, value |-> v]
    <3>1. e \in Events /\ given(e) = 0 /\ raise(e)
      BY <2>7, SetupFacts DEF Events, given, SdWriteCccd
    <3> QED
      BY <2>7, <3>1, CountRaised DEF SdWriteCccd, history
  <2>8. ASSUME NEW h \in Conns, NEW status \in Statuses, NEW found \in SUBSET Services,
               SdDiscovered(h, status, found)
        PROVE  CountInv'
    <3>1. PICK e \in Events : raise(e) /\ e.ev = proc[h].op
      BY <2>8, AnswerRaised
    <3>2. given(e) = 0
      BY <2>8, <3>1 DEF given, SdDiscovered
    <3> QED
      BY <2>8, <3>1, <3>2, CountRaised DEF SdDiscovered, history
  <2> QED
    BY <1>1, <2>1, <2>2, <2>3, <2>4, <2>5, <2>6, <2>7, <2>8 DEF SoftDevice, Statuses
<1>2. CASE Poll
  <2>1. ASSUME ~ PollForget PROVE \E ev : polls(ev)
    BY <1>2, <2>1 DEF Poll, PollAdvReport, PollConnected, PollDisconnected, PollTxComplete,
                      PollWriteCccd, PollServices, PollCharacteristics, PollResponse
  <2> QED
    BY <1>0, <2>1, CountPolled DEF PollForget, history
<1>3. CASE Sketch
  BY <1>0, <1>3 DEF Sketch, Stray, SetValue, Request, history
<1>4. CASE UNCHANGED vars
  BY <1>0, <1>4 DEF vars, history
<1> QED
  BY <1>1, <1>2, <1>3, <1>4 DEF Next

LEMMA CountInvariance == Spec => []CountInv
<1>1. Init => CountInv
  <2> SUFFICES ASSUME Init PROVE CountInv
    OBVIOUS
  <2>1. Left([k \in Nat |-> 0])
    BY DEF Left, Init
  <2> QED
    BY <2>1 DEF CountInv
<1> QED
  BY <1>1, CountStep, TypeInvariance, PTL DEF Spec

\* What follows of it.
LEMMA CountFacts ==
    ASSUME TypeInv, CountInv
    PROVE  /\ unreported \in Nat
           /\ (\A j \in DOMAIN evts : evts[j].ev # "tx_complete") => unreported = 0
           /\ evts # <<>> /\ (\A j \in DOMAIN evts : j > 1 => evts[j].ev # "tx_complete")
                => unreported = given(evts[1])
           /\ evts # <<>> => given(evts[1]) <= unreported
<1>1. PICK left : Left(left)
  BY DEF CountInv
<1>2. left[0] = unreported /\ left \in [Nat -> Nat] /\ evts \in Seq(Events) /\ Len(evts) \in Nat
  BY <1>1, LenProperties DEF Left, TypeInv
<1>3. (\A j \in DOMAIN evts : evts[j].ev # "tx_complete") => unreported = 0
  BY <1>1, <1>2 DEF Left
<1>4. ASSUME evts # <<>>
      PROVE  /\ given(evts[1]) <= unreported
             /\ (\A j \in DOMAIN evts : j > 1 => evts[j].ev # "tx_complete") => unreported = given(evts[1])
  <2>1. 1 \in DOMAIN evts /\ 1 \in 0 .. Len(evts) /\ evts[1] \in Events
    BY <1>2, <1>4
  <2>2. left[1] = left[0] - given(evts[1]) /\ given(evts[1]) \in Nat
    BY <1>1, <2>1, Given, LeftOne
  <2>3. (\A j \in DOMAIN evts : j > 1 => evts[j].ev # "tx_complete") => left[1] = 0
    BY <1>1, <2>1 DEF Left
  <2>4. PICK m \in Nat, n \in Nat, g \in Nat : m = left[0] /\ n = left[1] /\ g = given(evts[1])
    BY <1>2, <2>2
  <2>5. given(evts[1]) <= unreported /\ (left[1] = 0 => unreported = given(evts[1]))
    <3>1. n = m - g /\ m = unreported
      BY <1>2, <2>2, <2>4
    <3>2. g <= m /\ (n = 0 => m = g)
      BY <3>1
    <3> QED
      BY <2>4, <3>1, <3>2
  <2> QED
    BY <2>3, <2>5
<1> QED
  BY <1>2, <1>3, <1>4

\* Every variable keeps its type, whatever the radio reports and the sketch
\* asks for: no request goes out with a handle that has not been found
\* (BLECentralRole.cpp:1263, 1302, 1350), and no slot behind the one past the
\* table is noted (:832).
THEOREM TypeCorrect == Spec => []TypeOK
<1>1. Init => FlagTypes
  <2> SUFFICES ASSUME Init PROVE FlagTypes
    OBVIOUS
  <2>1. [c \in Chars |-> {}] \in [Chars -> SUBSET Kinds]
    OBVIOUS
  <2>2. cccd \in [Conns -> [Chars -> SUBSET Kinds]]
    BY <2>1 DEF Init
  <2> QED
    BY <2>2 DEF Init, FlagTypes
<1>2. TypeInv /\ CountInv => unreported \in Nat
  BY CountFacts
<1> QED
  BY <1>1, <1>2, FlagStep, TypesShown, TypeInvariance, CountInvariance, PTL DEF Spec

-------------------------------------------------------------------------------
(* One link at a time. *)

offered(p) == Has[p] \cap setup.services
foundOn(p) == {i \in Services : ranges[i] = p}
heldOn(i, p) == valueHandle[i] = p /\ 0 \in connectionIndex[i]
answers(k) == evts[k].ev \in {"services", "characteristics"}

\* The events that wait are of link h to p, the end of the link is the last.
OneLink(h, p) ==
    /\ up \subseteq {h} /\ link[h] \in {p, NoPeer}
    /\ \A k \in DOMAIN evts : evts[k].ev # "adv_report" =>
         /\ evts[k].conn = h
         /\ evts[k].ev \in {"connected", "disconnected", "services", "characteristics"}
              => evts[k].peer = p
         /\ evts[k].ev = "disconnected" =>
              /\ up = {}
              /\ \A j \in DOMAIN evts : j > k => evts[j].ev = "adv_report"

\* The library knows of no link.
Unknown ==
    /\ \A s \in Slots : _connectionHandle[s] = Invalid
    /\ _peripheralConnected = 0
    /\ told = {} /\ ~_remoteRequestInProgress
    /\ \A i \in Services : valueHandle[i] = NoPeer /\ ranges[i] = NoPeer

Alone ==
    /\ Unknown /\ up = {}
    /\ \A k \in DOMAIN evts : evts[k].ev = "adv_report"

\* The link has been made, and may have ended, and has not been handled.
Coming(h, p) ==
    /\ Unknown /\ OneLink(h, p)
    /\ proc[h] = NoProc /\ queued[h] = 0
    /\ h \in up \/ waits("disconnected", h)
    /\ \E c \in DOMAIN evts :
         /\ evts[c].ev = "connected"
         /\ \A j \in DOMAIN evts : j < c => evts[j].ev = "adv_report"
         /\ \A j \in DOMAIN evts :
              j > c => evts[j].ev \in {"adv_report", "write_cccd", "disconnected"}

\* What lies in front of the index has its handle; the service at the index has
\* it, or it is among those that are still to come.
Underway(p, todo) ==
    /\ offered(p) \subseteq foundOn(p)
    /\ \A i \in offered(p) : i < _remoteServiceDiscoveryIndex => heldOn(i, p)
    /\ _remoteServiceDiscoveryIndex \in offered(p) =>
          heldOn(_remoteServiceDiscoveryIndex, p) \/ _remoteServiceDiscoveryIndex \in todo

\* What is found and what is to come is all, where e answers a procedure.
Sound(e, h, p) ==
    /\ told = {} /\ proc[h].op \notin {"services", "characteristics"}
    /\ e.ev = "services" => offered(p) \subseteq foundOn(p) \cup e.found \cup e.todo
    /\ e.ev = "characteristics" => Underway(p, e.found \cup e.todo)

\* What is known is of peripheral p, and it grows with the procedure.
Proceeds(h, p) ==
    /\ \A i \in Services : ranges[i] \in {NoPeer, p}
    /\ \A i \in Services : valueHandle[i] # NoPeer => heldOn(i, p)
    /\ proc[h].op \in {"services", "characteristics"} => told = {}
    /\ proc[h].op = "services" => offered(p) \subseteq foundOn(p) \cup proc[h].todo
    /\ proc[h].op = "characteristics" => Underway(p, proc[h].todo)
    /\ told # {} => \A i \in offered(p) : heldOn(i, p)

\* One procedure, or its answer, is on its way until the end is told.
Discovery(h, p) ==
    /\ Proceeds(h, p)
    /\ \A k \in DOMAIN evts : answers(k) =>
         /\ Sound(evts[k], h, p)
         /\ \A j \in DOMAIN evts : answers(j) => j = k

Requested(h, p) ==
    /\ proc[h].op = "request" => told # {} /\ proc[h].handle = p
    /\ ~commanded /\ _remoteRequestInProgress =>
         proc[h].op = "request" \/ waits("response", h) \/ waits("disconnected", h)

Buffered(h) == ~commanded /\ h \in up => _txBufferCount + queued[h] + unreported <= Capacity

Entered(h) ==
    /\ \A s \in Slots : _connectionHandle[s] = IF s = 0 THEN h ELSE Invalid
    /\ _peripheralConnected = 1 /\ told \subseteq {h}

\* The library knows of the link, which is up or whose end waits.
Known(h, p) ==
    /\ OneLink(h, p) /\ Entered(h)
    /\ h \in up \/ waits("disconnected", h)
    /\ ~ waits("connected", h)
    /\ Discovery(h, p) /\ Requested(h, p) /\ Buffered(h)

\* The link is at an end, and the sketch is called before the library forgets it.
Ended ==
    /\ up = {} /\ told \subseteq {ending}
    /\ _peripheralConnected = 0 /\ \A s \in Slots : _connectionHandle[s] = Invalid
    /\ \A k \in DOMAIN evts : evts[k].ev = "adv_report"

LEMMA RaisedWaits ==
    ASSUME TypeInv, NEW e \in Events, raise(e), NEW ev, NEW h
    PROVE  waits(ev, h)' <=> waits(ev, h) \/ (e.ev = ev /\ e.conn = h)
  BY Raised DEF TypeInv, waits

LEMMA PolledWaits ==
    ASSUME TypeInv, NEW x, polls(x), NEW ev, NEW h
    PROVE  /\ waits(ev, h)' => waits(ev, h)
           /\ waits(ev, h) => waits(ev, h)' \/ (x = ev /\ Head(evts).conn = h)
<1>1. /\ Len(evts) \in Nat \ {0}
      /\ DOMAIN evts = 1 .. Len(evts) /\ DOMAIN evts' = 1 .. Len(evts) - 1
      /\ \A k \in 1 .. Len(evts) - 1 : evts'[k] = evts[k + 1]
      /\ Head(evts) = evts[1] /\ evts[1].ev = x
  BY Polled DEF TypeInv
<1>2. ASSUME waits(ev, h)' PROVE waits(ev, h)
  <2>1. PICK k \in DOMAIN evts' : evts'[k].ev = ev /\ evts'[k].conn = h
    BY <1>2 DEF waits
  <2>2. k + 1 \in DOMAIN evts
    BY <1>1
  <2> QED
    BY <1>1, <2>1, <2>2 DEF waits
<1>3. ASSUME waits(ev, h) PROVE waits(ev, h)' \/ (x = ev /\ Head(evts).conn = h)
  <2>1. PICK k \in DOMAIN evts : evts[k].ev = ev /\ evts[k].conn = h
    BY <1>3 DEF waits
  <2>2. CASE k = 1
    BY <1>1, <2>1, <2>2
  <2>3. CASE k # 1
    <3>1. k - 1 \in DOMAIN evts' /\ evts'[k - 1] = evts[k - 1 + 1] /\ k - 1 + 1 = k
      BY <1>1, <2>3
    <3> QED
      BY <2>1, <3>1 DEF waits
  <2> QED
    BY <2>2, <2>3
<1> QED
  BY <1>2, <1>3

LEMMA OneLinkRaised ==
    ASSUME TypeInv, NEW h \in Conns, NEW p \in Peers, OneLink(h, p),
           NEW e \in Events, raise(e),
           e.ev # "adv_report" =>
             /\ e.conn = h /\ h \in up
             /\ e.ev \in {"connected", "disconnected", "services", "characteristics"} => e.peer = p,
           e.ev = "disconnected" => up' = {},
           up' \subseteq up, link'[h] \in {p, NoPeer}
    PROVE  OneLink(h, p)'
<1>1. /\ Len(evts) \in Nat
      /\ DOMAIN evts = 1 .. Len(evts) /\ DOMAIN evts' = 1 .. Len(evts) + 1
      /\ \A k \in 1 .. Len(evts) : evts'[k] = evts[k]
      /\ evts'[Len(evts) + 1] = e
  BY Raised DEF TypeInv
<1>2. ASSUME NEW k \in DOMAIN evts', evts'[k].ev # "adv_report"
      PROVE  /\ evts'[k].conn = h
             /\ evts'[k].ev \in {"connected", "disconnected", "services", "characteristics"}
                  => evts'[k].peer = p
             /\ evts'[k].ev = "disconnected" =>
                  /\ up' = {}
                  /\ \A j \in DOMAIN evts' : j > k => evts'[j].ev = "adv_report"
  <2>1. CASE k = Len(evts) + 1
    BY <1>1, <1>2, <2>1
  <2>2. CASE k \in DOMAIN evts
    <3>1. evts'[k] = evts[k]
      BY <1>1, <2>2
    <3>2. /\ evts[k].conn = h
          /\ evts[k].ev \in {"connected", "disconnected", "services", "characteristics"}
               => evts[k].peer = p
          /\ evts[k].ev = "disconnected" =>
               up = {} /\ \A j \in DOMAIN evts : j > k => evts[j].ev = "adv_report"
      BY <1>2, <2>2, <3>1 DEF OneLink
    <3>3. ASSUME evts[k].ev = "disconnected", NEW j \in DOMAIN evts', j > k
          PROVE  evts'[j].ev = "adv_report"
      BY <1>1, <2>2, <3>2, <3>3
    <3> QED
      BY <3>1, <3>2, <3>3
  <2> QED
    BY <1>1, <2>1, <2>2
<1>3. up' \subseteq {h}
  BY DEF OneLink
<1> QED
  BY <1>2, <1>3 DEF OneLink

LEMMA OneLinkPolled ==
    ASSUME TypeInv, NEW h, NEW p, OneLink(h, p), NEW ev, polls(ev)
    PROVE  OneLink(h, p)'
<1>1. /\ Len(evts) \in Nat \ {0}
      /\ DOMAIN evts = 1 .. Len(evts) /\ DOMAIN evts' = 1 .. Len(evts) - 1
      /\ \A k \in 1 .. Len(evts) - 1 : evts'[k] = evts[k + 1]
      /\ link' = link
  BY Polled DEF TypeInv
<1>2. up' = up
  BY <1>1 DEF up
<1>3. ASSUME NEW k \in DOMAIN evts', evts'[k].ev # "adv_report"
      PROVE  /\ evts'[k].conn = h
             /\ evts'[k].ev \in {"connected", "disconnected", "services", "characteristics"}
                  => evts'[k].peer = p
             /\ evts'[k].ev = "disconnected" =>
                  /\ up' = {}
                  /\ \A j \in DOMAIN evts' : j > k => evts'[j].ev = "adv_report"
  <2>1. k + 1 \in DOMAIN evts /\ evts'[k] = evts[k + 1]
    BY <1>1
  <2>2. /\ evts[k + 1].conn = h
        /\ evts[k + 1].ev \in {"connected", "disconnected", "services", "characteristics"}
             => evts[k + 1].peer = p
        /\ evts[k + 1].ev = "disconnected" =>
             up = {} /\ \A j \in DOMAIN evts : j > k + 1 => evts[j].ev = "adv_report"
    BY <1>3, <2>1 DEF OneLink
  <2>3. ASSUME evts'[k].ev = "disconnected", NEW j \in DOMAIN evts', j > k
        PROVE  evts'[j].ev = "adv_report"
    <3>1. j + 1 \in DOMAIN evts /\ evts'[j] = evts[j + 1] /\ j + 1 > k + 1
      BY <1>1, <2>3
    <3> QED
      BY <2>1, <2>2, <2>3, <3>1
  <2> QED
    BY <1>2, <2>1, <2>2, <2>3
<1> QED
  BY <1>1, <1>2, <1>3 DEF OneLink

\* What is known of the services stays as it is.
LEMMA ServicesStill ==
    ASSUME UNCHANGED <<remoteVars, setup>>, NEW p
    PROVE  /\ offered(p)' = offered(p) /\ foundOn(p)' = foundOn(p)
           /\ \A i : heldOn(i, p)' <=> heldOn(i, p)
           /\ \A todo : Underway(p, todo)' <=> Underway(p, todo)
  BY DEF remoteVars, offered, foundOn, heldOn, Underway

\* A procedure at most ends.
stops(h) == proc'[h] = proc[h] \/ proc'[h].op \notin {"services", "characteristics"}

LEMMA SoundStill ==
    ASSUME UNCHANGED <<remoteVars, setup>>, NEW h, NEW p, stops(h), NEW e, Sound(e, h, p)
    PROVE  Sound(e, h, p)'
<1>1. told' = told /\ proc'[h].op \notin {"services", "characteristics"}
  BY DEF remoteVars, Sound, stops
<1>2. e.ev = "services" => (offered(p) \subseteq foundOn(p) \cup e.found \cup e.todo)'
  BY ServicesStill DEF Sound
<1>3. e.ev = "characteristics" => Underway(p, e.found \cup e.todo)'
  BY ServicesStill DEF Sound
<1> QED
  BY <1>1, <1>2, <1>3 DEF Sound

LEMMA ProcStill ==
    ASSUME UNCHANGED <<remoteVars, setup>>, NEW h, NEW p, stops(h), Proceeds(h, p)
    PROVE  Proceeds(h, p)'
<1>1. UNCHANGED <<ranges, valueHandle, told>>
  BY DEF remoteVars
<1>2. /\ proc'[h].op \in {"services", "characteristics"} => told' = {}
      /\ proc'[h].op = "services" => (offered(p) \subseteq foundOn(p) \cup proc[h].todo)'
      /\ told' # {} => (\A i \in offered(p) : heldOn(i, p))'
  BY <1>1, ServicesStill DEF Proceeds, stops
<1>3. ASSUME proc'[h].op = "characteristics" PROVE Underway(p, proc[h].todo)'
  <2>1. proc'[h] = proc[h]
    BY <1>3 DEF stops
  <2>2. PICK todo : todo = proc[h].todo
    OBVIOUS
  <2>3. Underway(p, todo)
    BY <1>3, <2>1, <2>2 DEF Proceeds
  <2>4. Underway(p, todo)'
    BY <2>3, ServicesStill
  <2>5. todo = proc'[h].todo
    BY <2>1, <2>2
  <2> QED
    BY <2>4, <2>5 DEF Underway
<1>4. \A i \in Services : valueHandle'[i] # NoPeer => heldOn(i, p)'
  BY <1>1, ServicesStill DEF Proceeds
<1>5. \A i \in Services : ranges'[i] \in {NoPeer, p}
  BY <1>1 DEF Proceeds
<1> QED
  BY <1>2, <1>3, <1>4, <1>5 DEF Proceeds

LEMMA DiscoveryStill ==
    ASSUME UNCHANGED <<remoteVars, setup, evts>>, NEW h, NEW p, stops(h), Discovery(h, p)
    PROVE  Discovery(h, p)'
<1>1. ASSUME NEW k \in DOMAIN evts, answers(k)
      PROVE  Sound(evts[k], h, p)' /\ \A j \in DOMAIN evts : answers(j) => j = k
  <2>1. PICK e : e = evts[k]
    OBVIOUS
  <2>2. Sound(e, h, p) /\ \A j \in DOMAIN evts : answers(j) => j = k
    BY <1>1, <2>1 DEF Discovery
  <2>3. Sound(e, h, p)'
    BY <2>2, SoundStill
  <2>4. e = evts'[k]
    BY <2>1
  <2> QED
    BY <2>2, <2>3, <2>4 DEF Sound, Underway
<1>2. \A k \in DOMAIN evts : answers(k)' <=> answers(k)
  BY DEF answers
<1>3. (\A k \in DOMAIN evts : answers(k) =>
         /\ Sound(evts[k], h, p)
         /\ \A j \in DOMAIN evts : answers(j) => j = k)'
  BY <1>1, <1>2
<1> QED
  BY <1>3, ProcStill DEF Discovery

LEMMA DiscoveryRaised ==
    ASSUME TypeInv, UNCHANGED <<remoteVars, setup>>, NEW h, NEW p, stops(h), Discovery(h, p),
           NEW e \in Events, raise(e), e.ev \notin {"services", "characteristics"}
    PROVE  Discovery(h, p)'
<1>1. /\ Len(evts) \in Nat
      /\ DOMAIN evts = 1 .. Len(evts) /\ DOMAIN evts' = 1 .. Len(evts) + 1
      /\ \A k \in 1 .. Len(evts) : evts'[k] = evts[k]
      /\ evts'[Len(evts) + 1] = e
  BY Raised DEF TypeInv
<1>2. ASSUME NEW k \in DOMAIN evts', answers(k)'
      PROVE  k \in DOMAIN evts /\ answers(k) /\ evts'[k] = evts[k]
  BY <1>1, <1>2 DEF answers
<1>3. ASSUME NEW k \in DOMAIN evts', answers(k)'
      PROVE  Sound(evts[k], h, p)' /\ \A j \in DOMAIN evts' : answers(j)' => j = k
  <2>1. PICK x : x = evts[k]
    OBVIOUS
  <2>2. Sound(x, h, p) /\ \A j \in DOMAIN evts : answers(j) => j = k
    BY <1>2, <1>3, <2>1 DEF Discovery
  <2>3. Sound(x, h, p)'
    BY <2>2, SoundStill
  <2>4. x = evts'[k]
    BY <1>2, <1>3, <2>1
  <2>5. Sound(evts[k], h, p)'
    BY <2>3, <2>4 DEF Sound, Underway
  <2> QED
    BY <1>2, <2>2, <2>5
<1>4. (\A k \in DOMAIN evts : answers(k) =>
         /\ Sound(evts[k], h, p)
         /\ \A j \in DOMAIN evts : answers(j) => j = k)'
  BY <1>3
<1> QED
  BY <1>4, ProcStill DEF Discovery

\* The procedure is answered with what it had found and had still to find.
LEMMA DiscoveryAnswered ==
    ASSUME TypeInv, UNCHANGED <<remoteVars, setup>>, NEW h, NEW p, Discovery(h, p),
           NEW e \in Events, raise(e), e.ev \in {"services", "characteristics"},
           proc[h].op = e.ev, proc[h].todo = e.found \cup e.todo, proc'[h] = NoProc
    PROVE  Discovery(h, p)'
<1>1. /\ Len(evts) \in Nat
      /\ DOMAIN evts = 1 .. Len(evts) /\ DOMAIN evts' = 1 .. Len(evts) + 1
      /\ \A k \in 1 .. Len(evts) : evts'[k] = evts[k]
      /\ evts'[Len(evts) + 1] = e
  BY Raised DEF TypeInv
<1>2. proc'[h].op \notin {"services", "characteristics"}
  BY DEF NoProc
<1>3. \A k \in DOMAIN evts : ~ answers(k)
  BY DEF Discovery, Sound
<1>4. ASSUME NEW k \in DOMAIN evts', answers(k)'
      PROVE  k = Len(evts) + 1 /\ evts'[k] = e
  BY <1>1, <1>3, <1>4 DEF answers
<1>5. told' = {}
  BY DEF Discovery, Proceeds, remoteVars
<1>6. Sound(e, h, p)'
  <2>1. e.ev = "services" => offered(p) \subseteq foundOn(p) \cup e.found \cup e.todo
    BY DEF Discovery, Proceeds
  <2>2. e.ev = "characteristics" => Underway(p, e.found \cup e.todo)
    BY DEF Discovery, Proceeds
  <2>3. e.ev = "services" => (offered(p) \subseteq foundOn(p) \cup e.found \cup e.todo)'
    BY <2>1, ServicesStill
  <2>4. e.ev = "characteristics" => Underway(p, e.found \cup e.todo)'
    BY <2>2, ServicesStill
  <2> QED
    BY <1>2, <1>5, <2>3, <2>4 DEF Sound
<1>7. (\A k \in DOMAIN evts : answers(k) =>
         /\ Sound(evts[k], h, p)
         /\ \A j \in DOMAIN evts : answers(j) => j = k)'
  <2> SUFFICES ASSUME NEW k \in DOMAIN evts', answers(k)'
               PROVE  Sound(evts[k], h, p)' /\ \A j \in DOMAIN evts' : answers(j)' => j = k
    OBVIOUS
  <2>1. e = evts'[k]
    BY <1>4
  <2>2. Sound(evts[k], h, p)'
    BY <1>6, <2>1 DEF Sound, Underway
  <2> QED
    BY <1>4, <2>2
<1>8. stops(h)
  BY <1>2 DEF stops
<1> QED
  BY <1>7, <1>8, ProcStill DEF Discovery

\* An event is handled that moves the discovery no further.
LEMMA DiscoveryPolled ==
    ASSUME TypeInv, UNCHANGED <<remoteVars, setup>>, NEW h, NEW p, stops(h), Discovery(h, p),
           NEW ev, polls(ev)
    PROVE  Discovery(h, p)'
<1>1. /\ Len(evts) \in Nat \ {0}
      /\ DOMAIN evts = 1 .. Len(evts) /\ DOMAIN evts' = 1 .. Len(evts) - 1
      /\ \A k \in 1 .. Len(evts) - 1 : evts'[k] = evts[k + 1]
  BY Polled DEF TypeInv
<1>2. ASSUME NEW k \in DOMAIN evts', answers(k)'
      PROVE  k + 1 \in DOMAIN evts /\ answers(k + 1) /\ evts'[k] = evts[k + 1]
  BY <1>1, <1>2 DEF answers
<1>3. ASSUME NEW k \in DOMAIN evts', answers(k)'
      PROVE  Sound(evts[k], h, p)' /\ \A j \in DOMAIN evts' : answers(j)' => j = k
  <2>1. PICK x : x = evts[k + 1]
    OBVIOUS
  <2>2. Sound(x, h, p) /\ \A j \in DOMAIN evts : answers(j) => j = k + 1
    BY <1>2, <1>3, <2>1 DEF Discovery
  <2>3. Sound(x, h, p)'
    BY <2>2, SoundStill
  <2>4. x = evts'[k]
    BY <1>2, <1>3, <2>1
  <2>5. Sound(evts[k], h, p)'
    BY <2>3, <2>4 DEF Sound, Underway
  <2>6. ASSUME NEW j \in DOMAIN evts', answers(j)' PROVE j = k
    <3>1. j + 1 = k + 1
      BY <1>2, <2>2, <2>6
    <3> QED
      BY <1>1, <3>1
  <2> QED
    BY <2>5, <2>6
<1>4. (\A k \in DOMAIN evts : answers(k) =>
         /\ Sound(evts[k], h, p)
         /\ \A j \in DOMAIN evts : answers(j) => j = k)'
  BY <1>3
<1> QED
  BY <1>4, ProcStill DEF Discovery

\* Nothing of the library changes.
LEMMA UnknownStill ==
    ASSUME UNCHANGED <<tableVars, remoteVars, _remoteRequestInProgress>>, Unknown
    PROVE  Unknown'
  BY DEF tableVars, remoteVars, Unknown

LEMMA EnteredStill ==
    ASSUME UNCHANGED <<tableVars, remoteVars>>, NEW h, Entered(h)
    PROVE  Entered(h)'
  BY DEF tableVars, remoteVars, Entered

\* An event of the link is raised.
LEMMA KnownRaised ==
    ASSUME TypeInv, TypeInv', NEW h \in Conns, NEW p \in Peers, Known(h, p),
           UNCHANGED <<libVars, commanded>>,
           NEW e \in Events, raise(e), e.ev # "connected",
           e.ev # "adv_report" =>
             /\ e.conn = h /\ h \in up
             /\ e.ev \in {"connected", "disconnected", "services", "characteristics"} => e.peer = p,
           e.ev = "disconnected" => up' = {},
           e.ev # "disconnected" => up' = up,
           link'[h] \in {p, NoPeer},
           proc'[h] = proc[h] \/ proc'[h] = NoProc,
           proc[h].op = "request" /\ proc'[h] = NoProc => e.ev \in {"response", "disconnected"},
           e.ev \in {"services", "characteristics"} =>
             proc[h].op = e.ev /\ proc[h].todo = e.found \cup e.todo /\ proc'[h] = NoProc,
           h \in up' => queued'[h] + unreported' = queued[h] + unreported
    PROVE  Known(h, p)'
<1>1. UNCHANGED <<setup, tableVars, remoteVars, localVars, _remoteRequestInProgress>>
  BY DEF libVars
<1>2. OneLink(h, p)'
  BY OneLinkRaised DEF Known
<1>3. Entered(h)'
  BY <1>1, EnteredStill DEF Known
<1>4. (h \in up)' \/ waits("disconnected", h)'
  BY RaisedWaits DEF Known
<1>5. ~ waits("connected", h)'
  BY RaisedWaits DEF Known
<1>6. Discovery(h, p)'
  <2>1. CASE e.ev \in {"services", "characteristics"}
    BY <1>1, <2>1, DiscoveryAnswered DEF Known
  <2>2. CASE e.ev \notin {"services", "characteristics"}
    <3>1. stops(h)
      BY DEF stops, NoProc
    <3> QED
      BY <1>1, <2>2, <3>1, DiscoveryRaised DEF Known
  <2> QED
    BY <2>1, <2>2
<1>7. Requested(h, p)'
  <2>1. told' = told
    BY <1>1 DEF remoteVars
  <2>2. proc'[h].op = "request" => told' # {} /\ proc'[h].handle = p
    BY <2>1 DEF Known, Requested, NoProc
  <2>3. ASSUME ~commanded', _remoteRequestInProgress'
        PROVE  proc'[h].op = "request" \/ waits("response", h)' \/ waits("disconnected", h)'
    <3>1. proc[h].op = "request" \/ waits("response", h) \/ waits("disconnected", h)
      BY <1>1, <2>3 DEF Known, Requested
    <3>2. CASE waits("response", h) \/ waits("disconnected", h)
      BY <3>2, RaisedWaits
    <3>3. CASE proc[h].op = "request" /\ proc'[h] = NoProc
      <4>1. e.conn = h
        BY <3>3
      <4> QED
        BY <3>3, <4>1, RaisedWaits
    <3> QED
      BY <3>1, <3>2, <3>3
  <2> QED
    BY <2>2, <2>3 DEF Requested
<1>8. Buffered(h)'
  <2> SUFFICES ASSUME ~commanded', h \in up'
               PROVE  _txBufferCount' + queued'[h] + unreported' <= Capacity
    BY DEF Buffered
  <2>1. commanded' = commanded /\ _txBufferCount' = _txBufferCount /\ h \in up
    BY <1>1 DEF localVars
  <2>2. _txBufferCount + queued[h] + unreported <= Capacity
    BY <2>1 DEF Known, Buffered
  <2>3. /\ _txBufferCount \in Int /\ queued[h] \in Int /\ unreported \in Int
    BY Facts DEF TypeInv, SdTypes, LocalTypes
  <2>4. queued'[h] \in Int /\ unreported' \in Int
    BY Facts DEF TypeInv, SdTypes
  <2> QED
    BY <2>1, <2>2, <2>3, <2>4, Facts
<1> QED
  BY <1>2, <1>3, <1>4, <1>5, <1>6, <1>7, <1>8 DEF Known

LEMMA ComingRaised ==
    ASSUME TypeInv, NEW h \in Conns, NEW p \in Peers, Coming(h, p), UNCHANGED libVars,
           NEW e \in Events, raise(e),
           e.ev \in {"adv_report", "write_cccd", "disconnected"},
           e.ev # "adv_report" => e.conn = h /\ h \in up,
           e.ev = "disconnected" => e.peer = p /\ up' = {},
           e.ev # "disconnected" => up' = up,
           link'[h] \in {p, NoPeer},
           proc'[h] = NoProc, queued'[h] = 0
    PROVE  Coming(h, p)'
<1>1. Unknown'
  BY UnknownStill DEF libVars, Coming
<1>2. OneLink(h, p)'
  BY OneLinkRaised DEF Coming
<1>3. (h \in up)' \/ waits("disconnected", h)'
  BY RaisedWaits DEF Coming
<1>4. (\E c \in DOMAIN evts :
         /\ evts[c].ev = "connected"
         /\ \A j \in DOMAIN evts : j < c => evts[j].ev = "adv_report"
         /\ \A j \in DOMAIN evts :
              j > c => evts[j].ev \in {"adv_report", "write_cccd", "disconnected"})'
  <2>1. /\ Len(evts) \in Nat
        /\ DOMAIN evts = 1 .. Len(evts) /\ DOMAIN evts' = 1 .. Len(evts) + 1
        /\ \A k \in 1 .. Len(evts) : evts'[k] = evts[k]
        /\ evts'[Len(evts) + 1] = e
    BY Raised DEF TypeInv
  <2>2. PICK c \in DOMAIN evts :
          /\ evts[c].ev = "connected"
          /\ \A j \in DOMAIN evts : j < c => evts[j].ev = "adv_report"
          /\ \A j \in DOMAIN evts :
               j > c => evts[j].ev \in {"adv_report", "write_cccd", "disconnected"}
    BY DEF Coming
  <2>3. c \in DOMAIN evts' /\ evts'[c].ev = "connected"
    BY <2>1, <2>2
  <2>4. ASSUME NEW j \in DOMAIN evts', j < c PROVE evts'[j].ev = "adv_report"
    BY <2>1, <2>2, <2>4
  <2>5. ASSUME NEW j \in DOMAIN evts', j > c
        PROVE  evts'[j].ev \in {"adv_report", "write_cccd", "disconnected"}
    BY <2>1, <2>2, <2>5
  <2> QED
    BY <2>3, <2>4, <2>5
<1> QED
  BY <1>1, <1>2, <1>3, <1>4 DEF Coming

LEMMA AloneRaised ==
    ASSUME TypeInv, Alone, UNCHANGED <<libVars, link>>, NEW e \in Events, raise(e),
           e.ev = "adv_report"
    PROVE  Alone'
<1>1. Unknown' /\ up' = {}
  BY UnknownStill DEF libVars, Alone, up
<1>2. \A k \in DOMAIN evts' : evts'[k].ev = "adv_report"
  BY Raised DEF TypeInv, Alone
<1> QED
  BY <1>1, <1>2 DEF Alone

\* The only link there has been, and its phase.
Session == Alone \/ \E h \in Conns, p \in Peers : Coming(h, p) \/ Known(h, p)

SessionInv == ~shared => IF ending = Invalid THEN Session ELSE Ended

LEMMA NoProcIsNone == NoProc.op = "none"
  BY DEF NoProc

\* Nothing changes that a session is about.
LEMMA SessionStill ==
    ASSUME UNCHANGED <<link, queued, proc, evts, libVars, commanded, unreported>>, Session
    PROVE  Session'
<1>1. UNCHANGED <<setup, tableVars, remoteVars, localVars, _remoteRequestInProgress>> /\ up' = up
  BY DEF libVars, up
<1>2. \A ev, h : waits(ev, h)' <=> waits(ev, h)
  BY DEF waits
<1>3. \A h, p : OneLink(h, p)' <=> OneLink(h, p)
  BY <1>1 DEF OneLink
<1>4. Unknown' <=> Unknown
  BY <1>1 DEF Unknown, tableVars, remoteVars
<1>5. ASSUME Alone PROVE Session'
  BY <1>1, <1>4, <1>5 DEF Alone, Session
<1>6. ASSUME NEW h \in Conns, NEW p \in Peers, Coming(h, p) PROVE Session'
  <2>1. Coming(h, p)'
    BY <1>1, <1>2, <1>3, <1>4, <1>6 DEF Coming
  <2> QED
    BY <2>1 DEF Session
<1>7. ASSUME NEW h \in Conns, NEW p \in Peers, Known(h, p) PROVE Session'
  <2>1. Discovery(h, p)'
    BY <1>1, <1>7, DiscoveryStill DEF Known, stops
  <2>2. Requested(h, p)'
    BY <1>1, <1>2, <1>7 DEF Known, Requested, remoteVars
  <2>3. Buffered(h)'
    BY <1>1, <1>7 DEF Known, Buffered, localVars
  <2>4. Entered(h)'
    BY <1>1, <1>7, EnteredStill DEF Known
  <2>5. Known(h, p)'
    BY <1>1, <1>2, <1>3, <1>7, <2>1, <2>2, <2>3, <2>4 DEF Known
  <2> QED
    BY <2>5 DEF Session
<1> QED
  BY <1>5, <1>6, <1>7 DEF Session

\* What is up or has something in progress is the link of the session.
LEMMA SessionLink ==
    ASSUME TypeInv, Session, NEW g \in Conns, g \in up
    PROVE  \E p \in Peers : (Coming(g, p) \/ Known(g, p)) /\ link[g] = p /\ up = {g}
<1>1. PICK h \in Conns, p \in Peers : Coming(h, p) \/ Known(h, p)
  BY DEF Session, Alone
<1>2. OneLink(h, p)
  BY <1>1 DEF Coming, Known
<1>3. g = h /\ up = {g} /\ link[g] = p
  BY <1>2 DEF OneLink, up
<1> QED
  BY <1>1, <1>3

\* A link is made where there was none.
LEMMA SessionConnect ==
    ASSUME TypeInv, Session, NEW h \in Conns, SdConnect(h), ~shared'
    PROVE  Session'
<1> DEFINE e == [ev |-> "connected", conn |-> h, peer |-> radio.peer]
<1> USE DEF TypeInv
<1>1. radio.peer \in Peers
  BY DEF SdConnect, Radios, Quiet, Scanning, Reaching
<1>2. e \in Events /\ raise(e)
  BY <1>1 DEF Events, SdConnect
<1>3. up = {} /\ \A g \in Conns : ~ waits("disconnected", g)
  BY DEF SdConnect
<1>4. Alone
  BY <1>3 DEF Session, Coming, Known
<1>5. /\ Len(evts) \in Nat
      /\ DOMAIN evts = 1 .. Len(evts) /\ DOMAIN evts' = 1 .. Len(evts) + 1
      /\ \A k \in 1 .. Len(evts) : evts'[k] = evts[k]
      /\ evts'[Len(evts) + 1] = e
  BY <1>2, Raised
<1>6. up' = {h} /\ link'[h] = radio.peer
  BY <1>1, <1>3, Facts DEF SdConnect, SdTypes, up
<1>7. PICK p \in Peers : p = radio.peer
  BY <1>1
<1>8. \A k \in 1 .. Len(evts) : evts'[k].ev = "adv_report"
  BY <1>4, <1>5 DEF Alone
<1>9. evts'[Len(evts) + 1].ev = "connected" /\ evts'[Len(evts) + 1].conn = h
      /\ evts'[Len(evts) + 1].peer = p
  BY <1>5, <1>7
<1>10. OneLink(h, p)'
  BY <1>5, <1>6, <1>7, <1>8, <1>9 DEF OneLink
<1>11. Unknown'
  BY <1>4, UnknownStill DEF Alone, SdConnect, libVars
<1>12. proc'[h] = NoProc /\ queued'[h] = 0
  BY <1>3 DEF SdConnect, SdTypes
<1>13. (\E c \in DOMAIN evts :
         /\ evts[c].ev = "connected"
         /\ \A j \in DOMAIN evts : j < c => evts[j].ev = "adv_report"
         /\ \A j \in DOMAIN evts :
              j > c => evts[j].ev \in {"adv_report", "write_cccd", "disconnected"})'
  BY <1>5, <1>8, <1>9
<1>14. Coming(h, p)'
  BY <1>6, <1>10, <1>11, <1>12, <1>13 DEF Coming
<1> QED
  BY <1>14 DEF Session

LEMMA SessionSoftDevice ==
    ASSUME TypeInv, TypeInv', Session, SoftDevice, ~shared'
    PROVE  Session'
<1> USE DEF TypeInv
<1>1. ASSUME NEW p \in Peers, SdReport(p) PROVE Session'
  <2> DEFINE e == [ev |-> "adv_report", conn |-> Invalid, peer |-> p]
  <2>1. e \in Events /\ raise(e) /\ UNCHANGED <<sdVars, libVars, history>> /\ up' = up
    BY <1>1 DEF Events, SdReport, sdVars, up
  <2>2. CASE Alone
    BY <2>1, <2>2, AloneRaised DEF Session, sdVars
  <2>3. ASSUME NEW h \in Conns, NEW q \in Peers, Coming(h, q) PROVE Session'
    <3>1. /\ link[h] \in {q, NoPeer} /\ proc[h] = NoProc /\ queued[h] = 0
          /\ UNCHANGED <<link, proc, queued>> /\ e.ev = "adv_report"
      BY <2>1, <2>3 DEF sdVars, Coming, OneLink
    <3>2. link'[h] \in {q, NoPeer} /\ proc'[h] = NoProc /\ queued'[h] = 0
      BY <3>1
    <3>3. Coming(h, q)'
      BY <2>1, <2>3, <3>1, <3>2, ComingRaised
    <3> QED
      BY <3>3 DEF Session
  <2>4. ASSUME NEW h \in Conns, NEW q \in Peers, Known(h, q) PROVE Session'
    <3>1. link[h] \in {q, NoPeer} /\ UNCHANGED <<link, proc, queued, unreported, commanded>>
      BY <2>1, <2>4 DEF Known, OneLink, sdVars, history
    <3>2. Known(h, q)'
      <4> HIDE DEF e
      <4>1. e.ev = "adv_report"
        BY DEF e
      <4> QED
        BY <2>1, <2>4, <3>1, <4>1, KnownRaised, NoProcIsNone
    <3> QED
      BY <3>2 DEF Session
  <2> QED
    BY <2>2, <2>3, <2>4 DEF Session
<1>2. ASSUME NEW h \in Conns, SdConnect(h) PROVE Session'
  BY <1>2, SessionConnect
<1>3. ASSUME NEW h \in Conns, SdDisconnect(h) PROVE Session'
  <2> DEFINE e == [ev |-> "disconnected", conn |-> h, peer |-> link[h]]
  <2>1. h \in up /\ UNCHANGED <<libVars, history>> /\ raise(e)
    BY <1>3 DEF SdDisconnect
  <2>2. PICK p \in Peers : (Coming(h, p) \/ Known(h, p)) /\ link[h] = p /\ up = {h}
    BY <2>1, SessionLink
  <2>3. link'[h] = NoPeer /\ up' = {} /\ proc'[h] = NoProc /\ queued'[h] = 0
    BY <1>3, <2>2 DEF SdDisconnect, SdTypes, up
  <2>4. e \in Events /\ e.ev = "disconnected" /\ e.conn = h /\ e.peer = p
    BY <2>2 DEF Events
  <2> HIDE DEF e
  <2>5. CASE Coming(h, p)
    <3>1. Coming(h, p)'
      BY <2>1, <2>2, <2>3, <2>4, <2>5, ComingRaised
    <3> QED
      BY <3>1 DEF Session
  <2>6. CASE Known(h, p)
    <3>1. Known(h, p)'
      BY <2>1, <2>2, <2>3, <2>4, <2>6, KnownRaised DEF history
    <3> QED
      BY <3>1 DEF Session
  <2> QED
    BY <2>2, <2>5, <2>6
<1>4. ASSUME NEW h \in Conns, SdConfirmed(h) PROVE Session'
  <2>1. UNCHANGED <<link, queued, proc, evts, libVars, history>> /\ up' = up
    BY <1>4 DEF SdConfirmed, up
  <2> QED
    BY <2>1, SessionStill DEF history
<1>5. ASSUME NEW h \in Conns, SdResponse(h) PROVE Session'
  <2> DEFINE e == [ev |-> "response", conn |-> h]
  <2>1. proc[h].op = "request" /\ raise(e) /\ UNCHANGED <<link, queued, libVars, history>>
    BY <1>5 DEF SdResponse
  <2>2. h \in up /\ up' = up
    BY <2>1 DEF SdTypes, NoProc, up
  <2>3. PICK p \in Peers : (Coming(h, p) \/ Known(h, p)) /\ link[h] = p /\ up = {h}
    BY <2>2, SessionLink
  <2>4. Known(h, p) /\ proc'[h] = NoProc
    BY <1>5, <2>1, <2>3 DEF Coming, NoProc, SdResponse, SdTypes
  <2>5. e \in Events /\ e.ev = "response" /\ e.conn = h
    BY DEF Events
  <2> HIDE DEF e
  <2>6. Known(h, p)'
    BY <2>1, <2>2, <2>3, <2>4, <2>5, KnownRaised DEF history
  <2> QED
    BY <2>6 DEF Session
<1>6. ASSUME NEW h \in Conns, NEW n \in 1 .. queued[h], SdSent(h, n) PROVE Session'
  <2> DEFINE e == [ev |-> "tx_complete", conn |-> h, count |-> n]
  <2>1. n \in 1 .. Capacity /\ queued[h] \in Nat /\ queued[h] # 0
    BY Facts DEF SdTypes
  <2>2. raise(e) /\ UNCHANGED <<link, proc, libVars, commanded>> /\ h \in up /\ up' = up
    BY <1>6, <2>1 DEF SdSent, SdTypes, up
  <2>3. PICK p \in Peers : (Coming(h, p) \/ Known(h, p)) /\ link[h] = p /\ up = {h}
    BY <2>2, SessionLink
  <2>4. Known(h, p)
    BY <2>1, <2>3 DEF Coming
  <2>5. e \in Events /\ e.ev = "tx_complete" /\ e.conn = h
    BY <2>1 DEF Events
  <2>6. queued'[h] = queued[h] - n /\ unreported' = unreported + n
    BY <1>6 DEF SdSent, SdTypes
  <2>7. queued'[h] + unreported' = queued[h] + unreported
    BY <2>1, <2>6
  <2> HIDE DEF e
  <2>8. Known(h, p)'
    <3>1. link'[h] \in {p, NoPeer} /\ proc'[h] = proc[h]
      BY <2>2, <2>3
    <3> QED
      BY <2>2, <2>4, <2>5, <2>7, <3>1, KnownRaised, NoProcIsNone
  <2> QED
    BY <2>8 DEF Session
<1>7. ASSUME NEW h \in Conns, NEW c \in setup.chars, NEW v \in Cccd, SdWriteCccd(h, c, v)
      PROVE  Session'
  <2> DEFINE e == [ev |-> "write_cccd", conn |-> h, char |-> c, value |-> v]
  <2>1. raise(e) /\ UNCHANGED <<link, queued, proc, libVars, history>> /\ h \in up /\ up' = up
    BY <1>7 DEF SdWriteCccd, up
  <2>2. PICK p \in Peers : (Coming(h, p) \/ Known(h, p)) /\ link[h] = p /\ up = {h}
    BY <2>1, SessionLink
  <2>3. e \in Events /\ e.ev = "write_cccd" /\ e.conn = h
    BY SetupFacts DEF Events
  <2> HIDE DEF e
  <2>4. CASE Coming(h, p)
    <3>1. proc'[h] = NoProc /\ queued'[h] = 0
      BY <2>1, <2>4 DEF Coming
    <3>2. Coming(h, p)'
      BY <2>1, <2>2, <2>3, <2>4, <3>1, ComingRaised
    <3> QED
      BY <3>2 DEF Session
  <2>5. CASE Known(h, p)
    <3>1. Known(h, p)'
      BY <2>1, <2>2, <2>3, <2>5, KnownRaised, NoProcIsNone DEF history
    <3> QED
      BY <3>1 DEF Session
  <2> QED
    BY <2>2, <2>4, <2>5
<1>8. ASSUME NEW h \in Conns, NEW status \in Statuses, NEW found \in SUBSET Services,
             SdDiscovered(h, status, found)
      PROVE  Session'
  <2>1. PICK e \in Events :
          /\ raise(e)
          /\ e.ev = proc[h].op /\ proc[h] \in Discoveries /\ h \in up
          /\ e.conn = h /\ e.peer = link[h] /\ e.found \cup e.todo = proc[h].todo
    BY <1>8, AnswerRaised
  <2>2. UNCHANGED <<link, queued, libVars, history>> /\ up' = up
    BY <1>8 DEF SdDiscovered, up
  <2>3. PICK p \in Peers : (Coming(h, p) \/ Known(h, p)) /\ link[h] = p /\ up = {h}
    BY <2>1, SessionLink
  <2>4. /\ proc'[h] = NoProc /\ proc[h].op \in {"services", "characteristics"}
        /\ proc[h].op # "none"
    BY <1>8 DEF SdDiscovered, SdTypes
  <2>5. Known(h, p)
    BY <2>3, <2>4, NoProcIsNone DEF Coming
  <2>6. Known(h, p)'
    <3>1. unreported' = unreported /\ commanded' = commanded
      BY <2>2 DEF history
    <3>2. /\ e.ev # "connected" /\ e.ev # "adv_report" /\ e.ev # "disconnected"
          /\ proc[h].op # "request"
      BY <2>1, <2>4
    <3> QED
      BY <2>1, <2>2, <2>3, <2>4, <2>5, <3>1, <3>2, KnownRaised
  <2> QED
    BY <2>6 DEF Session
<1> QED
  BY <1>1, <1>2, <1>3, <1>4, <1>5, <1>6, <1>7, <1>8 DEF SoftDevice, Statuses

LEMMA AlonePolled ==
    ASSUME TypeInv, Alone, NEW ev, polls(ev),
           UNCHANGED <<tableVars, remoteVars, _remoteRequestInProgress>>
    PROVE  Alone'
<1>1. /\ DOMAIN evts = 1 .. Len(evts) /\ DOMAIN evts' = 1 .. Len(evts) - 1
      /\ \A k \in 1 .. Len(evts) - 1 : evts'[k] = evts[k + 1]
      /\ link' = link /\ Len(evts) \in Nat
  BY Polled DEF TypeInv
<1>2. Unknown' /\ up' = {}
  BY <1>1, UnknownStill DEF Alone, up
<1>3. ASSUME NEW k \in DOMAIN evts' PROVE evts'[k].ev = "adv_report"
  <2>1. k + 1 \in DOMAIN evts /\ evts'[k] = evts[k + 1]
    BY <1>1
  <2> QED
    BY <2>1 DEF Alone
<1> QED
  BY <1>2, <1>3 DEF Alone

\* Before the link is handled nothing but reports comes in front of it.
LEMMA ComingHead ==
    ASSUME TypeInv, NEW h, NEW p, Coming(h, p), NEW ev, polls(ev)
    PROVE  /\ ev \in {"adv_report", "connected"}
           /\ ev = "connected" =>
                \A k \in DOMAIN evts' :
                    evts'[k].ev \in {"adv_report", "write_cccd", "disconnected"}
<1>1. /\ Len(evts) \in Nat \ {0}
      /\ DOMAIN evts = 1 .. Len(evts) /\ DOMAIN evts' = 1 .. Len(evts) - 1
      /\ \A k \in 1 .. Len(evts) - 1 : evts'[k] = evts[k + 1]
      /\ evts[1].ev = ev
  BY Polled DEF TypeInv
<1>2. PICK c \in DOMAIN evts :
        /\ evts[c].ev = "connected"
        /\ \A j \in DOMAIN evts : j < c => evts[j].ev = "adv_report"
        /\ \A j \in DOMAIN evts :
             j > c => evts[j].ev \in {"adv_report", "write_cccd", "disconnected"}
  BY DEF Coming
<1>3. ev \in {"adv_report", "connected"}
  BY <1>1, <1>2
<1>4. ASSUME ev = "connected", NEW k \in DOMAIN evts'
      PROVE  evts'[k].ev \in {"adv_report", "write_cccd", "disconnected"}
  <2>1. ~ (1 < c)
    BY <1>1, <1>2, <1>4
  <2>2. k + 1 \in DOMAIN evts /\ k + 1 > c /\ evts'[k] = evts[k + 1]
    BY <1>1, <1>2, <2>1
  <2> QED
    BY <1>2, <2>2
<1> QED
  BY <1>3, <1>4

LEMMA ComingPolled ==
    ASSUME TypeInv, NEW h, NEW p, Coming(h, p), polls("adv_report"),
           UNCHANGED <<tableVars, remoteVars, _remoteRequestInProgress, proc, queued>>
    PROVE  Coming(h, p)'
<1>1. /\ Len(evts) \in Nat \ {0}
      /\ DOMAIN evts = 1 .. Len(evts) /\ DOMAIN evts' = 1 .. Len(evts) - 1
      /\ \A k \in 1 .. Len(evts) - 1 : evts'[k] = evts[k + 1]
      /\ evts[1].ev = "adv_report" /\ link' = link /\ Head(evts) = evts[1]
  BY Polled DEF TypeInv
<1>2. Unknown' /\ OneLink(h, p)' /\ up' = up
  BY <1>1, UnknownStill, OneLinkPolled DEF Coming, up
<1>3. (h \in up)' \/ waits("disconnected", h)'
  BY <1>1, <1>2, PolledWaits DEF Coming
<1>4. PICK c \in DOMAIN evts :
        /\ evts[c].ev = "connected"
        /\ \A j \in DOMAIN evts : j < c => evts[j].ev = "adv_report"
        /\ \A j \in DOMAIN evts :
             j > c => evts[j].ev \in {"adv_report", "write_cccd", "disconnected"}
  BY DEF Coming
<1>5. c - 1 \in DOMAIN evts' /\ evts'[c - 1].ev = "connected"
  <2>1. c # 1
    BY <1>1, <1>4
  <2>2. c - 1 \in 1 .. Len(evts) - 1 /\ c - 1 + 1 = c
    BY <1>1, <2>1
  <2> QED
    BY <1>1, <1>4, <2>2
<1>6. ASSUME NEW j \in DOMAIN evts'
      PROVE  /\ j < c - 1 => evts'[j].ev = "adv_report"
             /\ j > c - 1 => evts'[j].ev \in {"adv_report", "write_cccd", "disconnected"}
  <2>1. j + 1 \in DOMAIN evts /\ evts'[j] = evts[j + 1]
    BY <1>1
  <2>2. (j < c - 1 => j + 1 < c) /\ (j > c - 1 => j + 1 > c)
    BY <1>1
  <2> QED
    BY <1>4, <2>1, <2>2
<1>7. (\E d \in DOMAIN evts :
         /\ evts[d].ev = "connected"
         /\ \A j \in DOMAIN evts : j < d => evts[j].ev = "adv_report"
         /\ \A j \in DOMAIN evts :
              j > d => evts[j].ev \in {"adv_report", "write_cccd", "disconnected"})'
  BY <1>5, <1>6
<1> QED
  BY <1>2, <1>3, <1>7 DEF Coming

LEMMA ComingNotSent ==
    ASSUME NEW h, NEW p, Coming(h, p), TypeInv, NEW j \in DOMAIN evts
    PROVE  evts[j].ev # "tx_complete"
<1>1. PICK c \in DOMAIN evts :
        /\ evts[c].ev = "connected"
        /\ \A k \in DOMAIN evts : k < c => evts[k].ev = "adv_report"
        /\ \A k \in DOMAIN evts :
             k > c => evts[k].ev \in {"adv_report", "write_cccd", "disconnected"}
  BY DEF Coming
<1>2. j \in Int /\ c \in Int
  BY LenProperties DEF TypeInv
<1>3. j < c \/ j = c \/ j > c
  BY <1>2
<1> QED
  BY <1>1, <1>3

\* The link is handled: the discovery begins, and the buffers are all there.
LEMMA ComingKnown ==
    ASSUME TypeInv, CountInv, NEW h \in Conns, NEW p \in Peers, Coming(h, p), PollConnected
    PROVE  Known(h, p)'
<1> USE DEF TypeInv
<1>1. /\ polls("connected") /\ DOMAIN evts = 1 .. Len(evts) /\ Len(evts) \in Nat \ {0}
      /\ Head(evts) = evts[1] /\ evts[1].ev = "connected" /\ link' = link /\ setup' = setup
  BY Polled DEF PollConnected
<1>2. Head(evts).conn = h /\ Head(evts).peer = p
  BY <1>1 DEF Coming, OneLink
<1>3. \A k \in DOMAIN evts' : evts'[k].ev \in {"adv_report", "write_cccd", "disconnected"}
  BY <1>1, ComingHead
<1>4. OneLink(h, p)' /\ up' = up
  BY <1>1, OneLinkPolled DEF Coming, up
<1>5. slotOf(Invalid) = 0 /\ 0 \in Slots /\ \A s \in Slots : _connectionHandle[s] = Invalid
  BY FirstSlot, SetupFacts DEF Coming, Unknown
<1>6. Entered(h)'
  <2>1. _connectionHandle' = [_connectionHandle EXCEPT ![0] = h]
    BY <1>2, <1>5 DEF PollConnected
  <2>2. _peripheralConnected' = (0 + 1) % Byte /\ told' = {}
    BY DEF PollConnected, Coming, Unknown, remoteVars
  <2>3. _peripheralConnected' = 1
    BY <2>2, Facts
  <2> QED
    BY <1>5, <2>1, <2>2, <2>3 DEF Entered, TableTypes
<1>7. (h \in up)' \/ waits("disconnected", h)'
  BY <1>1, <1>4, PolledWaits DEF Coming
<1>8. ~ waits("connected", h)'
  BY <1>3 DEF waits
<1>9. Discovery(h, p)'
  <2> DEFINE q == discovery("services", 0, offered(p))
  <2>1. proc' = IF setup.services # {} THEN started(h, q) ELSE proc
    BY <1>2 DEF PollConnected, offered
  <2>2. q \in Discoveries /\ q.op = "services" /\ q.todo = offered(p)
    BY DiscoveryType, SetupFacts, CentralAssumption DEF discovery, offered
  <2> HIDE DEF q
  <2>3. proc'[h] = q \/ proc'[h] = NoProc
    BY <2>1, <2>2, StartedType DEF Coming
  <2>4. UNCHANGED remoteVars /\ offered(p)' = offered(p)
    BY <1>1 DEF PollConnected, offered
  <2>5. told' = {} /\ \A i \in Services : valueHandle'[i] = NoPeer /\ ranges'[i] = NoPeer
    BY <2>4 DEF remoteVars, Coming, Unknown
  <2>6. Proceeds(h, p)'
    BY <2>2, <2>3, <2>4, <2>5, NoProcIsNone DEF Proceeds
  <2>7. \A k \in DOMAIN evts' : ~ answers(k)'
    BY <1>3 DEF answers
  <2> QED
    BY <2>6, <2>7 DEF Discovery
<1>10. Requested(h, p)'
  <2>1. proc'[h].op # "request"
    <3> DEFINE q == discovery("services", 0, offered(p))
    <3>1. proc' = started(h, q) \/ proc' = proc
      BY <1>2 DEF PollConnected, offered
    <3>2. q \in Discoveries /\ q.op = "services"
      BY DiscoveryType, SetupFacts, CentralAssumption DEF discovery, offered
    <3> HIDE DEF q
    <3> QED
      BY <3>1, <3>2, StartedType, NoProcIsNone DEF Coming
  <2>2. ~ _remoteRequestInProgress'
    BY DEF PollConnected, Coming, Unknown
  <2> QED
    BY <2>1, <2>2 DEF Requested
<1>11. Buffered(h)'
  <2> SUFFICES ASSUME h \in up' PROVE _txBufferCount' + queued'[h] + unreported' <= Capacity
    BY DEF Buffered
  <2>1. _txBufferCount' = Capacity
    BY <1>2, <1>4 DEF PollConnected
  <2>2. queued'[h] = 0
    BY DEF PollConnected, Coming
  <2>3. \A j \in DOMAIN evts : evts[j].ev # "tx_complete"
    BY ComingNotSent
  <2>4. unreported' = 0
    BY <1>1, <2>3, CountFacts DEF polls
  <2> QED
    BY <2>1, <2>2, <2>4, Facts
<1> QED
  BY <1>4, <1>6, <1>7, <1>8, <1>9, <1>10, <1>11 DEF Known

\* The link has ended.
LEMMA KnownEnds ==
    ASSUME TypeInv, NEW h \in Conns, NEW p \in Peers, Known(h, p), PollDisconnected
    PROVE  Ended'
<1> USE DEF TypeInv
<1>1. /\ polls("disconnected") /\ DOMAIN evts = 1 .. Len(evts) /\ Len(evts) \in Nat \ {0}
      /\ DOMAIN evts' = 1 .. Len(evts) - 1
      /\ \A k \in 1 .. Len(evts) - 1 : evts'[k] = evts[k + 1]
      /\ Head(evts) = evts[1] /\ evts[1].ev = "disconnected" /\ link' = link
  BY Polled DEF PollDisconnected
<1>2. /\ Head(evts).conn = h /\ up = {}
      /\ \A j \in DOMAIN evts : j > 1 => evts[j].ev = "adv_report"
  BY <1>1 DEF Known, OneLink
<1>3. slotOf(h) = 0 /\ 0 \in Slots
  BY FirstSlot, SetupFacts DEF Known, Entered
<1>4. \A s \in Slots : _connectionHandle'[s] = Invalid
  BY <1>2, <1>3 DEF PollDisconnected, Known, Entered, TableTypes
<1>5. _peripheralConnected' = 0
  <2>1. _peripheralConnected' = (1 - 1) % Byte
    BY DEF PollDisconnected, Known, Entered
  <2> QED
    BY <2>1, Facts
<1>6. told' \subseteq {ending'}
  BY <1>2 DEF PollDisconnected, remoteVars, Known, Entered
<1>8. up' = {}
  BY <1>1, <1>2 DEF up
<1>9. ASSUME NEW k \in DOMAIN evts' PROVE evts'[k].ev = "adv_report"
  <2>1. k + 1 \in DOMAIN evts /\ k + 1 > 1 /\ evts'[k] = evts[k + 1]
    BY <1>1
  <2> QED
    BY <1>2, <2>1
<1> QED
  BY <1>4, <1>5, <1>6, <1>8, <1>9 DEF Ended

\* The library forgets it.
LEMMA EndedForgets ==
    ASSUME Ended, PollForget
    PROVE  Alone'
<1>1. \A i \in Services : valueHandle'[i] = NoPeer /\ ranges'[i] = NoPeer
  BY DEF PollForget, handlesAfter, Ended
<1>2. told' = {} /\ ~ _remoteRequestInProgress'
  BY DEF PollForget, Ended
<1>3. UNCHANGED <<link, evts, _connectionHandle, _peripheralConnected>> /\ up' = up
  BY DEF PollForget, sdVars, up
<1> QED
  BY <1>1, <1>2, <1>3 DEF Ended, Alone, Unknown

\* Nothing else changes what is left of a link that has ended.
LEMMA EndedStays ==
    ASSUME TypeInv, Ended, ending # Invalid, ~shared', [Next]_vars, ~ PollForget
    PROVE  Ended' /\ ending' = ending
<1> USE DEF TypeInv
<1>0. ASSUME UNCHANGED <<link, evts, tableVars, told>> PROVE Ended' /\ ending' = ending
  BY <1>0 DEF Ended, tableVars, up
<1>1. CASE SoftDevice
  <2>1. ASSUME NEW p \in Peers, SdReport(p) PROVE Ended' /\ ending' = ending
    <3> DEFINE e == [ev |-> "adv_report", conn |-> Invalid, peer |-> p]
    <3>1. e \in Events /\ raise(e) /\ UNCHANGED <<link, tableVars, told>> /\ up' = up
      BY <2>1 DEF Events, SdReport, sdVars, libVars, remoteVars, up
    <3>2. \A k \in DOMAIN evts' : evts'[k].ev = "adv_report"
      BY <3>1, Raised DEF Ended
    <3> QED
      BY <3>1, <3>2 DEF Ended, tableVars
  <2>2. ASSUME NEW h \in Conns, SdConnect(h) PROVE FALSE
    BY <2>2 DEF SdConnect
  <2>3. \A h \in Conns : queued[h] = 0 /\ proc[h] = NoProc /\ h \notin confirming /\ h \notin up
    BY DEF Ended, SdTypes
  <2>4. \A h \in Conns : ~ SdConfirmed(h) /\ ~ SdDisconnect(h)
    BY <2>3 DEF SdConfirmed, SdDisconnect
  <2>5. \A h \in Conns : \A n : ~ (n \in 1 .. queued[h] /\ SdSent(h, n))
    BY <2>3
  <2>6. \A h \in Conns : ~ SdResponse(h) /\ \A c, v : ~ SdWriteCccd(h, c, v)
    BY <2>3, NoProcIsNone DEF SdResponse, SdWriteCccd
  <2>7. \A h \in Conns : \A status, found : ~ SdDiscovered(h, status, found)
    BY <2>3, NoProcIsNone DEF SdDiscovered
  <2> QED
    BY <1>1, <2>1, <2>2, <2>4, <2>5, <2>6, <2>7 DEF SoftDevice
<1>2. CASE Poll
  BY <1>2 DEF Poll, PollAdvReport, PollConnected, PollDisconnected, PollTxComplete, PollWriteCccd,
              PollServices, PollCharacteristics, PollResponse, polls
<1>3. CASE Sketch
  BY <1>0, <1>3 DEF Sketch, Stray, SetValue, Request, sdVars, libVars, remoteVars
<1>4. CASE UNCHANGED vars
  BY <1>0, <1>4 DEF vars, sdVars, libVars, remoteVars
<1> QED
  BY <1>1, <1>2, <1>3, <1>4 DEF Next

\* What every event but the end of the link leaves.
LEMMA KnownHead ==
    ASSUME TypeInv, NEW h \in Conns, NEW p \in Peers, Known(h, p), NEW ev, polls(ev),
           UNCHANGED tableVars, told' \subseteq told \cup {h}
    PROVE  /\ OneLink(h, p)' /\ Entered(h)' /\ up' = up
           /\ ev # "disconnected" => (h \in up)' \/ waits("disconnected", h)'
           /\ ~ waits("connected", h)' /\ ev # "connected"
           /\ ev # "adv_report" => Head(evts).conn = h
           /\ ev \in {"services", "characteristics"} => Head(evts).peer = p
<1>1. /\ DOMAIN evts = 1 .. Len(evts) /\ Len(evts) \in Nat \ {0} /\ Head(evts) = evts[1]
      /\ evts[1].ev = ev /\ link' = link
  BY Polled DEF TypeInv
<1>2. OneLink(h, p)' /\ up' = up
  BY <1>1, OneLinkPolled DEF Known, up
<1>3. Entered(h)'
  BY DEF Known, Entered, tableVars
<1>4. /\ ev # "adv_report" => Head(evts).conn = h
      /\ ev \in {"services", "characteristics"} => Head(evts).peer = p
  BY <1>1 DEF Known, OneLink
<1>5. ev # "connected" /\ ~ waits("connected", h)'
  <2>1. ~ waits("connected", h) /\ 1 \in DOMAIN evts
    BY <1>1 DEF Known
  <2>2. ev # "connected"
    BY <1>1, <1>4, <2>1 DEF waits
  <2> QED
    BY <2>1, <2>2, PolledWaits
<1>6. ev # "disconnected" => (h \in up)' \/ waits("disconnected", h)'
  BY <1>2, PolledWaits DEF Known
<1> QED
  BY <1>2, <1>3, <1>4, <1>5, <1>6

LEMMA SumKept ==
    ASSUME NEW a \in Int, NEW b \in Int, NEW c \in Int, NEW d \in Int, NEW q \in Int,
           NEW m \in Int, c + q + d <= m, a + b = c + d
    PROVE  a + q + b <= m
  OBVIOUS

LEMMA KnownPolled ==
    ASSUME TypeInv, NEW h \in Conns, NEW p \in Peers, Known(h, p), NEW ev, polls(ev),
           ev \notin {"disconnected", "services", "characteristics"},
           UNCHANGED <<tableVars, remoteVars, queued, proc, commanded>>,
           _remoteRequestInProgress' => _remoteRequestInProgress /\ ev # "response",
           ~commanded /\ h \in up => _txBufferCount' + unreported' = _txBufferCount + unreported,
           _txBufferCount' \in Int /\ unreported' \in Int
    PROVE  Known(h, p)'
<1>1. setup' = setup /\ told' = told
  BY DEF polls, remoteVars
<1>2. /\ OneLink(h, p)' /\ Entered(h)' /\ up' = up
      /\ (h \in up)' \/ waits("disconnected", h)'
      /\ ~ waits("connected", h)'
  BY <1>1, KnownHead
<1>3. Discovery(h, p)'
  BY <1>1, DiscoveryPolled DEF Known, stops
<1>4. Requested(h, p)'
  BY <1>1, PolledWaits DEF Known, Requested
<1>5. Buffered(h)'
  <2> SUFFICES ASSUME ~commanded, h \in up
               PROVE  _txBufferCount' + queued'[h] + unreported' <= Capacity
    BY <1>2 DEF Buffered
  <2>1. _txBufferCount + queued[h] + unreported <= Capacity
    BY DEF Known, Buffered
  <2>2. _txBufferCount \in Int /\ queued[h] \in Int /\ unreported \in Int
    BY Facts DEF TypeInv, SdTypes, LocalTypes
  <2>3. _txBufferCount' + unreported' = _txBufferCount + unreported /\ queued'[h] = queued[h]
    OBVIOUS
  <2>4. _txBufferCount' \in Int /\ unreported' \in Int
    OBVIOUS
  <2>5. Capacity \in Int
    BY Facts
  <2> QED
    BY <2>1, <2>2, <2>3, <2>4, <2>5, SumKept
<1> QED
  BY <1>2, <1>3, <1>4, <1>5 DEF Known

\* The discovery moves on.
LEMMA KnownDiscovers ==
    ASSUME TypeInv, NEW h \in Conns, NEW p \in Peers, Known(h, p), NEW ev, polls(ev),
           ev \in {"services", "characteristics"},
           UNCHANGED <<tableVars, queued, localVars, _remoteRequestInProgress, commanded>>,
           told' \subseteq told \cup {h},
           Proceeds(h, p)', proc[h].op = "request" => proc'[h] = proc[h],
           proc'[h] = proc[h] \/ proc'[h] \in Discoveries
    PROVE  Known(h, p)'
<1>1. /\ OneLink(h, p)' /\ Entered(h)' /\ up' = up
      /\ (h \in up)' \/ waits("disconnected", h)'
      /\ ~ waits("connected", h)'
  BY KnownHead
<1>2. /\ Len(evts) \in Nat \ {0}
      /\ DOMAIN evts = 1 .. Len(evts) /\ DOMAIN evts' = 1 .. Len(evts) - 1
      /\ \A k \in 1 .. Len(evts) - 1 : evts'[k] = evts[k + 1]
      /\ Head(evts) = evts[1] /\ evts[1].ev = ev
  BY Polled DEF TypeInv
<1>3. told = {} /\ \A k \in DOMAIN evts : k # 1 => ~ answers(k)
  <2>1. 1 \in DOMAIN evts /\ answers(1)
    BY <1>2 DEF answers
  <2> QED
    BY <2>1 DEF Known, Discovery, Sound
<1>4. ASSUME NEW k \in DOMAIN evts' PROVE ~ answers(k)'
  <2>1. k + 1 \in DOMAIN evts /\ k + 1 # 1 /\ evts'[k] = evts[k + 1]
    BY <1>2
  <2> QED
    BY <1>3, <2>1 DEF answers
<1>5. Discovery(h, p)'
  BY <1>4 DEF Discovery
<1>6. Requested(h, p)'
  <2>1. proc[h].op # "request" /\ proc'[h].op # "request"
    BY <1>3 DEF Known, Requested, Discoveries
  <2> QED
    BY <2>1, PolledWaits DEF Known, Requested
<1>7. Buffered(h)'
  <2>1. unreported' = unreported
    BY DEF polls
  <2> QED
    BY <1>1, <2>1 DEF Known, Buffered, localVars
<1> QED
  BY <1>1, <1>5, <1>6, <1>7 DEF Known

LEMMA KnownServices ==
    ASSUME TypeInv, NEW h \in Conns, NEW p \in Peers, Known(h, p), PollServices
    PROVE  Known(h, p)'
<1> USE DEF TypeInv
<1> DEFINE e == Head(evts)
           g == _connectionHandle[slotOf(e.conn)]
           found == {i \in Services : known(i)}
<1>1. /\ polls("services")
      /\ UNCHANGED <<tableVars, queued, localVars, _remoteRequestInProgress, commanded,
                     valueHandle, connectionIndex, told>>
  BY DEF PollServices
<1>2. e.conn = h /\ e.peer = p
  BY <1>1, KnownHead
<1>3. g = h
  BY <1>2, FirstSlot, SetupFacts DEF Known, Entered
<1>4. /\ Head(evts) = evts[1] /\ evts[1].ev = "services" /\ 1 \in DOMAIN evts /\ setup' = setup
      /\ evts[1] \in Events
  BY <1>1, Polled
<1>5. e.todo \in SUBSET Services /\ e.found \subseteq Services
      /\ (e.status = "end" => e.found = {} /\ e.todo = {})
  BY <1>4, EventFacts
<1>6. /\ told = {} /\ proc[h].op \notin {"services", "characteristics"}
      /\ offered(p) \subseteq foundOn(p) \cup e.found \cup e.todo
      /\ proc[h].op # "request"
  BY <1>4 DEF Known, Discovery, Sound, answers, Requested
<1>7. offered(p) \subseteq Services /\ offered(p)' = offered(p)
  BY <1>4, SetupFacts DEF offered
<1>8. Proceeds(h, p)
  BY DEF Known, Discovery
<1>9. proc[h] = NoProc
  BY <1>6, ProcFacts DEF SdTypes
<1> HIDE DEF e, g
<1>10. CASE e.status = "success"
  <2>1. /\ ranges' = [i \in Services |-> IF i \in e.found THEN e.peer ELSE ranges[i]]
        /\ proc' = started(h, discovery("services", 0, e.todo))
        /\ UNCHANGED _remoteServiceDiscoveryIndex
    BY <1>3, <1>10 DEF PollServices, e, g
  <2> DEFINE q == discovery("services", 0, e.todo)
  <2>2. q \in Discoveries /\ q.op = "services" /\ q.todo = e.todo
    BY <1>5, DiscoveryType DEF discovery
  <2>3. proc' = started(h, q)
    BY <2>1
  <2> HIDE DEF q
  <2>4. proc'[h] = proc[h] \/ proc'[h] = q
    BY <2>2, <2>3, StartedType
  <2>5. foundOn(p)' = foundOn(p) \cup e.found
    BY <1>2, <1>5, <2>1 DEF foundOn
  <2>6. \A i \in Services : ranges'[i] \in {NoPeer, p}
    BY <1>2, <1>8, <2>1 DEF Proceeds
  <2>7. \A i \in Services : valueHandle'[i] # NoPeer => heldOn(i, p)'
    BY <1>1, <1>8 DEF Proceeds, heldOn
  <2>8. Proceeds(h, p)'
    BY <1>1, <1>6, <1>7, <1>9, <2>2, <2>4, <2>5, <2>6, <2>7, NoProcIsNone DEF Proceeds
  <2> QED
    BY <1>1, <1>6, <2>2, <2>4, <2>8, KnownDiscovers
<1>11. CASE e.status = "end" /\ found # {}
  <2>1. /\ _remoteServiceDiscoveryIndex' = Min(found) /\ ranges' = ranges
        /\ proc' \in characteristicsOf(Min(found), h, p)
    BY <1>2, <1>3, <1>11 DEF PollServices, e, g
  <2>2. /\ Min(found) \in found /\ Min(found) \in Services /\ Min(found) \in Nat
        /\ \A i \in found : Min(found) <= i
    BY <1>11, KnownIndex
  <2>3. PICK m \in Nat : m = Min(found)
    BY <2>2
  <2>4. ranges[m] = p
    BY <1>8, <2>2, <2>3 DEF Proceeds, known
  <2>5. PICK todo \in SUBSET Services :
            /\ proc' = started(h, discovery("characteristics", m, todo))
            /\ todo = {m} /\ discovery("characteristics", m, todo) \in Discoveries
    BY <2>1, <2>2, <2>3, <2>4, CharacteristicsType
  <2>6. PICK q \in Discoveries : q = discovery("characteristics", m, todo)
    BY <2>5
  <2>7. q.op = "characteristics" /\ q.todo = {m}
    BY <2>5, <2>6 DEF discovery
  <2>8. proc'[h] = proc[h] \/ proc'[h] = q
    BY <2>5, <2>6, StartedType
  <2>9. offered(p) \subseteq foundOn(p) /\ foundOn(p) \subseteq found
    BY <1>5, <1>6, <1>11, Facts DEF foundOn, known
  <2>10. foundOn(p)' = foundOn(p)
    BY <2>1 DEF foundOn
  <2>11. \A i \in offered(p) : ~ (i < m)
    <3> SUFFICES ASSUME NEW i \in offered(p) PROVE ~ (i < m)
      OBVIOUS
    <3>1. i \in found /\ i \in Nat
      BY <1>7, <2>9, Facts
    <3>2. m <= i
      BY <2>2, <2>3, <3>1
    <3> QED
      BY <3>1, <3>2
  <2>12. Underway(p, {m})'
    BY <1>7, <2>1, <2>3, <2>9, <2>10, <2>11 DEF Underway
  <2>13. \A i \in Services : valueHandle'[i] # NoPeer => heldOn(i, p)'
    BY <1>1, <1>8 DEF Proceeds, heldOn
  <2>14. proc'[h].op = "characteristics" => Underway(p, proc[h].todo)'
    BY <1>9, <2>7, <2>8, <2>12, NoProcIsNone DEF Underway
  <2>15. Proceeds(h, p)'
    BY <1>1, <1>6, <1>8, <1>9, <2>1, <2>7, <2>8, <2>13, <2>14, NoProcIsNone DEF Proceeds
  <2> QED
    BY <1>1, <1>6, <2>8, <2>15, KnownDiscovers
<1>12. CASE UNCHANGED <<proc, ranges, _remoteServiceDiscoveryIndex>>
  <2>1. UNCHANGED <<remoteVars, setup>> /\ stops(h)
    BY <1>1, <1>4, <1>12 DEF remoteVars, stops
  <2>2. Proceeds(h, p)'
    BY <1>8, <2>1, ProcStill
  <2> QED
    BY <1>1, <1>12, <2>2, KnownDiscovers
<1> QED
  BY <1>10, <1>11, <1>12 DEF PollServices, e


LEMMA KnownCharacteristics ==
    ASSUME TypeInv, NEW h \in Conns, NEW p \in Peers, Known(h, p), PollCharacteristics
    PROVE  Known(h, p)'
<1> USE DEF TypeInv
<1> DEFINE e == Head(evts)
           s == slotOf(e.conn)
           g == _connectionHandle[s]
           later == laterServices(_remoteServiceDiscoveryIndex)
<1>1. /\ polls("characteristics")
      /\ UNCHANGED <<tableVars, queued, localVars, _remoteRequestInProgress, commanded, ranges>>
      /\ told' = told \/ told' = told \cup {e.conn}
  BY DEF PollCharacteristics
<1>2. e.conn = h /\ e.peer = p
  <2>1. Head(evts).conn \in Conns
    BY <1>1, Polled, EventFacts
  <2>2. Head(evts) = evts[1] /\ 1 \in DOMAIN evts /\ evts[1].ev = "characteristics"
    BY <1>1, Polled
  <2> QED
    BY <2>2 DEF Known, OneLink
<1>3. s = 0 /\ g = h
  BY <1>2, FirstSlot, SetupFacts DEF Known, Entered
<1>4. /\ Head(evts) = evts[1] /\ evts[1].ev = "characteristics" /\ 1 \in DOMAIN evts
      /\ setup' = setup /\ evts[1] \in Events
  BY <1>1, Polled
<1>5. e.todo \in SUBSET Services /\ e.found \subseteq Services
      /\ (e.status = "end" => e.found = {} /\ e.todo = {})
  BY <1>4, EventFacts
<1>6. /\ told = {} /\ proc[h].op \notin {"services", "characteristics"}
      /\ Underway(p, e.found \cup e.todo)
      /\ proc[h].op # "request"
  BY <1>4 DEF Known, Discovery, Sound, answers, Requested
<1>7. /\ offered(p) \subseteq Services /\ offered(p)' = offered(p)
      /\ foundOn(p)' = foundOn(p) /\ offered(p) \subseteq foundOn(p)
  BY <1>1, <1>4, <1>6, SetupFacts DEF offered, foundOn, Underway
<1>8. Proceeds(h, p)
  BY DEF Known, Discovery
<1>9. proc[h] = NoProc
  BY <1>6, ProcFacts DEF SdTypes
<1>10. PICK index \in Nat : index = _remoteServiceDiscoveryIndex
  BY DEF RemoteTypes
<1>11. /\ \A i \in offered(p) : i < index => heldOn(i, p)
       /\ index \in offered(p) => heldOn(index, p) \/ index \in e.found \cup e.todo
  BY <1>6, <1>10 DEF Underway
<1>12. told' \subseteq told \cup {h}
  BY <1>1, <1>2
<1> HIDE DEF e, g, s
<1>13. CASE e.status = "success"
  <2>1. /\ valueHandle' = [i \in Services |-> IF i \in e.found \cap {index} THEN p
                                             ELSE valueHandle[i]]
        /\ connectionIndex' = [i \in Services |-> IF i \in e.found \cap {index}
                                                  THEN connectionIndex[i] \cup {0}
                                                  ELSE connectionIndex[i]]
        /\ proc' = IF known(index) THEN started(h, discovery("characteristics", index, e.todo))
                   ELSE proc
        /\ UNCHANGED <<_remoteServiceDiscoveryIndex, told>>
    BY <1>2, <1>3, <1>10, <1>13 DEF PollCharacteristics, e, g, s
  <2>2. PICK q : q = discovery("characteristics", index, e.todo)
    OBVIOUS
  <2>3. q \in Discoveries /\ q.op = "characteristics" /\ q.todo = e.todo
    BY <1>5, <2>2, DiscoveryType DEF discovery
  <2>4. proc'[h] = proc[h] \/ proc'[h] = q
    BY <2>1, <2>2, <2>3, StartedType
  <2>5. \A i \in Services : heldOn(i, p) => heldOn(i, p)'
    BY <2>1 DEF heldOn
  <2>6. index \in Services /\ index \in e.found => heldOn(index, p)'
    BY <2>1 DEF heldOn
  <2>7. \A i \in Services : valueHandle'[i] # NoPeer => heldOn(i, p)'
    <3> SUFFICES ASSUME NEW i \in Services, valueHandle'[i] # NoPeer PROVE heldOn(i, p)'
      OBVIOUS
    <3>1. CASE i \in e.found \cap {index}
      BY <2>6, <3>1
    <3>2. CASE i \notin e.found \cap {index}
      <4>1. valueHandle[i] # NoPeer
        BY <2>1, <3>2
      <4> QED
        BY <1>8, <2>5, <4>1 DEF Proceeds
    <3> QED
      BY <3>1, <3>2
  <2>8. Underway(p, q.todo)'
    <3>1. \A i \in offered(p) : i < index => heldOn(i, p)'
      BY <1>7, <1>11, <2>5
    <3>2. index \in offered(p) => heldOn(index, p)' \/ index \in q.todo
      BY <1>7, <1>11, <2>3, <2>5, <2>6
    <3> QED
      BY <1>7, <1>10, <2>1, <3>1, <3>2 DEF Underway
  <2>9. Proceeds(h, p)'
    <3>1. told' = {} /\ ranges' = ranges
      BY <1>1, <1>6, <2>1
    <3>2. \A i \in Services : ranges'[i] \in {NoPeer, p}
      BY <1>8, <3>1 DEF Proceeds
    <3>3. proc'[h].op = "characteristics" => Underway(p, proc[h].todo)'
      BY <1>9, <2>4, <2>8, NoProcIsNone DEF Underway
    <3>4. proc'[h].op # "services"
      BY <1>9, <2>3, <2>4, NoProcIsNone
    <3> QED
      BY <2>7, <3>1, <3>2, <3>3, <3>4 DEF Proceeds
  <2> QED
    BY <1>1, <1>6, <1>12, <2>3, <2>4, <2>9, KnownDiscovers
<1>14. CASE e.status = "end" /\ later # {}
  <2>1. /\ _remoteServiceDiscoveryIndex' = Min(later)
        /\ proc' \in characteristicsOf(Min(later), h, p)
        /\ UNCHANGED <<valueHandle, connectionIndex, told>>
    BY <1>2, <1>3, <1>14 DEF PollCharacteristics, e, g, s
  <2>2. later \in SUBSET Services
    BY DEF laterServices
  <2>3. /\ Min(later) \in later /\ Min(later) \in Services /\ Min(later) \in Nat
        /\ \A i \in later : Min(later) <= i
    BY <1>14, <2>2, KnownIndex
  <2>4. PICK m \in Nat : m = Min(later)
    BY <2>3
  <2>5. ranges[m] = p
    BY <1>8, <2>3, <2>4 DEF Proceeds, laterServices, known
  <2>6. PICK todo \in SUBSET Services :
            /\ proc' = started(h, discovery("characteristics", m, todo))
            /\ todo = {m} /\ discovery("characteristics", m, todo) \in Discoveries
    BY <2>1, <2>3, <2>4, <2>5, CharacteristicsType
  <2>7. PICK q \in Discoveries : q = discovery("characteristics", m, todo)
    BY <2>6
  <2>8. q.op = "characteristics" /\ q.todo = {m}
    BY <2>6, <2>7 DEF discovery
  <2>9. proc'[h] = proc[h] \/ proc'[h] = q
    BY <2>6, <2>7, StartedType
  <2>10. \A i : heldOn(i, p)' <=> heldOn(i, p)
    BY <2>1 DEF heldOn
  <2>11. ASSUME NEW i \in offered(p), i < m PROVE heldOn(i, p)
    <3>1. i \in Services /\ i \in Nat /\ ranges[i] = p /\ p # NoPeer
      BY <1>7, Facts DEF foundOn
    <3>2. i \notin later
      BY <2>3, <2>4, <2>11, <3>1
    <3>3. ~ (i > index)
      BY <1>10, <3>1, <3>2 DEF laterServices, known
    <3>4. i < index \/ i = index
      BY <3>1, <3>3
    <3>5. e.found \cup e.todo = {}
      BY <1>5, <1>14
    <3> QED
      BY <1>11, <3>4, <3>5
  <2>12. Underway(p, {m})'
    BY <1>7, <2>1, <2>4, <2>10, <2>11 DEF Underway
  <2>13. Proceeds(h, p)'
    <3>1. told' = {} /\ ranges' = ranges
      BY <1>1, <1>6, <2>1
    <3>2. \A i \in Services : ranges'[i] \in {NoPeer, p}
      BY <1>8, <3>1 DEF Proceeds
    <3>3. proc'[h].op = "characteristics" => Underway(p, proc[h].todo)'
      BY <1>9, <2>8, <2>9, <2>12, NoProcIsNone DEF Underway
    <3>4. proc'[h].op # "services"
      BY <1>9, <2>8, <2>9, NoProcIsNone
    <3>5. \A i \in Services : valueHandle'[i] # NoPeer => heldOn(i, p)'
      BY <1>8, <2>1, <2>10 DEF Proceeds
    <3> QED
      BY <3>1, <3>2, <3>3, <3>4, <3>5 DEF Proceeds
  <2> QED
    BY <1>1, <1>6, <1>12, <2>9, <2>13, KnownDiscovers
<1>15. CASE e.status = "end" /\ later = {}
  <2>1. UNCHANGED <<proc, valueHandle, connectionIndex, _remoteServiceDiscoveryIndex>>
    BY <1>15 DEF PollCharacteristics, e
  <2>2. \A i : heldOn(i, p)' <=> heldOn(i, p)
    BY <2>1 DEF heldOn
  <2>3. ASSUME NEW i \in offered(p) PROVE heldOn(i, p)
    <3>1. i \in Services /\ i \in Nat /\ ranges[i] = p /\ p # NoPeer
      BY <1>7, Facts DEF foundOn
    <3>2. ~ (i > index)
      BY <1>10, <1>15, <3>1 DEF laterServices, known
    <3>3. i < index \/ i = index
      BY <3>1, <3>2
    <3>4. e.found \cup e.todo = {}
      BY <1>5, <1>15
    <3> QED
      BY <1>11, <3>3, <3>4
  <2>4. Proceeds(h, p)'
    <3>1. \A i \in Services : ranges'[i] \in {NoPeer, p}
      BY <1>1, <1>8 DEF Proceeds
    <3>2. \A i \in Services : valueHandle'[i] # NoPeer => heldOn(i, p)'
      BY <1>8, <2>1, <2>2 DEF Proceeds
    <3>3. (\A i \in offered(p) : heldOn(i, p))'
      BY <1>7, <2>2, <2>3
    <3>4. proc'[h].op = "none"
      BY <1>9, <2>1, NoProcIsNone
    <3> QED
      BY <3>1, <3>2, <3>3, <3>4 DEF Proceeds
  <2> QED
    BY <1>1, <1>12, <2>1, <2>4, KnownDiscovers
<1>16. CASE UNCHANGED <<proc, valueHandle, connectionIndex, _remoteServiceDiscoveryIndex, told>>
  <2>1. UNCHANGED <<remoteVars, setup>> /\ stops(h)
    BY <1>1, <1>4, <1>16 DEF remoteVars, stops
  <2>2. Proceeds(h, p)'
    BY <1>8, <2>1, ProcStill
  <2> QED
    BY <1>1, <1>12, <1>16, <2>2, KnownDiscovers
<1> QED
  BY <1>13, <1>14, <1>15, <1>16 DEF PollCharacteristics, e

\* poll() in a session.
LEMMA SessionPoll ==
    ASSUME TypeInv, CountInv, Session, ending = Invalid, Poll
    PROVE  IF ending' = Invalid THEN Session' ELSE Ended'
<1> USE DEF TypeInv
<1>0. /\ ~ PollForget /\ (~ PollDisconnected => ending' = Invalid)
      /\ PollDisconnected => ending' # Invalid
  <2>1. PollDisconnected => ending' # Invalid
    BY Polled, EventFacts, Facts DEF PollDisconnected
  <2> QED
    BY <2>1 DEF PollForget, Poll, PollAdvReport, PollConnected, PollTxComplete, PollWriteCccd,
           PollServices, PollCharacteristics, PollResponse, tableVars
<1> SUFFICES \/ Session' /\ ~ PollDisconnected
             \/ Ended' /\ PollDisconnected
  BY <1>0
<1>1. CASE Alone
  <2>1. PICK ev : polls(ev)
    BY <1>0 DEF Poll, PollAdvReport, PollConnected, PollDisconnected, PollTxComplete, PollWriteCccd,
                PollServices, PollCharacteristics, PollResponse
  <2>2. ev = "adv_report"
    BY <1>1, <2>1, Polled DEF Alone
  <2>3. (\E connects \in BOOLEAN : PollAdvReport(connects)) /\ ~ PollDisconnected
    BY <1>0, <2>1, <2>2 DEF polls, Poll, PollAdvReport, PollConnected, PollDisconnected, PollTxComplete,
           PollWriteCccd, PollServices, PollCharacteristics, PollResponse
  <2>4. Alone'
    BY <1>1, <2>3, AlonePolled DEF PollAdvReport
  <2> QED
    BY <2>3, <2>4 DEF Session
<1>2. ASSUME NEW h \in Conns, NEW p \in Peers, Coming(h, p)
      PROVE  Session' /\ ~ PollDisconnected
  <2>1. PICK ev : polls(ev) /\ ev = Head(evts).ev
    BY <1>0 DEF Poll, PollAdvReport, PollConnected, PollDisconnected, PollTxComplete, PollWriteCccd,
                PollServices, PollCharacteristics, PollResponse, polls
  <2>2. ev \in {"adv_report", "connected"}
    BY <1>2, <2>1, ComingHead
  <2>3. ((\E connects \in BOOLEAN : PollAdvReport(connects)) \/ PollConnected) /\ ~ PollDisconnected
    BY <1>0, <2>1, <2>2 DEF polls, Poll, PollAdvReport, PollConnected, PollDisconnected, PollTxComplete,
           PollWriteCccd, PollServices, PollCharacteristics, PollResponse
  <2>4. ASSUME NEW connects \in BOOLEAN, PollAdvReport(connects) PROVE Coming(h, p)'
    BY <1>2, <2>4, ComingPolled DEF PollAdvReport
  <2>5. ASSUME PollConnected PROVE Known(h, p)'
    BY <1>2, <2>5, ComingKnown
  <2> QED
    BY <2>3, <2>4, <2>5 DEF Session
<1>3. ASSUME NEW h \in Conns, NEW p \in Peers, Known(h, p)
      PROVE  \/ Session' /\ ~ PollDisconnected
             \/ Ended' /\ PollDisconnected
  <2>1. ASSUME NEW connects \in BOOLEAN, PollAdvReport(connects) PROVE Known(h, p)'
    <3>1. /\ polls("adv_report") /\ UNCHANGED <<tableVars, remoteVars, queued, proc, commanded>>
          /\ UNCHANGED <<_remoteRequestInProgress, _txBufferCount, unreported>>
      BY <2>1 DEF PollAdvReport, localVars, polls
    <3>2. _txBufferCount \in Int
      BY Facts DEF LocalTypes
    <3> QED
      BY <1>3, <3>1, <3>2, KnownPolled
  <2>2. ~ PollConnected
    <3>1. ASSUME PollConnected PROVE FALSE
      <4>1. polls("connected") /\ Head(evts) = evts[1] /\ evts[1].ev = "connected" /\ 1 \in DOMAIN evts
        BY <3>1, Polled DEF PollConnected
      <4>2. evts[1].conn = h
        BY <1>3, <4>1 DEF Known, OneLink
      <4> QED
        BY <1>3, <4>1, <4>2 DEF Known, waits
    <3> QED
      BY <3>1
  <2>3. ASSUME PollDisconnected PROVE Ended'
    BY <1>3, <2>3, KnownEnds
  <2>4. ASSUME PollTxComplete PROVE Known(h, p)'
    <3>1. /\ polls("tx_complete") /\ UNCHANGED <<tableVars, remoteVars, queued, proc, commanded>>
          /\ UNCHANGED _remoteRequestInProgress
          /\ unreported' = unreported - Head(evts).count
          /\ _txBufferCount' = (_txBufferCount + Head(evts).count) % Byte
      BY <2>4 DEF PollTxComplete, polls
    <3>2. Head(evts) = evts[1] /\ evts[1].ev = "tx_complete" /\ evts[1] \in Events /\ evts # <<>>
      BY <3>1, Polled DEF polls
    <3>3. PICK n : n = Head(evts).count
      OBVIOUS
    <3>4. n \in Nat /\ n = given(evts[1])
      BY <3>2, <3>3, EventFacts, Facts DEF given
    <3>5. n <= unreported /\ unreported \in Nat
      BY <3>2, <3>4, CountFacts
    <3>6. _txBufferCount \in Nat /\ Byte \in Nat \ {0} /\ Capacity < Byte /\ Capacity \in Nat
      BY Facts DEF LocalTypes
    <3>7. unreported' = unreported - n /\ _txBufferCount' = (_txBufferCount + n) % Byte
      BY <3>1, <3>3
    <3>8. unreported' \in Int /\ _txBufferCount' \in Int
      <4>1. _txBufferCount + n \in Int /\ unreported - n \in Int
        BY <3>4, <3>5, <3>6
      <4>2. (_txBufferCount + n) % Byte \in Int
        BY <3>6, <4>1
      <4> QED
        BY <3>7, <4>1, <4>2
    <3>9. ASSUME ~commanded, h \in up
          PROVE  _txBufferCount' + unreported' = _txBufferCount + unreported
      <4>1. _txBufferCount + queued[h] + unreported <= Capacity
        BY <1>3, <3>9 DEF Known, Buffered
      <4>2. PICK q \in Nat : q = queued[h]
        BY Facts DEF SdTypes
      <4>3. PICK b \in Nat, u \in Nat : b = _txBufferCount /\ u = unreported
        BY <3>5, <3>6
      <4>4. b + q + u <= Capacity /\ n <= u
        BY <3>5, <4>1, <4>2, <4>3
      <4>5. b + n \in 0 .. Byte - 1
        BY <3>4, <3>6, <4>4
      <4>6. (b + n) % Byte = b + n
        BY <3>6, <4>5
      <4>7. unreported' = u - n /\ _txBufferCount' = b + n
        BY <3>7, <4>3, <4>6
      <4> QED
        BY <3>4, <4>3, <4>7
    <3> QED
      BY <1>3, <3>1, <3>8, <3>9, KnownPolled
  <2>5. ASSUME PollWriteCccd PROVE Known(h, p)'
    <3>1. /\ polls("write_cccd") /\ UNCHANGED <<tableVars, remoteVars, queued, proc, commanded>>
          /\ UNCHANGED <<_remoteRequestInProgress, _txBufferCount, unreported>>
      BY <2>5 DEF PollWriteCccd, polls
    <3>2. _txBufferCount \in Int
      BY Facts DEF LocalTypes
    <3> QED
      BY <1>3, <3>1, <3>2, KnownPolled
  <2>6. ASSUME PollResponse PROVE Known(h, p)'
    <3>1. /\ polls("response") /\ UNCHANGED <<tableVars, remoteVars, queued, proc, commanded>>
          /\ ~ _remoteRequestInProgress' /\ UNCHANGED <<_txBufferCount, unreported>>
      BY <2>6 DEF PollResponse, polls, localVars
    <3>2. _txBufferCount \in Int
      BY Facts DEF LocalTypes
    <3> QED
      BY <1>3, <3>1, <3>2, KnownPolled
  <2>7. ASSUME PollServices \/ PollCharacteristics PROVE Known(h, p)'
    BY <1>3, <2>7, KnownServices, KnownCharacteristics
  <2> QED
    BY <1>0, <2>1, <2>2, <2>3, <2>4, <2>5, <2>6, <2>7 DEF Poll, Session
<1> QED
  BY <1>1, <1>2, <1>3 DEF Session


\* A value is sent on no more links than buffers are counted for.
LEMMA SetValueKeeps ==
    ASSUME TypeInv, NEW c \in setup.chars, SetValue(c), NEW h \in Conns
    PROVE  /\ _txBufferCount' \in Int /\ queued'[h] \in Int
           /\ _txBufferCount' + queued'[h] <= _txBufferCount + queued[h]
           /\ (\A s \in table : _connectionHandle[s] = Invalid) => queued'[h] = queued[h]
<1> DEFINE left == IF notifies(c) THEN _txBufferCount - 1 ELSE _txBufferCount
<1>1. _txBufferCount \in 0 .. Byte - 1 /\ queued[h] \in Int
  BY Facts DEF TypeInv, LocalTypes, SdTypes
<1>2. \A n \in 1 .. Byte - 1 : oneLess(n) = n - 1
  BY Facts DEF oneLess
<1>3. left \in 0 .. Byte - 1 /\ left = IF notifies(c) THEN oneLess(_txBufferCount) ELSE _txBufferCount
  BY <1>1, <1>2, Facts DEF notifies
<1> HIDE DEF left
<1>4. _txBufferCount' = left \/ (_txBufferCount' = oneLess(left) /\ left > 0)
  BY <1>3 DEF SetValue
<1>5. left \in Int /\ (_txBufferCount' = left \/ _txBufferCount' = left - 1)
  BY <1>2, <1>3, <1>4, Facts
<1>6. /\ queued'[h] = queued[h] \/ (queued'[h] = queued[h] + 1 /\ notifies(c))
      /\ (\A s \in table : _connectionHandle[s] = Invalid) => queued'[h] = queued[h]
  BY Facts DEF SetValue
<1> QED
  BY <1>1, <1>5, <1>6 DEF left

LEMMA SessionSetValue ==
    ASSUME TypeInv, Session, NEW c \in setup.chars, SetValue(c)
    PROVE  Session'
<1>1. /\ UNCHANGED <<link, proc, evts, setup, tableVars, remoteVars,
                     _remoteRequestInProgress, commanded, unreported>>
      /\ up' = up /\ setup \in Setups
  BY DEF SetValue, history, up, TypeInv
<1>2. \A ev, h : waits(ev, h)' <=> waits(ev, h)
  BY <1>1 DEF waits
<1>3. \A h, p : OneLink(h, p)' <=> OneLink(h, p)
  BY <1>1 DEF OneLink
<1>4. ASSUME Alone PROVE Session'
  BY <1>1, <1>4, UnknownStill DEF Alone, Session
<1>5. ASSUME NEW h \in Conns, NEW p \in Peers, Coming(h, p) PROVE Session'
  <2>1. Unknown /\ table \subseteq Slots
    BY <1>1, <1>5, SetupFacts DEF Coming
  <2>2. queued'[h] = queued[h]
    BY <2>1, SetValueKeeps DEF Unknown
  <2>3. Coming(h, p)'
    BY <1>1, <1>2, <1>3, <1>5, <2>1, <2>2, UnknownStill DEF Coming
  <2> QED
    BY <2>3 DEF Session
<1>6. ASSUME NEW h \in Conns, NEW p \in Peers, Known(h, p) PROVE Session'
  <2>1. Discovery(h, p)'
    BY <1>1, <1>6, DiscoveryStill DEF Known, stops
  <2>2. Requested(h, p)'
    BY <1>1, <1>2, <1>6 DEF Known, Requested, remoteVars
  <2>3. Buffered(h)'
    <3> SUFFICES ASSUME ~commanded, h \in up
                 PROVE  _txBufferCount' + queued'[h] + unreported' <= Capacity
      BY <1>1 DEF Buffered
    <3>1. _txBufferCount + queued[h] + unreported <= Capacity
      BY <1>6 DEF Known, Buffered
    <3>2. /\ _txBufferCount' \in Int /\ queued'[h] \in Int
          /\ _txBufferCount' + queued'[h] <= _txBufferCount + queued[h]
      BY SetValueKeeps
    <3>3. _txBufferCount \in Int /\ queued[h] \in Int /\ unreported \in Int /\ Capacity \in Int
      BY Facts DEF TypeInv, LocalTypes, SdTypes
    <3> QED
      BY <1>1, <3>1, <3>2, <3>3
  <2>4. Entered(h)'
    BY <1>1, <1>6, EnteredStill DEF Known
  <2>5. Known(h, p)'
    BY <1>1, <1>2, <1>3, <1>6, <2>1, <2>2, <2>3, <2>4 DEF Known
  <2> QED
    BY <2>5 DEF Session
<1> QED
  BY <1>4, <1>5, <1>6 DEF Session

\* What the sketch asks for it asks of the link of the session.
LEMMA AskedOfLink ==
    ASSUME TypeInv, NEW h \in Conns, NEW p \in Peers, Known(h, p), NEW i \in Services, heldOn(i, p)
    PROVE  asked(i) = {h} \cap up
<1>1. 0 \in connectionIndex[i] \cap table /\ table \subseteq Slots
  BY SetupFacts DEF TypeInv, heldOn
<1>2. /\ \A s \in Slots : _connectionHandle[s] = IF s = 0 THEN h ELSE Invalid
      /\ up \subseteq {h} /\ Invalid \notin up
  BY Facts DEF Known, Entered, OneLink, up
<1> QED
  BY <1>1, <1>2 DEF asked

LEMMA SessionRequest ==
    ASSUME TypeInv, Session, NEW i \in setup.services, NEW operation, Request(i, operation)
    PROVE  Session'
<1> USE DEF TypeInv
<1>1. /\ UNCHANGED <<link, evts, setup, tableVars, remoteVars, localVars, unreported>>
      /\ up' = up /\ i \in Services /\ told # {} /\ _remoteRequestInProgress'
  BY SetupFacts DEF Request, up
<1>2. \A ev, h : waits(ev, h)' <=> waits(ev, h)
  BY <1>1 DEF waits
<1>3. PICK h \in Conns, p \in Peers : Known(h, p)
  BY <1>1 DEF Session, Alone, Coming, Unknown
<1>4. OneLink(h, p)'
  BY <1>1, <1>3 DEF OneLink, Known
<1>5. Entered(h)'
  BY <1>1, <1>3, EnteredStill DEF Known
<1>6. valueHandle[i] = p /\ asked(i) = {h} \cap up
  <2>1. heldOn(i, p)
    BY <1>1, <1>3 DEF Request, discovered, Known, Discovery, Proceeds
  <2> QED
    BY <1>1, <1>3, <2>1, AskedOfLink DEF heldOn
<1>7. proc[h] \in Procs /\ proc[h].op \notin {"services", "characteristics"}
  BY <1>1, <1>3 DEF SdTypes, Known, Discovery, Proceeds
<1>8. proc[h] = NoProc \/ proc[h].op = "request"
  BY <1>7, ProcFacts
<1>9. CASE requestOf(i, operation) = "request"
  <2>1. /\ UNCHANGED <<queued, commanded>>
        /\ proc'[h] = IF h \in up /\ proc[h] = NoProc
                      THEN [op |-> "request", service |-> i, handle |-> p] ELSE proc[h]
    BY <1>6, <1>9 DEF Request
  <2>2. stops(h)
    BY <2>1 DEF stops
  <2>3. Discovery(h, p)'
    BY <1>1, <1>3, <2>2, DiscoveryStill DEF Known
  <2>4. proc'[h].op = "request" => proc'[h].handle = p
    BY <1>3, <2>1 DEF Known, Requested
  <2>5. proc'[h].op = "request" \/ waits("disconnected", h)
    BY <1>3, <1>8, <2>1 DEF Known
  <2>6. Requested(h, p)'
    BY <1>1, <1>2, <2>4, <2>5 DEF Requested, remoteVars
  <2>7. Buffered(h)'
    BY <1>1, <1>3, <2>1 DEF Known, Buffered, localVars
  <2>8. Known(h, p)'
    BY <1>1, <1>2, <1>3, <1>4, <1>5, <2>3, <2>6, <2>7 DEF Known
  <2> QED
    BY <2>8 DEF Session
<1>10. CASE requestOf(i, operation) = "command"
  <2>1. proc' = proc /\ commanded'
    BY <1>10 DEF Request
  <2>2. Discovery(h, p)'
    BY <1>1, <1>3, <2>1, DiscoveryStill DEF Known, stops
  <2>3. Requested(h, p)' /\ Buffered(h)'
    BY <1>1, <1>3, <2>1 DEF Known, Requested, Buffered, remoteVars
  <2>4. Known(h, p)'
    BY <1>1, <1>2, <1>3, <1>4, <1>5, <2>2, <2>3 DEF Known
  <2> QED
    BY <2>4 DEF Session
<1> QED
  BY <1>9, <1>10 DEF Request

LEMMA SessionStep == TypeInv /\ TypeInv' /\ CountInv /\ SessionInv /\ [Next]_vars => SessionInv'
<1> SUFFICES ASSUME TypeInv, TypeInv', CountInv, SessionInv, [Next]_vars, ~shared'
             PROVE  IF ending' = Invalid THEN Session' ELSE Ended'
  BY DEF SessionInv
<1>0. ~shared
  <2>1. CASE SoftDevice
    <3>1. ASSUME NEW h \in Conns, NEW status, NEW found, SdDiscovered(h, status, found) PROVE ~shared
      BY <3>1 DEF SdDiscovered, history
    <3>2. ASSUME NEW h \in Conns, NEW c, NEW v, SdWriteCccd(h, c, v) PROVE ~shared
      BY <3>2 DEF SdWriteCccd, history
    <3>3. ASSUME NEW h \in Conns, NEW n, SdSent(h, n) PROVE ~shared
      BY <3>3 DEF SdSent
    <3>4. ASSUME NEW h \in Conns,
                 SdConnect(h) \/ SdDisconnect(h) \/ SdConfirmed(h) \/ SdResponse(h)
          PROVE  ~shared
      BY <3>4 DEF SdConnect, SdDisconnect, SdConfirmed, SdResponse, history
    <3>5. ASSUME NEW p \in Peers, SdReport(p) PROVE ~shared
      BY <3>5 DEF SdReport, history
    <3> QED
      BY <2>1, <3>1, <3>2, <3>3, <3>4, <3>5 DEF SoftDevice
  <2>2. CASE Poll
    BY <2>2 DEF Poll, PollAdvReport, PollConnected, PollDisconnected, PollForget, PollTxComplete,
           PollWriteCccd, PollServices, PollCharacteristics, PollResponse, history
  <2>3. CASE Sketch
    BY <2>3 DEF Sketch, Stray, SetValue, Request, history
  <2> QED
    BY <2>1, <2>2, <2>3 DEF Next, vars, history
<1>1. CASE ending # Invalid
  <2>1. Ended
    BY <1>0, <1>1 DEF SessionInv
  <2>2. CASE PollForget
    BY <2>1, <2>2, EndedForgets DEF PollForget, Session
  <2> QED
    BY <1>1, <2>1, <2>2, EndedStays
<1>2. CASE ending = Invalid
  <2>1. Session
    BY <1>0, <1>2 DEF SessionInv
  <2>2. CASE SoftDevice
    <3>1. ending' = Invalid
      BY <1>2, <2>2, SdStepType DEF libVars, tableVars
    <3> QED
      BY <2>1, <2>2, <3>1, SessionSoftDevice
  <2>3. CASE Sketch
    <3>1. ending' = Invalid
      BY <1>2, <2>3 DEF Sketch, Stray, SetValue, Request, libVars, tableVars
    <3>2. ASSUME Stray PROVE Session'
      BY <2>1, <3>2, SessionStill DEF Stray, sdVars, history
    <3> QED
      BY <2>1, <2>3, <3>1, <3>2, SessionSetValue, SessionRequest DEF Sketch
  <2>4. CASE UNCHANGED vars
    BY <1>2, <2>1, <2>4, SessionStill DEF vars, sdVars, libVars, tableVars, history
  <2> QED
    BY <1>2, <2>1, <2>2, <2>3, <2>4, SessionPoll DEF Next
<1> QED
  BY <1>1, <1>2

LEMMA SessionInvariance == Spec => []SessionInv
<1>1. Init => SessionInv
  BY DEF Init, SessionInv, Session, Alone, Unknown, up
<1> QED
  BY <1>1, SessionStep, TypeInvariance, CountInvariance, PTL DEF Spec


\* What a session shows of the link that is up.
LEMMA SessionShows ==
    ASSUME TypeInv, Session
    PROVE  AsksOwner /\ RequestTracked /\ ReportsAllServices /\ NotOverdrawn
<1> USE DEF TypeInv
<1>0. Session
  OBVIOUS
<1>1. ASSUME NEW g \in Conns, proc[g].op = "request"
      PROVE  proc[g].handle = link[g]
  <2>1. g \in up
    BY <1>1, NoProcIsNone DEF SdTypes
  <2>2. PICK p \in Peers : (Coming(g, p) \/ Known(g, p)) /\ link[g] = p
    BY <1>0, <2>1, SessionLink
  <2>3. Known(g, p)
    BY <1>1, <2>2, NoProcIsNone DEF Coming
  <2> QED
    BY <1>1, <2>2, <2>3 DEF Known, Requested
<1>2. ASSUME ~commanded, _remoteRequestInProgress
      PROVE  \E g \in Conns : proc[g].op = "request" \/ waits("response", g) \/ waits("disconnected", g)
  <2>1. PICK h \in Conns, p \in Peers : Known(h, p)
    BY <1>0, <1>2 DEF Session, Alone, Coming, Unknown
  <2> QED
    BY <1>2, <2>1 DEF Known, Requested
<1>3. ASSUME NEW h \in told \cap up, NEW i \in Has[link[h]] \cap setup.services
      PROVE  valueHandle[i] = link[h] /\ h \in asked(i)
  <2>1. h \in Conns /\ i \in Services
    BY SetupFacts DEF up
  <2>2. PICK p \in Peers : (Coming(h, p) \/ Known(h, p)) /\ link[h] = p
    BY <1>0, <2>1, SessionLink
  <2>3. Known(h, p)
    BY <2>2 DEF Coming, Unknown
  <2>4. heldOn(i, p)
    BY <2>2, <2>3 DEF Known, Discovery, Proceeds, offered
  <2> QED
    BY <2>1, <2>2, <2>3, <2>4, AskedOfLink DEF heldOn
<1>4. ASSUME ~commanded, NEW h \in up, ~waits("connected", h)
      PROVE  _txBufferCount + queued[h] + unreported <= Capacity
  <2>1. h \in Conns
    BY DEF up
  <2>2. PICK p \in Peers : Coming(h, p) \/ Known(h, p)
    BY <1>0, <2>1, SessionLink
  <2>3. ~ Coming(h, p)
    BY <1>4 DEF Coming, OneLink, waits
  <2> QED
    BY <1>4, <2>2, <2>3 DEF Known, Buffered
<1> QED
  BY <1>1, <1>2, <1>3, <1>4 DEF AsksOwner, RequestTracked, ReportsAllServices, NotOverdrawn

LEMMA SessionImplies ==
    TypeInv /\ SessionInv => AsksOwner /\ RequestTracked /\ ReportsAllServices /\ NotOverdrawn
<1> SUFFICES ASSUME TypeInv, SessionInv, ~shared
             PROVE  AsksOwner /\ RequestTracked /\ ReportsAllServices /\ NotOverdrawn
  BY DEF AsksOwner, RequestTracked, ReportsAllServices, NotOverdrawn
<1>1. CASE ending = Invalid
  BY <1>1, SessionShows DEF SessionInv
<1>2. CASE ending # Invalid
  <2>1. up = {}
    BY <1>2 DEF SessionInv, Ended
  <2>2. \A h \in Conns : proc[h] = NoProc
    BY <2>1 DEF TypeInv, SdTypes
  <2> QED
    BY <1>2, <2>1, <2>2, NoProcIsNone DEF AsksOwner, RequestTracked, ReportsAllServices, NotOverdrawn
<1> QED
  BY <1>1, <1>2

\* As long as one link is up or known at a time, the handle that a read, write
\* or subscribe goes out with, valueHandle of the characteristic (BLECentralRole.cpp
\* 1258-1276, 1297-1329, 1345-1376), was found on the peripheral that is asked.
THEOREM HandlesOfOwner == Spec => []AsksOwner
  BY TypeInvariance, SessionInvariance, SessionImplies, PTL

\* As long as one link is up or known at a time and no write without response is
\* sent, _remoteRequestInProgress is only set while an event is to come that
\* clears it: a response, or the end of the link (BLECentralRole.cpp 685, 874,
\* 925).
THEOREM FlagIsCleared == Spec => []RequestTracked
  BY TypeInvariance, SessionInvariance, SessionImplies, PTL

\* As long as one link is up or known at a time, the discovery that poll() goes
\* through, range by range and service by service, leaves nothing out: when it
\* raises BLERemoteServicesDiscovered (BLECentralRole.cpp 768-866) every declared
\* service that the peripheral offers has its handle and its slot.
THEOREM DiscoveryIsComplete == Spec => []ReportsAllServices
  BY TypeInvariance, SessionInvariance, SessionImplies, PTL

\* As long as one link is up or known at a time and no write without response is
\* sent, _txBufferCount and the packets on their way never exceed the buffers of
\* the link, whatever the order of setValue, TX_COMPLETE and the end of the link
\* (BLECentralRole.cpp 594-606, 665, 754, 1196-1226).
THEOREM BuffersNotOverdrawn == Spec => []NotOverdrawn
  BY TypeInvariance, SessionInvariance, SessionImplies, PTL


-------------------------------------------------------------------------------
(* The table of links, where only what was reported is connected to. *)

occupied == {s \in table : _connectionHandle[s] # Invalid}
pending  == \E k \in DOMAIN evts : evts[k].ev = "connected"

\* A report waits behind all links that were made.
heard ==
    \E k \in DOMAIN evts : evts[k].ev = "adv_report" /\
        \A j \in DOMAIN evts : j > k => evts[j].ev # "connected"

\* At most one new link waits.
single ==
    \A j, k \in DOMAIN evts : evts[j].ev = "connected" /\ evts[k].ev = "connected" => j = k

Placed ==
    /\ \A s, t \in occupied : _connectionHandle[s] = _connectionHandle[t] => s = t
    /\ \A s \in Slots \ table : _connectionHandle[s] = Invalid
    /\ \A s \in occupied : _node[s] \in Peers
    /\ _peripheralConnected = Cardinality(occupied)
    /\ _status = "CONNECT" => _peripheralConnected > 0

\* The scan and the connection procedure have a slot waiting for them, and so
\* has the scan that goes on when the end of a link has been handled.
Room ==
    /\ single
    /\ pending => radio.mode # "connecting" /\ _peripheralConnected + 1 <= setup.allowed
    /\ pending /\ radio = Scanning => _peripheralConnected + 2 <= setup.allowed
    /\ radio # Quiet => _peripheralConnected + 1 <= setup.allowed
    /\ radio = Quiet => pending \/ ending # Invalid \/ _peripheralConnected = setup.allowed
    /\ ending # Invalid =>
         /\ _peripheralConnected + 1 <= setup.allowed
         /\ pending \/ radio # Quiet => _peripheralConnected + 2 <= setup.allowed
    /\ heard /\ radio.mode # "connecting" =>
         /\ _peripheralConnected + 1 <= setup.allowed
         /\ pending => _peripheralConnected + 2 <= setup.allowed

\* The library has noted the peripheral that the next link leads to.
Reached ==
    /\ radio.mode = "connecting" => _tempNode = radio.peer
    /\ \A k \in DOMAIN evts :
         evts[k].ev = "connected" /\ (\A j \in DOMAIN evts : j < k => evts[j].ev # "adv_report")
           => evts[k].peer = _tempNode

\* The links before and after e.
Follows(e, before, after) ==
    /\ e.ev = "connected" =>
         before[e.conn] = NoPeer /\ after = [before EXCEPT ![e.conn] = e.peer]
    /\ e.ev = "disconnected" =>
         before[e.conn] # NoPeer /\ after = [before EXCEPT ![e.conn] = NoPeer]
    /\ e.ev \notin {"connected", "disconnected"} => after = before

\* The table holds these links.
Holds(links) ==
    /\ \A s \in occupied : links[_connectionHandle[s]] = _node[s]
    /\ \A h \in Conns : (\A s \in table : _connectionHandle[s] # h) => links[h] = NoPeer

\* linked[k]: the links there were before the events behind the first k.
Linked(linked) ==
    /\ linked \in [Nat -> [Conns -> Peers \cup {NoPeer}]]
    /\ Holds(linked[0]) /\ linked[Len(evts)] = link
    /\ \A k \in DOMAIN evts : Follows(evts[k], linked[k - 1], linked[k])

TableKept == Placed /\ Room /\ Reached /\ \E linked : Linked(linked)

TableInv == ~overheard /\ ~setup.strays => TableKept

LEMMA RaisedQueue ==
    ASSUME TypeInv, NEW e \in Events, raise(e)
    PROVE  /\ pending' <=> pending \/ e.ev = "connected"
           /\ heard' <=> e.ev = "adv_report" \/ (heard /\ e.ev # "connected")
           /\ single /\ (e.ev = "connected" => ~pending) => single'
<1>1. /\ Len(evts) \in Nat
      /\ DOMAIN evts = 1 .. Len(evts) /\ DOMAIN evts' = 1 .. Len(evts) + 1
      /\ \A k \in 1 .. Len(evts) : evts'[k] = evts[k]
      /\ evts'[Len(evts) + 1] = e
  BY Raised DEF TypeInv
<1>2. pending' <=> pending \/ e.ev = "connected"
  BY <1>1 DEF pending
<1>3. ASSUME heard' PROVE e.ev = "adv_report" \/ (heard /\ e.ev # "connected")
  <2>1. PICK k \in DOMAIN evts' :
          /\ evts'[k].ev = "adv_report"
          /\ \A j \in DOMAIN evts' : j > k => evts'[j].ev # "connected"
    BY <1>3 DEF heard
  <2>2. CASE k = Len(evts) + 1
    BY <1>1, <2>1, <2>2
  <2>3. CASE k # Len(evts) + 1
    <3>1. k \in DOMAIN evts /\ Len(evts) + 1 > k /\ Len(evts) + 1 \in DOMAIN evts'
      BY <1>1, <2>3
    <3>2. e.ev # "connected"
      BY <1>1, <2>1, <3>1
    <3>3. \A j \in DOMAIN evts : j > k => evts[j].ev # "connected"
      BY <1>1, <2>1
    <3> QED
      BY <1>1, <2>1, <3>1, <3>2, <3>3 DEF heard
  <2> QED
    BY <2>2, <2>3
<1>4. ASSUME e.ev = "adv_report" PROVE heard'
  <2>1. Len(evts) + 1 \in DOMAIN evts' /\ ~ \E j \in DOMAIN evts' : j > Len(evts) + 1
    BY <1>1
  <2> QED
    BY <1>1, <1>4, <2>1 DEF heard
<1>5. ASSUME heard, e.ev # "connected" PROVE heard'
  <2>1. PICK k \in DOMAIN evts :
          /\ evts[k].ev = "adv_report"
          /\ \A j \in DOMAIN evts : j > k => evts[j].ev # "connected"
    BY <1>5 DEF heard
  <2>2. \A j \in DOMAIN evts' : j > k => evts'[j].ev # "connected"
    BY <1>1, <1>5, <2>1
  <2> QED
    BY <1>1, <2>1, <2>2 DEF heard
<1>6. single /\ (e.ev = "connected" => ~pending) => single'
  BY <1>1 DEF single, pending
<1> QED
  BY <1>2, <1>3, <1>4, <1>5, <1>6

LEMMA PolledQueue ==
    ASSUME TypeInv, NEW ev, polls(ev)
    PROVE  /\ pending' => pending
           /\ ev # "connected" /\ pending => pending'
           /\ heard' => heard
           /\ single => single'
           /\ single /\ ev = "connected" => ~pending'
           /\ ev = "adv_report" /\ (\A k \in 2 .. Len(evts) : evts[k].ev # "connected")
                => heard /\ ~pending
<1>1. /\ Len(evts) \in Nat \ {0}
      /\ DOMAIN evts = 1 .. Len(evts) /\ DOMAIN evts' = 1 .. Len(evts) - 1
      /\ \A k \in 1 .. Len(evts) - 1 : evts'[k] = evts[k + 1]
      /\ evts[1].ev = ev
  BY Polled DEF TypeInv
<1>2. \A k \in DOMAIN evts' : k + 1 \in DOMAIN evts /\ k + 1 # 1 /\ evts'[k] = evts[k + 1]
  BY <1>1
<1>3. \A k \in DOMAIN evts : k # 1 => k - 1 \in DOMAIN evts' /\ evts'[k - 1] = evts[k]
  <2> SUFFICES ASSUME NEW k \in DOMAIN evts, k # 1
               PROVE  k - 1 \in DOMAIN evts' /\ evts'[k - 1] = evts[k]
    OBVIOUS
  <2>1. k - 1 \in 1 .. Len(evts) - 1 /\ k - 1 + 1 = k
    BY <1>1
  <2> QED
    BY <1>1, <2>1
<1>4. pending' => pending
  BY <1>2 DEF pending
<1>5. ev # "connected" /\ pending => pending'
  BY <1>1, <1>3 DEF pending
<1>6. ASSUME heard' PROVE heard
  <2>1. PICK k \in DOMAIN evts' :
          /\ evts'[k].ev = "adv_report"
          /\ \A j \in DOMAIN evts' : j > k => evts'[j].ev # "connected"
    BY <1>6 DEF heard
  <2>2. ASSUME NEW j \in DOMAIN evts, j > k + 1 PROVE evts[j].ev # "connected"
    <3>1. j # 1 /\ j - 1 > k
      BY <1>1, <2>2
    <3> QED
      BY <1>3, <2>1, <3>1
  <2> QED
    BY <1>2, <2>1, <2>2 DEF heard
<1>7. ASSUME single PROVE single'
  <2> SUFFICES ASSUME NEW j \in DOMAIN evts', NEW k \in DOMAIN evts',
                      evts'[j].ev = "connected", evts'[k].ev = "connected"
               PROVE  j = k
    BY DEF single
  <2>1. j + 1 = k + 1
    BY <1>2, <1>7 DEF single
  <2> QED
    BY <1>1, <2>1
<1>8. single /\ ev = "connected" => ~pending'
  BY <1>1, <1>2 DEF single, pending
<1>9. ASSUME ev = "adv_report", \A k \in 2 .. Len(evts) : evts[k].ev # "connected"
      PROVE  heard /\ ~pending
  <2>1. \A k \in DOMAIN evts : k = 1 \/ k \in 2 .. Len(evts)
    BY <1>1
  <2>2. 1 \in DOMAIN evts /\ \A k \in DOMAIN evts : evts[k].ev # "connected"
    BY <1>1, <1>9, <2>1
  <2> QED
    BY <1>1, <1>9, <2>2 DEF heard, pending
<1> QED
  BY <1>4, <1>5, <1>6, <1>7, <1>8, <1>9


\* Another event than a new link is raised.
LEMMA RoomRaised ==
    ASSUME TypeInv, Room, NEW e \in Events, raise(e), e.ev # "connected",
           UNCHANGED <<radio, tableVars, setup>>, e.ev = "adv_report" => radio = Scanning
    PROVE  Room'
<1>1. /\ pending' <=> pending
      /\ heard' <=> e.ev = "adv_report" \/ heard
      /\ single'
  BY RaisedQueue DEF Room
<1>2. radio # Quiet /\ radio.mode # "connecting" <=> radio = Scanning
  BY DEF TypeInv, Radios, Quiet, Scanning, Reaching
<1> QED
  BY <1>1, <1>2 DEF Room, tableVars

LEMMA RoomPolled ==
    ASSUME TypeInv, Room, NEW ev, polls(ev), ev # "connected",
           UNCHANGED <<radio, tableVars>>
    PROVE  Room'
<1>1. (pending' <=> pending) /\ (heard' => heard) /\ single' /\ setup' = setup
  BY PolledQueue DEF Room, polls
<1> QED
  BY <1>1 DEF Room, tableVars

LEMMA ReachedRaised ==
    ASSUME TypeInv, Reached, NEW e \in Events, raise(e), UNCHANGED _tempNode,
           radio'.mode = "connecting" => radio' = radio,
           e.ev = "connected" => e.peer = _tempNode
    PROVE  Reached'
<1>1. /\ Len(evts) \in Nat
      /\ DOMAIN evts = 1 .. Len(evts) /\ DOMAIN evts' = 1 .. Len(evts) + 1
      /\ \A k \in 1 .. Len(evts) : evts'[k] = evts[k]
      /\ evts'[Len(evts) + 1] = e
  BY Raised DEF TypeInv
<1>2. ASSUME NEW k \in DOMAIN evts', evts'[k].ev = "connected",
             \A j \in DOMAIN evts' : j < k => evts'[j].ev # "adv_report"
      PROVE  evts'[k].peer = _tempNode
  <2>1. CASE k = Len(evts) + 1
    BY <1>1, <1>2, <2>1
  <2>2. CASE k # Len(evts) + 1
    <3>1. k \in DOMAIN evts /\ evts'[k] = evts[k]
      BY <1>1, <2>2
    <3>2. \A j \in DOMAIN evts : j < k => evts[j].ev # "adv_report"
      BY <1>1, <1>2
    <3> QED
      BY <1>2, <3>1, <3>2 DEF Reached
  <2> QED
    BY <2>1, <2>2
<1> QED
  BY <1>2 DEF Reached

LEMMA ReachedPolled ==
    ASSUME TypeInv, Reached, NEW ev, polls(ev), ev # "adv_report", UNCHANGED _tempNode,
           radio'.mode = "connecting" => radio' = radio
    PROVE  Reached'
<1>1. /\ Len(evts) \in Nat \ {0}
      /\ DOMAIN evts = 1 .. Len(evts) /\ DOMAIN evts' = 1 .. Len(evts) - 1
      /\ \A k \in 1 .. Len(evts) - 1 : evts'[k] = evts[k + 1]
      /\ evts[1].ev = ev
  BY Polled DEF TypeInv
<1>2. ASSUME NEW k \in DOMAIN evts', evts'[k].ev = "connected",
             \A j \in DOMAIN evts' : j < k => evts'[j].ev # "adv_report"
      PROVE  evts'[k].peer = _tempNode
  <2>1. k + 1 \in DOMAIN evts /\ evts'[k] = evts[k + 1]
    BY <1>1
  <2>2. ASSUME NEW j \in DOMAIN evts, j < k + 1 PROVE evts[j].ev # "adv_report"
    <3>1. CASE j = 1
      BY <1>1, <3>1
    <3>2. CASE j # 1
      <4>1. j - 1 \in DOMAIN evts' /\ j - 1 < k /\ evts'[j - 1] = evts[j - 1 + 1] /\ j - 1 + 1 = j
        BY <1>1, <2>2, <3>2
      <4> QED
        BY <1>2, <4>1
    <3> QED
      BY <3>1, <3>2
  <2> QED
    BY <1>2, <2>1, <2>2 DEF Reached
<1> QED
  BY <1>2 DEF Reached

\* The table is as it was.
LEMMA TableStill ==
    ASSUME UNCHANGED <<tableVars, setup>>
    PROVE  /\ Placed => Placed'
           /\ \A l : Holds(l)' <=> Holds(l)
  BY DEF tableVars, Placed, Holds, occupied, table, _allowedPeripherals

LEMMA LinkedRaised ==
    ASSUME TypeInv, TypeInv', NEW linked, Linked(linked), UNCHANGED <<tableVars, setup>>,
           NEW e \in Events, raise(e), Follows(e, link, link')
    PROVE  \E l : Linked(l)'
<1>1. /\ Len(evts) \in Nat /\ Len(evts') = Len(evts) + 1
      /\ DOMAIN evts = 1 .. Len(evts) /\ DOMAIN evts' = 1 .. Len(evts) + 1
      /\ \A k \in 1 .. Len(evts) : evts'[k] = evts[k]
      /\ evts'[Len(evts) + 1] = e
  BY Raised DEF TypeInv
<1> DEFINE l == [k \in Nat |-> IF k = Len(evts) + 1 THEN link' ELSE linked[k]]
<1>2. link' \in [Conns -> Peers \cup {NoPeer}]
  BY DEF TypeInv, SdTypes
<1>3. linked \in [Nat -> [Conns -> Peers \cup {NoPeer}]]
  BY DEF Linked
<1>4. l \in [Nat -> [Conns -> Peers \cup {NoPeer}]]
  BY <1>2, <1>3
<1>5. l[0] = linked[0] /\ l[Len(evts) + 1] = link' /\ l[Len(evts)] = linked[Len(evts)]
  <2>1. Len(evts) \in Nat /\ Len(evts) + 1 \in Nat
    BY <1>1
  <2> QED
    BY <2>1
<1>6. ASSUME NEW k \in DOMAIN evts' PROVE Follows(evts'[k], l[k - 1], l[k])
  <2>1. CASE k = Len(evts) + 1
    <3>1. k - 1 = Len(evts) /\ linked[Len(evts)] = link
      BY <1>1, <2>1 DEF Linked
    <3>2. l[k - 1] = link /\ l[k] = link' /\ evts'[k] = e
      BY <1>1, <1>5, <2>1, <3>1
    <3> HIDE DEF l
    <3> QED
      BY <3>2
  <2>2. CASE k # Len(evts) + 1
    <3>1. k \in DOMAIN evts /\ evts'[k] = evts[k] /\ l[k - 1] = linked[k - 1] /\ l[k] = linked[k]
      BY <1>1, <2>2
    <3> HIDE DEF l
    <3> QED
      BY <3>1 DEF Linked
  <2> QED
    BY <2>1, <2>2
<1>7. Holds(linked[0])
  BY DEF Linked
<1> HIDE DEF l
<1>8. PICK m : m = l
  OBVIOUS
<1>9. Holds(m[0])
  BY <1>5, <1>7, <1>8
<1>10. Holds(m[0])'
  BY <1>9 DEF tableVars, Holds, occupied, table, _allowedPeripherals
<1>11. \A k \in DOMAIN evts' : Follows(evts'[k], m[k - 1], m[k])
  BY <1>6, <1>8
<1>12. m \in [Nat -> [Conns -> Peers \cup {NoPeer}]] /\ m[Len(evts')] = link'
  BY <1>1, <1>4, <1>5, <1>8
<1>13. Linked(m)'
  BY <1>10, <1>11, <1>12 DEF Linked, Follows
<1> QED
  BY <1>13

\* The first event is handled, and the table holds what it leads to.
LEMMA LinkedPolled ==
    ASSUME TypeInv, NEW linked, Linked(linked), NEW ev, polls(ev), Holds(linked[1])'
    PROVE  \E l : Linked(l)'
<1>1. /\ Len(evts) \in Nat \ {0} /\ Len(evts') = Len(evts) - 1
      /\ DOMAIN evts = 1 .. Len(evts) /\ DOMAIN evts' = 1 .. Len(evts) - 1
      /\ \A k \in 1 .. Len(evts) - 1 : evts'[k] = evts[k + 1]
      /\ link' = link
  BY Polled DEF TypeInv
<1> DEFINE l == [k \in Nat |-> linked[k + 1]]
<1>2. linked \in [Nat -> [Conns -> Peers \cup {NoPeer}]] /\ linked[Len(evts)] = link
  BY DEF Linked
<1>3. l \in [Nat -> [Conns -> Peers \cup {NoPeer}]]
  BY <1>2
<1>4. l[0] = linked[1]
  OBVIOUS
<1>5. l[Len(evts')] = link'
  <2>1. Len(evts') \in Nat /\ Len(evts') + 1 = Len(evts)
    BY <1>1
  <2> QED
    BY <1>1, <1>2, <2>1
<1>6. ASSUME NEW k \in DOMAIN evts' PROVE Follows(evts'[k], l[k - 1], l[k])
  <2>1. k + 1 \in DOMAIN evts /\ evts'[k] = evts[k + 1] /\ k + 1 - 1 = k
    BY <1>1
  <2>2. Follows(evts[k + 1], linked[k], linked[k + 1])
    <3>1. \A j \in DOMAIN evts : Follows(evts[j], linked[j - 1], linked[j])
      BY DEF Linked
    <3>2. PICK n \in DOMAIN evts : n = k + 1
      BY <2>1
    <3>3. Follows(evts[n], linked[n - 1], linked[n])
      BY <3>1
    <3>4. k \in Nat /\ n - 1 = k
      BY <1>1, <3>2
    <3> QED
      BY <3>2, <3>3, <3>4
  <2>3. l[k] = linked[k + 1] /\ l[k - 1] = linked[k]
    <3>1. k \in Nat /\ k - 1 \in Nat /\ k - 1 + 1 = k
      BY <1>1
    <3> QED
      BY <3>1
  <2> HIDE DEF l
  <2> QED
    BY <2>1, <2>2, <2>3
<1> HIDE DEF l
<1>7. PICK m : m = l
  OBVIOUS
<1>8. m[0] = linked[1]
  BY <1>4, <1>7
<1>9. Holds(m[0])'
  BY <1>8 DEF Holds
<1>10. \A k \in DOMAIN evts' : Follows(evts'[k], m[k - 1], m[k])
  BY <1>6, <1>7
<1>11. m \in [Nat -> [Conns -> Peers \cup {NoPeer}]] /\ m[Len(evts')] = link'
  BY <1>3, <1>5, <1>7
<1>12. Linked(m)'
  BY <1>9, <1>10, <1>11 DEF Linked, Follows
<1> QED
  BY <1>12


LEMMA TableRaised ==
    ASSUME TypeInv, TypeInv', TableKept, NEW e \in Events, raise(e), e.ev # "connected",
           UNCHANGED <<radio, tableVars, setup, _tempNode>>,
           e.ev = "adv_report" => radio = Scanning, Follows(e, link, link')
    PROVE  TableKept'
<1>1. Placed' /\ Room' /\ Reached'
  BY TableStill, RoomRaised, ReachedRaised DEF TableKept
<1>2. \E l : Linked(l)'
  BY LinkedRaised DEF TableKept
<1> QED
  BY <1>1, <1>2 DEF TableKept

LEMMA LinkedFirst ==
    ASSUME NEW linked, Linked(linked), 1 \in DOMAIN evts
    PROVE  Follows(evts[1], linked[0], linked[1])
<1>1. \A k \in DOMAIN evts : Follows(evts[k], linked[k - 1], linked[k])
  BY DEF Linked
<1>2. PICK k \in DOMAIN evts : k = 1
  OBVIOUS
<1>3. Follows(evts[k], linked[k - 1], linked[k])
  BY <1>1
<1>4. k - 1 = 0
  BY <1>2
<1> QED
  BY <1>2, <1>3, <1>4

LEMMA TablePolled ==
    ASSUME TypeInv, TableKept, NEW ev, polls(ev),
           ev \notin {"adv_report", "connected", "disconnected"},
           UNCHANGED <<radio, tableVars, _tempNode>>
    PROVE  TableKept'
<1>1. setup' = setup /\ 1 \in DOMAIN evts /\ evts[1].ev = ev
  BY Polled DEF TypeInv
<1>2. Placed' /\ Room' /\ Reached'
  BY <1>1, TableStill, RoomPolled, ReachedPolled DEF TableKept
<1>3. PICK linked : Linked(linked)
  BY DEF TableKept
<1>4. Follows(evts[1], linked[0], linked[1])
  BY <1>1, <1>3, LinkedFirst
<1>5. Holds(linked[1])
  BY <1>1, <1>3, <1>4 DEF Follows, Linked
<1>6. Holds(linked[1])'
  BY <1>1, <1>5 DEF tableVars, Holds, occupied, table, _allowedPeripherals
<1>7. \E l : Linked(l)'
  BY <1>3, <1>6, LinkedPolled
<1> QED
  BY <1>2, <1>7 DEF TableKept

LEMMA TableUnmoved ==
    ASSUME TableKept, UNCHANGED <<radio, tableVars, setup, _tempNode, evts, link>>
    PROVE  TableKept'
<1>1. Placed'
  BY TableStill DEF TableKept
<1>2. Room' /\ Reached'
  BY DEF TableKept, Room, Reached, tableVars, single, pending, heard
<1>3. PICK linked : Linked(linked)
  BY DEF TableKept
<1>4. Linked(linked)'
  BY <1>3 DEF tableVars, Linked, Holds, occupied, table, _allowedPeripherals
<1> QED
  BY <1>1, <1>2, <1>4 DEF TableKept

LEMMA TableSoftDevice ==
    ASSUME TypeInv, TypeInv', TableKept, SoftDevice
    PROVE  TableKept'
<1> USE DEF TypeInv
<1>1. ASSUME NEW p \in Peers, SdReport(p) PROVE TableKept'
  <2> DEFINE e == [ev |-> "adv_report", conn |-> Invalid, peer |-> p]
  <2>1. e \in Events /\ raise(e) /\ e.ev = "adv_report"
    BY <1>1 DEF Events, SdReport
  <2>2. /\ UNCHANGED <<radio, tableVars, setup, _tempNode>> /\ link' = link /\ radio = Scanning
    BY <1>1 DEF SdReport, libVars, sdVars
  <2> HIDE DEF e
  <2>3. Follows(e, link, link')
    BY <2>1, <2>2 DEF Follows
  <2> QED
    BY <2>1, <2>2, <2>3, TableRaised
<1>2. ASSUME NEW h \in Conns, SdConnect(h) PROVE TableKept'
  <2> DEFINE e == [ev |-> "connected", conn |-> h, peer |-> radio.peer]
  <2>0. radio.peer \in Peers /\ radio.mode = "connecting"
    BY <1>2 DEF SdConnect, Radios, Quiet, Scanning, Reaching
  <2>1. e \in Events /\ raise(e) /\ e.ev = "connected" /\ e.conn = h /\ e.peer = radio.peer
    BY <1>2, <2>0 DEF Events, SdConnect
  <2>2. /\ UNCHANGED <<tableVars, setup, _tempNode>> /\ radio' = Quiet /\ link[h] = NoPeer
        /\ link' = [link EXCEPT ![h] = radio.peer]
    BY <1>2 DEF SdConnect, libVars, up
  <2> HIDE DEF e
  <2>3. Follows(e, link, link')
    BY <2>1, <2>2 DEF Follows
  <2>4. Room'
    <3>1. ~pending /\ _peripheralConnected + 1 <= setup.allowed
      BY <2>0 DEF TableKept, Room, Quiet
    <3>2. pending' /\ ~heard' /\ single'
      BY <2>1, <3>1, RaisedQueue DEF TableKept, Room
    <3>3. radio'.mode = "idle" /\ radio' # Scanning
      BY <2>2 DEF Quiet, Scanning
    <3>4. ending' # Invalid => _peripheralConnected + 2 <= setup.allowed
      BY <2>0, <2>2 DEF TableKept, Room, tableVars, Quiet
    <3>5. setup.allowed \in Nat /\ _peripheralConnected \in Nat
      BY SetupFacts, Facts DEF TableTypes
    <3> QED
      BY <2>2, <3>1, <3>2, <3>3, <3>4, <3>5 DEF Room, tableVars
  <2>5. Reached'
    <3>1. radio'.mode # "connecting" /\ e.peer = _tempNode
      BY <2>0, <2>1, <2>2 DEF TableKept, Reached, Quiet
    <3> QED
      BY <2>1, <2>2, <3>1, ReachedRaised DEF TableKept
  <2>6. Placed' /\ \E l : Linked(l)'
    BY <2>1, <2>2, <2>3, TableStill, LinkedRaised DEF TableKept
  <2> QED
    BY <2>4, <2>5, <2>6 DEF TableKept
<1>3. ASSUME NEW h \in Conns, SdDisconnect(h) PROVE TableKept'
  <2> DEFINE e == [ev |-> "disconnected", conn |-> h, peer |-> link[h]]
  <2>0. link[h] \in Peers /\ link[h] # NoPeer
    BY <1>3 DEF SdDisconnect, SdTypes, up
  <2>1. e \in Events /\ raise(e) /\ e.ev = "disconnected" /\ e.conn = h
    BY <1>3, <2>0 DEF Events, SdDisconnect
  <2>2. /\ UNCHANGED <<radio, tableVars, setup, _tempNode>>
        /\ link' = [link EXCEPT ![h] = NoPeer]
    BY <1>3 DEF SdDisconnect, libVars
  <2> HIDE DEF e
  <2>3. Follows(e, link, link')
    BY <2>0, <2>1, <2>2 DEF Follows
  <2> QED
    BY <2>1, <2>2, <2>3, TableRaised
<1>4. ASSUME NEW e \in Events, raise(e), e.ev \notin {"adv_report", "connected", "disconnected"},
             UNCHANGED <<radio, libVars, link>>
      PROVE  TableKept'
  <2>1. UNCHANGED <<radio, tableVars, setup, _tempNode>> /\ Follows(e, link, link')
    BY <1>4 DEF libVars, Follows
  <2> QED
    BY <1>4, <2>1, TableRaised
<1>5. ASSUME NEW h \in Conns, NEW n \in 1 .. queued[h], SdSent(h, n) PROVE TableKept'
  <2> DEFINE e == [ev |-> "tx_complete", conn |-> h, count |-> n]
  <2>1. n \in 1 .. Capacity
    BY <1>5, Facts DEF SdTypes
  <2>2. e \in Events /\ raise(e) /\ e.ev = "tx_complete"
    BY <1>5, <2>1 DEF Events, SdSent
  <2>3. UNCHANGED <<radio, libVars, link>>
    BY <1>5 DEF SdSent
  <2> HIDE DEF e
  <2> QED
    BY <1>4, <2>2, <2>3
<1>6. ASSUME NEW h \in Conns, SdConfirmed(h) PROVE TableKept'
  BY <1>6, TableUnmoved DEF SdConfirmed, libVars
<1>7. ASSUME NEW h \in Conns, NEW c \in setup.chars, NEW v \in Cccd, SdWriteCccd(h, c, v)
      PROVE  TableKept'
  <2> DEFINE e == [ev |-> "write_cccd", conn |-> h, char |-> c, value |-> v]
  <2>1. c \in Chars
    BY SetupFacts
  <2>2. e \in Events /\ raise(e) /\ e.ev = "write_cccd"
    BY <1>7, <2>1 DEF Events, SdWriteCccd
  <2>3. UNCHANGED <<radio, libVars, link>>
    BY <1>7 DEF SdWriteCccd
  <2> HIDE DEF e
  <2> QED
    BY <1>4, <2>2, <2>3
<1>8. ASSUME NEW h \in Conns, NEW status \in Statuses, NEW found \in SUBSET Services,
             SdDiscovered(h, status, found)
      PROVE  TableKept'
  <2>1. \E e \in Events : raise(e) /\ e.ev \in {"services", "characteristics"}
    BY <1>8, AnswerRaised DEF SdDiscovered
  <2>2. UNCHANGED <<radio, libVars, link>>
    BY <1>8 DEF SdDiscovered
  <2> QED
    BY <1>4, <2>1, <2>2
<1>9. ASSUME NEW h \in Conns, SdResponse(h) PROVE TableKept'
  <2> DEFINE e == [ev |-> "response", conn |-> h]
  <2>1. e \in Events /\ raise(e) /\ e.ev = "response"
    BY <1>9 DEF Events, SdResponse
  <2>2. UNCHANGED <<radio, libVars, link>>
    BY <1>9 DEF SdResponse
  <2> HIDE DEF e
  <2> QED
    BY <1>4, <2>1, <2>2
<1> QED
  BY <1>1, <1>2, <1>3, <1>5, <1>6, <1>7, <1>8, <1>9 DEF SoftDevice, Statuses


LEMMA TableFinite ==
    ASSUME setup \in Setups
    PROVE  /\ IsFiniteSet(table) /\ Cardinality(table) = setup.allowed
           /\ IsFiniteSet(occupied) /\ occupied \subseteq table
<1>1. IsFiniteSet(table) /\ Cardinality(table) = setup.allowed
  <2>1. setup.allowed \in Nat /\ setup.allowed - 1 \in Int /\ 1 <= setup.allowed
    BY SetupFacts
  <2>2. table = 0 .. setup.allowed - 1
    BY DEF table, _allowedPeripherals
  <2>3. PICK b \in Int : b = setup.allowed - 1
    BY <2>1
  <2>4. IsFiniteSet(0 .. b) /\ Cardinality(0 .. b) = IF 0 > b THEN 0 ELSE b - 0 + 1
    BY FS_Interval
  <2>5. b - 0 + 1 = setup.allowed /\ ~ (0 > b)
    BY <2>1, <2>3
  <2> QED
    BY <2>2, <2>3, <2>4, <2>5
<1>2. occupied \in SUBSET table
  BY DEF occupied
<1> QED
  BY <1>1, <1>2, FS_Subset

\* A report is handled, and its peripheral perhaps connected to.
LEMMA TableAdvReport ==
    ASSUME TypeInv, TableKept, NEW connects \in BOOLEAN, PollAdvReport(connects), ~overheard'
    PROVE  TableKept'
<1> USE DEF TypeInv
<1>0. /\ polls("adv_report") /\ UNCHANGED tableVars
      /\ radio.mode # "connecting"
      /\ \A k \in 2 .. Len(evts) : evts[k].ev # "connected"
      /\ _tempNode' = Head(evts).peer
  BY DEF PollAdvReport
<1>1. /\ setup' = setup /\ 1 \in DOMAIN evts /\ evts[1].ev = "adv_report" /\ ending = Invalid
  BY <1>0, Polled
<1>2. heard /\ ~pending /\ ~pending' /\ single'
  BY <1>0, <1>1, PolledQueue DEF TableKept, Room
<1>3. _peripheralConnected + 1 <= setup.allowed
  BY <1>0, <1>1, <1>2 DEF TableKept, Room
<1>4. setup.allowed \in Nat /\ _peripheralConnected \in Nat
  BY SetupFacts, Facts DEF TableTypes
<1>5. radio # Quiet
  BY <1>1, <1>2, <1>3, <1>4 DEF TableKept, Room
<1>6. radio' = radio \/ radio' = Reaching(_tempNode')
  BY <1>1 DEF PollAdvReport, connectStarted
<1>7. radio' # Quiet
  BY <1>5, <1>6 DEF Reaching, Quiet
<1>8. Room'
  BY <1>0, <1>1, <1>2, <1>3, <1>7 DEF Room, tableVars
<1>9. Reached'
  <2>1. radio'.mode = "connecting" => _tempNode' = radio'.peer
    BY <1>0, <1>1, <1>6 DEF Reaching
  <2> QED
    BY <1>2, <2>1 DEF Reached, pending
<1>10. PICK linked : Linked(linked)
  BY DEF TableKept
<1>11. Holds(linked[1])
  <2>1. Follows(evts[1], linked[0], linked[1])
    BY <1>0, <1>1, <1>10, LinkedFirst
  <2> QED
    BY <1>0, <1>1, <1>10, <2>1 DEF Follows, Linked
<1>12. Holds(linked[1])'
  BY <1>0, <1>1, <1>11 DEF tableVars, Holds, occupied, table, _allowedPeripherals
<1>13. \E l : Linked(l)'
  BY <1>0, <1>1, <1>10, <1>12, LinkedPolled
<1> QED
  BY <1>0, <1>1, <1>8, <1>9, <1>13, TableStill DEF TableKept

\* A new link comes into the first free slot.
LEMMA TableConnected ==
    ASSUME TypeInv, TableKept, PollConnected
    PROVE  TableKept'
<1> USE DEF TypeInv
<1> DEFINE e == evts[1]
           h == e.conn
           s == slotOf(Invalid)
           n == _peripheralConnected
<1>1. /\ polls("connected") /\ setup' = setup /\ table' = table /\ link' = link
      /\ 1 \in DOMAIN evts /\ e.ev = "connected" /\ e \in Events /\ Head(evts) = e
      /\ evts \in Seq(Events) /\ DOMAIN evts = 1 .. Len(evts) /\ ending' = Invalid
  BY Polled DEF PollConnected, table, _allowedPeripherals
<1>2. h \in Conns /\ h # Invalid /\ e.peer \in Peers
  BY <1>1, EventFacts, Facts
<1>3. /\ pending /\ radio.mode # "connecting" /\ n + 1 <= setup.allowed
      /\ radio = Scanning => n + 2 <= setup.allowed
  BY <1>1 DEF pending, TableKept, Room
<1>4. /\ n \in Nat /\ setup.allowed \in Nat /\ setup.allowed < Byte /\ Byte \in Nat
      /\ table \subseteq Slots
  BY SetupFacts, Facts DEF TableTypes
<1>5. s \in table /\ _connectionHandle[s] = Invalid /\ s \in Slots
  <2>1. ASSUME \A t \in table : _connectionHandle[t] # Invalid PROVE FALSE
    <3>1. occupied = table
      BY <2>1 DEF occupied
    <3>2. n = setup.allowed
      BY <3>1, TableFinite DEF TableKept, Placed
    <3> QED
      BY <1>3, <1>4, <3>2
  <2> QED
    BY <1>4, <2>1, SlotFound
<1>6. PICK linked : Linked(linked)
  BY DEF TableKept
<1>7. linked[0][h] = NoPeer /\ linked[1] = [linked[0] EXCEPT ![h] = e.peer] /\ Holds(linked[0])
  <2>1. Follows(e, linked[0], linked[1])
    BY <1>1, <1>6, LinkedFirst
  <2> QED
    BY <1>1, <1>6, <2>1 DEF Follows, Linked
<1>8. \A t \in table : _connectionHandle[t] # h
  <2> SUFFICES ASSUME NEW t \in table, _connectionHandle[t] = h PROVE FALSE
    OBVIOUS
  <2>1. t \in occupied
    BY <1>2 DEF occupied
  <2>2. linked[0][h] = _node[t] /\ _node[t] \in Peers
    BY <1>7, <2>1 DEF Holds, TableKept, Placed
  <2> QED
    BY <1>7, <2>2, Facts
<1>9. _tempNode = e.peer
  <2>1. \A j \in DOMAIN evts : ~ (j < 1)
    BY <1>1
  <2> QED
    BY <1>1, <2>1 DEF TableKept, Reached
<1>10. /\ _connectionHandle' = [_connectionHandle EXCEPT ![s] = h]
       /\ _node' = [_node EXCEPT ![s] = e.peer] /\ _tempNode' = _tempNode
       /\ _peripheralConnected' = (n + 1) % Byte /\ _status' = "CONNECT"
       /\ radio' = IF scansOn(_peripheralConnected') THEN scanStarted(radio) ELSE radio
  BY <1>1, <1>9 DEF PollConnected
<1>11. _peripheralConnected' = n + 1
  BY <1>3, <1>4, <1>10
<1> HIDE DEF s
<1>12. /\ \A t \in Slots : _connectionHandle'[t] = IF t = s THEN h ELSE _connectionHandle[t]
       /\ \A t \in Slots : _node'[t] = IF t = s THEN e.peer ELSE _node[t]
  BY <1>5, <1>10 DEF TableTypes
<1>13. occupied' = occupied \cup {s} /\ s \notin occupied
  BY <1>1, <1>2, <1>4, <1>5, <1>12 DEF occupied
<1>14. Placed'
  <2>1. _peripheralConnected' = Cardinality(occupied')
    <3>1. Cardinality(occupied \cup {s}) = Cardinality(occupied) + 1
      BY <1>13, TableFinite, FS_AddElement
    <3> QED
      BY <1>11, <1>13, <3>1 DEF TableKept, Placed
  <2>2. ASSUME NEW t \in occupied', NEW u \in occupied', _connectionHandle'[t] = _connectionHandle'[u]
        PROVE  t = u
    <3>1. occupied \subseteq table /\ t \in Slots /\ u \in Slots
      BY <1>4, <1>5, <1>13 DEF occupied
    <3>2. CASE t = s \/ u = s
      BY <1>8, <1>12, <1>13, <2>2, <3>1, <3>2
    <3>3. CASE t # s /\ u # s
      <4>1. t \in occupied /\ u \in occupied /\ _connectionHandle[t] = _connectionHandle[u]
        BY <1>12, <1>13, <2>2, <3>1, <3>3
      <4> QED
        BY <4>1 DEF TableKept, Placed
    <3> QED
      BY <3>2, <3>3
  <2>3. \A t \in Slots \ table' : _connectionHandle'[t] = Invalid
    BY <1>1, <1>5, <1>12 DEF TableKept, Placed
  <2>4. \A t \in occupied' : _node'[t] \in Peers
    <3>1. occupied \subseteq Slots
      BY <1>4 DEF occupied
    <3> QED
      BY <1>2, <1>5, <1>12, <1>13, <3>1 DEF TableKept, Placed
  <2> QED
    BY <1>4, <1>11, <2>1, <2>2, <2>3, <2>4 DEF Placed
<1>15. Room'
  <2>1. single' /\ ~pending' /\ (heard' => heard)
    BY <1>1, PolledQueue DEF TableKept, Room
  <2>2. radio'.mode # "connecting"
    BY <1>3, <1>10 DEF scanStarted, Scanning
  <2>3. CASE n + 1 < setup.allowed
    <3>1. radio' = Scanning
      BY <1>3, <1>10, <1>11, <2>3 DEF scansOn, scanStarted, _allowedPeripherals, Radios, Quiet, Scanning, Reaching
    <3> QED
      BY <1>1, <1>4, <1>11, <2>1, <2>3, <3>1 DEF Room, Scanning, Quiet
  <2>4. CASE ~ (n + 1 < setup.allowed)
    <3>1. n + 1 = setup.allowed
      BY <1>3, <1>4, <2>4
    <3>2. radio # Scanning /\ ~heard
      BY <1>3, <1>4, <3>1 DEF TableKept, Room
    <3>3. radio' = Quiet
      BY <1>3, <1>10, <1>11, <2>4, <3>2 DEF scansOn, _allowedPeripherals, Radios, Quiet, Scanning, Reaching
    <3> QED
      BY <1>1, <1>11, <2>1, <3>1, <3>2, <3>3 DEF Room
  <2> QED
    BY <2>3, <2>4
<1>16. Reached'
  <2>1. radio'.mode = "connecting" => radio' = radio
    BY <1>10 DEF scanStarted, Scanning
  <2> QED
    BY <1>1, <1>10, <2>1, ReachedPolled DEF TableKept
<1>17. Holds(linked[1])'
  <2>0. linked[0] \in [Conns -> Peers \cup {NoPeer}]
    BY <1>6 DEF Linked
  <2>1. \A g \in Conns : linked[1][g] = IF g = h THEN e.peer ELSE linked[0][g]
    BY <1>2, <1>7, <2>0
  <2>2. ASSUME NEW t \in occupied' PROVE linked[1][_connectionHandle'[t]] = _node'[t]
    <3>1. CASE t = s
      BY <1>2, <1>5, <1>12, <2>1, <3>1
    <3>2. CASE t # s
      <4>1. t \in occupied /\ t \in table /\ t \in Slots
        BY <1>4, <1>13, <3>2 DEF occupied
      <4>2. _connectionHandle[t] \in Conns /\ _connectionHandle[t] # h
        BY <1>8, <4>1 DEF occupied, TableTypes
      <4>3. linked[0][_connectionHandle[t]] = _node[t]
        BY <1>7, <4>1 DEF Holds
      <4> QED
        BY <1>12, <2>1, <3>2, <4>1, <4>2, <4>3
    <3> QED
      BY <3>1, <3>2
  <2>3. ASSUME NEW g \in Conns, \A t \in table' : _connectionHandle'[t] # g
        PROVE  linked[1][g] = NoPeer
    <3>1. g # h
      BY <1>1, <1>5, <1>12, <2>3
    <3>2. \A t \in table : _connectionHandle[t] # g
      BY <1>1, <1>2, <1>4, <1>5, <1>12, <2>3, Facts
    <3> QED
      BY <1>7, <2>1, <3>1, <3>2 DEF Holds
  <2> QED
    BY <2>2, <2>3 DEF Holds
<1>18. \E l : Linked(l)'
  BY <1>1, <1>6, <1>17, LinkedPolled
<1> QED
  BY <1>14, <1>15, <1>16, <1>18 DEF TableKept


\* The slot of a link that has ended becomes free.
LEMMA TableDisconnected ==
    ASSUME TypeInv, TableKept, PollDisconnected
    PROVE  TableKept'
<1> USE DEF TypeInv
<1> DEFINE e == evts[1]
           h == e.conn
           s == slotOf(h)
           n == _peripheralConnected
<1>1. /\ polls("disconnected") /\ setup' = setup /\ table' = table /\ link' = link
      /\ 1 \in DOMAIN evts /\ e.ev = "disconnected" /\ e \in Events /\ Head(evts) = e
  BY Polled DEF PollDisconnected, table, _allowedPeripherals
<1>2. h \in Conns /\ h # Invalid
  BY <1>1, EventFacts, Facts
<1>3. /\ n \in Nat /\ setup.allowed \in Nat /\ setup.allowed < Byte /\ Byte \in Nat
      /\ table \subseteq Slots
  BY SetupFacts, Facts DEF TableTypes
<1>4. PICK linked : Linked(linked)
  BY DEF TableKept
<1>5. linked[0][h] # NoPeer /\ linked[1] = [linked[0] EXCEPT ![h] = NoPeer] /\ Holds(linked[0])
  <2>1. Follows(e, linked[0], linked[1])
    BY <1>1, <1>4, LinkedFirst
  <2> QED
    BY <1>1, <1>4, <2>1 DEF Follows, Linked
<1>6. s \in table /\ _connectionHandle[s] = h /\ s \in Slots
  <2>1. ~ \A t \in table : _connectionHandle[t] # h
    BY <1>2, <1>5 DEF Holds
  <2> QED
    BY <1>3, <2>1, SlotFound
<1>7. /\ _connectionHandle' = [_connectionHandle EXCEPT ![s] = Invalid]
      /\ UNCHANGED <<_node, _tempNode, radio>>
      /\ _peripheralConnected' = (n - 1) % Byte /\ _status' = "DISCONNECT" /\ ending' = h
  BY <1>1 DEF PollDisconnected
<1> HIDE DEF s
<1>8. \A t \in Slots : _connectionHandle'[t] = IF t = s THEN Invalid ELSE _connectionHandle[t]
  BY <1>6, <1>7 DEF TableTypes
<1>9. occupied' = occupied \ {s} /\ s \in occupied
  BY <1>1, <1>2, <1>3, <1>6, <1>8 DEF occupied
<1>10. Cardinality(occupied') = n - 1 /\ n - 1 \in Nat
  <2>1. Cardinality(occupied \ {s}) = Cardinality(occupied) - 1
    BY <1>9, TableFinite, FS_RemoveElement
  <2>2. IsFiniteSet(occupied \ {s})
    BY TableFinite, FS_RemoveElement
  <2>3. Cardinality(occupied \ {s}) \in Nat
    BY <2>2, FS_CardinalityType
  <2> QED
    BY <1>9, <2>1, <2>3 DEF TableKept, Placed
<1>11. n <= setup.allowed
  BY <1>3 DEF TableKept, Room
<1>12. _peripheralConnected' = n - 1
  <2>1. PICK m \in Nat : m = n - 1
    BY <1>10
  <2>2. m < Byte
    BY <1>3, <1>11, <2>1
  <2>3. m % Byte = m
    BY <1>3, <2>2
  <2> QED
    BY <1>7, <2>1, <2>3
<1>13. Placed'
  <2>1. ASSUME NEW t \in occupied', NEW u \in occupied', _connectionHandle'[t] = _connectionHandle'[u]
        PROVE  t = u
    <3>1. /\ t \in occupied /\ u \in occupied /\ t # s /\ u # s
          /\ t \in Slots /\ u \in Slots
      BY <1>3, <1>9 DEF occupied
    <3>2. _connectionHandle[t] = _connectionHandle[u]
      BY <1>8, <2>1, <3>1
    <3> QED
      BY <3>1, <3>2 DEF TableKept, Placed
  <2>2. \A t \in Slots \ table' : _connectionHandle'[t] = Invalid
    BY <1>1, <1>8 DEF TableKept, Placed
  <2>3. \A t \in occupied' : _node'[t] \in Peers
    BY <1>7, <1>9 DEF TableKept, Placed
  <2> QED
    BY <1>7, <1>10, <1>12, <2>1, <2>2, <2>3 DEF Placed
<1>14. Room'
  <2>1. single' /\ (pending' => pending) /\ (heard' => heard)
    BY <1>1, PolledQueue DEF TableKept, Room
  <2>2. /\ pending => n + 1 <= setup.allowed
        /\ radio # Quiet => n + 1 <= setup.allowed
        /\ pending => radio.mode # "connecting"
    BY DEF TableKept, Room
  <2>3. n - 1 + 1 <= setup.allowed /\ (pending \/ radio # Quiet => n - 1 + 2 <= setup.allowed)
    BY <1>3, <1>11, <2>2
  <2> HIDE DEF n
  <2> QED
    BY <1>1, <1>2, <1>7, <1>12, <2>1, <2>2, <2>3 DEF Room
<1>15. Reached'
  BY <1>1, <1>7, ReachedPolled DEF TableKept
<1>16. Holds(linked[1])'
  <2>0. linked[0] \in [Conns -> Peers \cup {NoPeer}]
    BY <1>4 DEF Linked
  <2>1. \A g \in Conns : linked[1][g] = IF g = h THEN NoPeer ELSE linked[0][g]
    BY <1>2, <1>5, <2>0
  <2>2. ASSUME NEW t \in occupied' PROVE linked[1][_connectionHandle'[t]] = _node'[t]
    <3>1. t \in occupied /\ t \in Slots /\ t # s
      BY <1>3, <1>9 DEF occupied
    <3>2. _connectionHandle[t] \in Conns /\ _connectionHandle[t] # h
      BY <1>6, <1>9, <3>1 DEF occupied, TableTypes, TableKept, Placed
    <3>3. linked[0][_connectionHandle[t]] = _node[t]
      BY <1>5, <3>1 DEF Holds
    <3> QED
      BY <1>7, <1>8, <2>1, <3>1, <3>2, <3>3
  <2>3. ASSUME NEW g \in Conns, \A t \in table' : _connectionHandle'[t] # g, g # h
        PROVE  linked[1][g] = NoPeer
    <3>1. \A t \in table : _connectionHandle[t] # g
      BY <1>1, <1>3, <1>6, <1>8, <2>3
    <3> QED
      BY <1>5, <2>1, <2>3, <3>1 DEF Holds
  <2> QED
    BY <2>1, <2>2, <2>3 DEF Holds
<1>17. \E l : Linked(l)'
  BY <1>1, <1>4, <1>16, LinkedPolled
<1> QED
  BY <1>13, <1>14, <1>15, <1>17 DEF TableKept

\* The end of the link has been handled, and the scan goes on.
LEMMA TableForget ==
    ASSUME TypeInv, TableKept, PollForget
    PROVE  TableKept'
<1>1. /\ UNCHANGED <<evts, link, setup, _connectionHandle, _node, _peripheralConnected, _tempNode>>
      /\ ending # Invalid /\ ending' = Invalid /\ _status' = "SCANNING"
      /\ radio' = scanStarted(radio)
  BY DEF PollForget, sdVars
<1>2. /\ pending' = pending /\ heard' = heard /\ single' = single
      /\ table' = table /\ occupied' = occupied
  BY <1>1 DEF pending, heard, single, table, _allowedPeripherals, occupied
<1>3. Placed'
  BY <1>1, <1>2 DEF TableKept, Placed
<1>4. /\ radio' # Quiet /\ (radio'.mode = "connecting" <=> radio.mode = "connecting")
      /\ radio' = Scanning <=> radio.mode # "connecting"
      /\ radio'.mode = "connecting" => radio' = radio
  BY <1>1 DEF TypeInv, scanStarted, Radios, Quiet, Scanning, Reaching
<1>5. Room'
  BY <1>1, <1>2, <1>4 DEF TableKept, Room
<1>6. Reached'
  BY <1>1, <1>4 DEF TableKept, Reached
<1>7. PICK linked : Linked(linked)
  BY DEF TableKept
<1>8. Linked(linked)'
  BY <1>1, <1>2, <1>7 DEF Linked, Holds
<1> QED
  BY <1>3, <1>5, <1>6, <1>8 DEF TableKept

\* setup() is over, and what has been overheard stays so.
LEMMA HistoryGrows ==
    ASSUME [Next]_vars
    PROVE  setup' = setup /\ (overheard => overheard')
<1>1. CASE SoftDevice
  <2>1. libVars' = libVars /\ overheard' = overheard
    <3>1. ASSUME NEW h \in Conns, NEW status, NEW found, SdDiscovered(h, status, found)
          PROVE  libVars' = libVars /\ overheard' = overheard
      BY <3>1 DEF SdDiscovered, history
    <3>2. ASSUME NEW h \in Conns, NEW c, NEW v, SdWriteCccd(h, c, v)
          PROVE  libVars' = libVars /\ overheard' = overheard
      BY <3>2 DEF SdWriteCccd, history
    <3>3. ASSUME NEW h \in Conns, NEW n, SdSent(h, n)
          PROVE  libVars' = libVars /\ overheard' = overheard
      BY <3>3 DEF SdSent
    <3>4. ASSUME NEW h \in Conns,
                 SdConnect(h) \/ SdDisconnect(h) \/ SdConfirmed(h) \/ SdResponse(h)
          PROVE  libVars' = libVars /\ overheard' = overheard
      BY <3>4 DEF SdConnect, SdDisconnect, SdConfirmed, SdResponse, history
    <3>5. ASSUME NEW p \in Peers, SdReport(p)
          PROVE  libVars' = libVars /\ overheard' = overheard
      BY <3>5 DEF SdReport, history
    <3> QED
      BY <1>1, <3>1, <3>2, <3>3, <3>4, <3>5 DEF SoftDevice
  <2> QED
    BY <2>1 DEF libVars
<1>2. CASE Poll
  <2>1. setup' = setup
    BY <1>2 DEF Poll, PollAdvReport, PollConnected, PollDisconnected, PollForget, PollTxComplete,
                PollWriteCccd, PollServices, PollCharacteristics, PollResponse, polls
  <2>2. overheard => overheard'
    BY <1>2 DEF Poll, PollAdvReport, PollConnected, PollDisconnected, PollForget, PollTxComplete,
                PollWriteCccd, PollServices, PollCharacteristics, PollResponse, history
  <2> QED
    BY <2>1, <2>2
<1>3. CASE Sketch
  BY <1>3 DEF Sketch, Stray, SetValue, Request, libVars, history
<1>4. CASE UNCHANGED vars
  BY <1>4 DEF vars, libVars, history
<1> QED
  BY <1>1, <1>2, <1>3, <1>4 DEF Next

LEMMA TableStep == TypeInv /\ TypeInv' /\ TableInv /\ [Next]_vars => TableInv'
<1> SUFFICES ASSUME TypeInv, TypeInv', TableInv, [Next]_vars, ~overheard', ~setup'.strays
             PROVE  TableKept'
  BY DEF TableInv
<1>1. ~overheard /\ ~setup.strays
  BY HistoryGrows
<1>2. TableKept
  BY <1>1 DEF TableInv
<1>3. CASE SoftDevice
  BY <1>2, <1>3, TableSoftDevice
<1>4. CASE Poll
  <2>1. ASSUME NEW connects \in BOOLEAN, PollAdvReport(connects) PROVE TableKept'
    BY <1>2, <2>1, TableAdvReport
  <2>2. ASSUME PollTxComplete PROVE TableKept'
    BY <1>2, <2>2, TablePolled DEF PollTxComplete
  <2>3. ASSUME PollWriteCccd PROVE TableKept'
    BY <1>2, <2>3, TablePolled DEF PollWriteCccd
  <2>4. ASSUME PollServices PROVE TableKept'
    BY <1>2, <2>4, TablePolled DEF PollServices
  <2>5. ASSUME PollCharacteristics PROVE TableKept'
    BY <1>2, <2>5, TablePolled DEF PollCharacteristics
  <2>6. ASSUME PollResponse PROVE TableKept'
    BY <1>2, <2>6, TablePolled DEF PollResponse
  <2> QED
    BY <1>2, <1>4, <2>1, <2>2, <2>3, <2>4, <2>5, <2>6, TableConnected, TableDisconnected, TableForget
       DEF Poll
<1>5. CASE Sketch
  BY <1>1, <1>2, <1>5, TableUnmoved DEF Sketch, Stray, SetValue, Request
<1>6. CASE UNCHANGED vars
  BY <1>2, <1>6, TableUnmoved DEF vars, sdVars, libVars
<1> QED
  BY <1>3, <1>4, <1>5, <1>6 DEF Next

LEMMA TableInit == Init => TableInv
<1> SUFFICES ASSUME Init PROVE TableKept
  BY DEF TableInv
<1>1. /\ setup \in Setups /\ evts = <<>> /\ DOMAIN evts = {} /\ Len(evts) = 0 /\ occupied = {}
      /\ 1 <= setup.allowed /\ setup.allowed \in Nat /\ table \subseteq Slots
  BY SetupFacts DEF Init, occupied, table, _allowedPeripherals, Slots
<1>2. Placed
  BY <1>1, FS_EmptySet DEF Init, Placed
<1>3. Room /\ Reached
  BY <1>1 DEF Init, Room, Reached, single, pending, heard, Quiet, Scanning
<1> DEFINE l == [k \in Nat |-> link]
<1>4. link \in [Conns -> Peers \cup {NoPeer}] /\ Holds(link)
  BY <1>1 DEF Init, Holds
<1>5. l[0] = link /\ l[Len(evts)] = link /\ l \in [Nat -> [Conns -> Peers \cup {NoPeer}]]
  BY <1>1, <1>4
<1> HIDE DEF l
<1>6. Linked(l)
  BY <1>1, <1>4, <1>5 DEF Linked
<1> QED
  BY <1>2, <1>3, <1>6 DEF TableKept

LEMMA TableInvariance == Spec => []TableInv
  BY TableInit, TableStep, TypeInvariance, PTL DEF Spec

\* No event waits: the table holds the links there are.
LEMMA TableShows ==
    ASSUME TypeInv, TableKept, evts = <<>>
    PROVE  /\ \A s \in occupied : link[_connectionHandle[s]] = _node[s]
           /\ \A h \in up : \E s \in occupied : _connectionHandle[s] = h
           /\ \A s \in occupied : _connectionHandle[s] \in up
           /\ _peripheralConnected = Cardinality(up) /\ IsFiniteSet(up)
<1> USE DEF TypeInv
<1>1. PICK linked : Linked(linked)
  BY DEF TableKept
<1>2. Holds(link)
  BY <1>1 DEF Linked
<1>3. \A s \in occupied : link[_connectionHandle[s]] = _node[s]
  BY <1>2 DEF Holds
<1>4. \A h \in up : \E s \in occupied : _connectionHandle[s] = h
  BY <1>2, Facts DEF Holds, up, occupied
<1>5. \A s \in occupied : _connectionHandle[s] \in up
  <2> SUFFICES ASSUME NEW s \in occupied PROVE _connectionHandle[s] \in up
    OBVIOUS
  <2>1. s \in Slots /\ _node[s] \in Peers /\ _connectionHandle[s] # Invalid
    BY SetupFacts DEF occupied, TableKept, Placed
  <2> QED
    BY <1>3, <2>1, Facts DEF up, TableTypes
<1>6. Cardinality(up) = Cardinality(occupied) /\ IsFiniteSet(up)
  <2> DEFINE f == [s \in occupied |-> _connectionHandle[s]]
  <2>1. f \in [occupied -> up]
    BY <1>5
  <2>2. \A s, t \in occupied : f[s] = f[t] => s = t
    BY DEF TableKept, Placed
  <2>3. \A h \in up : \E s \in occupied : f[s] = h
    BY <1>4
  <2>4. ExistsBijection(occupied, up)
    BY <2>1, <2>2, <2>3 DEF ExistsBijection, Bijection, Injection, Surjection, IsInjective
  <2> QED
    BY <2>4, TableFinite, FS_Bijection
<1> QED
  BY <1>3, <1>4, <1>5, <1>6 DEF TableKept, Placed

LEMMA TableImplies == TypeInv /\ TableInv => LinksInTable /\ ScansWhileRoom
<1> SUFFICES ASSUME TypeInv, TableInv, evts = <<>>, ~overheard, ~setup.strays
             PROVE  /\ \A h \in Conns : Cardinality({s \in table : _connectionHandle[s] = h})
                                        = IF h \in up THEN 1 ELSE 0
                    /\ \A s \in table : _connectionHandle[s] # Invalid =>
                                         _node[s] = link[_connectionHandle[s]]
                    /\ _connectionHandle[_allowedPeripherals] = Invalid
                    /\ _peripheralConnected = Cardinality(up)
                    /\ _status = "CONNECT" => up # {}
                    /\ ending = Invalid =>
                         (radio = Quiet <=> Cardinality(up) = _allowedPeripherals)
  BY DEF LinksInTable, ScansWhileRoom
<1> USE DEF TypeInv
<1>1. TableKept
  BY DEF TableInv
<1>2. /\ \A s \in occupied : link[_connectionHandle[s]] = _node[s]
      /\ \A h \in up : \E s \in occupied : _connectionHandle[s] = h
      /\ \A s \in occupied : _connectionHandle[s] \in up
      /\ _peripheralConnected = Cardinality(up)
  BY <1>1, TableShows
<1>3. ASSUME NEW h \in Conns
      PROVE  Cardinality({s \in table : _connectionHandle[s] = h}) = IF h \in up THEN 1 ELSE 0
  <2> DEFINE S == {s \in table : _connectionHandle[s] = h}
  <2>1. S \subseteq occupied
    BY Facts DEF occupied
  <2>2. CASE h \in up
    <3>1. PICK s \in occupied : _connectionHandle[s] = h
      BY <1>2, <2>2
    <3>2. S = {s}
      BY <1>1, <2>1, <3>1 DEF TableKept, Placed, occupied
    <3>3. Cardinality({s}) = 1
      BY FS_Singleton
    <3> QED
      BY <2>2, <3>2, <3>3
  <2>3. CASE h \notin up
    <3>1. S = {}
      BY <1>2, <2>1, <2>3
    <3> QED
      BY <2>3, <3>1, FS_EmptySet
  <2> QED
    BY <2>2, <2>3
<1>4. \A s \in table : _connectionHandle[s] # Invalid => _node[s] = link[_connectionHandle[s]]
  BY <1>2 DEF occupied
<1>5. _connectionHandle[_allowedPeripherals] = Invalid
  BY <1>1, SetupFacts DEF TableKept, Placed, _allowedPeripherals
<1>6. _status = "CONNECT" => up # {}
  <2> SUFFICES ASSUME _status = "CONNECT", up = {} PROVE FALSE
    OBVIOUS
  <2>1. _peripheralConnected > 0
    BY <1>1 DEF TableKept, Placed
  <2>2. _peripheralConnected = 0
    BY <1>2, FS_EmptySet
  <2> QED
    BY <2>1, <2>2
<1>7. ending = Invalid => (radio = Quiet <=> Cardinality(up) = _allowedPeripherals)
  <2> SUFFICES ASSUME ending = Invalid PROVE radio = Quiet <=> Cardinality(up) = _allowedPeripherals
    OBVIOUS
  <2>1. DOMAIN evts = {}
    OBVIOUS
  <2>2. ~pending
    BY <2>1 DEF pending
  <2>3. /\ radio # Quiet => _peripheralConnected + 1 <= setup.allowed
        /\ radio = Quiet => _peripheralConnected = setup.allowed
    BY <1>1, <2>2 DEF TableKept, Room
  <2>4. setup.allowed \in Nat /\ _peripheralConnected \in Nat
    BY SetupFacts, Facts DEF TableTypes
  <2> QED
    BY <1>2, <2>3, <2>4 DEF _allowedPeripherals
<1> QED
  BY <1>2, <1>3, <1>4, <1>5, <1>6, <1>7

\* Where the sketch connects only to what poll() reports and no report is
\* handled while a link is being made, the table of poll()
\* (BLECentralRole.cpp 594-602, 657-664) holds exactly the links there are, each
\* once, in front of its end and with its node, once all events are handled.
THEOREM TableIsTheLinks == Spec => []LinksInTable
  BY TypeInvariance, TableInvariance, TableImplies, PTL

\* Under the same condition the board scans or makes a link if and only if it
\* has room for one (BLECentralRole.cpp 652-655, 686; multilink.ino:73), once
\* all events are handled.
THEOREM ScanIsKept == Spec => []ScansWhileRoom
  BY TypeInvariance, TableInvariance, TableImplies, PTL

===============================================================================
