-------------------------------- MODULE Central --------------------------------
(***************************************************************************)
(* The BLE central, libraries/BLE/BLECentralRole.cpp: it scans, connects   *)
(* to up to seven peripherals at once, discovers the services the sketch   *)
(* declared on each of them, passes the sketch's requests on, and offers   *)
(* values of its own.  One credit count, one discovery index, one request  *)
(* flag and one set of subscriptions serve all the links.                  *)
(*                                                                         *)
(* Events are handled one at a time by poll(); the sketch calls the        *)
(* library from the callbacks that poll() makes, so that no event comes in *)
(* the middle of a call.  (Ble has the steps of calls made from loop().)   *)
(* The callbacks for the end of a link run in the middle of its case, the  *)
(* others are taken to run at the end of theirs.                           *)
(***************************************************************************)
EXTENDS Integers, Sequences, FiniteSets, FiniteSetsExt

CONSTANTS
    Conns,          \* connection handles, one for each link the SoftDevice can keep
    Invalid,        \* BLE_CONN_HANDLE_INVALID
    Peers,          \* the peripherals that advertise
    NoPeer,         \* no peripheral
    Has,            \* Has[p]: the declared services that peripheral p offers
    NumServices,    \* services that can be declared, one characteristic each
    Props,          \* Props[i]: what the characteristic of service i allows
    Chars,          \* local characteristics
    Setups,         \* what setup() may have declared, see setup
    Cccd,           \* what a peripheral may write to a CCCD
    Capacity,       \* sd_ble_tx_packet_count_get of a new link
    Byte,           \* 2^8, the range of unsigned char
    MAX_PERIPHERAL, \* the length of the table of links
    MaxEvents       \* bound for each of Setups: events waiting when one other than
                    \* the end of a link is raised

Kinds    == {"notify", "indicate"}
Services == 0 .. NumServices - 1

\* The last slot lies behind the table.
Slots == 0 .. MAX_PERIPHERAL

ASSUME CentralAssumption ==
    /\ NoPeer \notin Peers /\ Invalid \notin Conns
    /\ NumServices \in Nat /\ Has \in [Peers -> SUBSET Services]
    /\ Props \in [Services -> SUBSET ({"read", "write", "write_wo_resp"} \cup Kinds)]
    /\ Cccd \subseteq SUBSET Kinds
    /\ Setups \subseteq [allowed : 1 .. MAX_PERIPHERAL, services : SUBSET Services,
                         chars : SUBSET Chars, strays : BOOLEAN]
    /\ Byte \in Nat \ {0} /\ Capacity \in 1 .. Byte - 1
    /\ MAX_PERIPHERAL \in 1 .. Byte - 1 /\ MaxEvents \in [Setups -> Nat]

VARIABLES
    \* The SoftDevice.
    radio,          \* idle, scanning, or connecting to a peripheral
    link,           \* link[h]: the peripheral at the other end
    queued,         \* queued[h]: packets accepted and not sent yet
    confirming,     \* the links on which an indication waits for its confirmation
    proc,           \* proc[h]: the GATT client procedure in progress
    cccd,           \* cccd[h][c]: what the peripheral has subscribed to
    evts,           \* the events poll() has not handled yet
    \* The library.
    setup,          \* _allowedPeripherals; the services and the local
                    \* characteristics the sketch has declared; whether it
                    \* scans and connects on its own account
    _status, _peripheralConnected,
    _connectionHandle, _node, _tempNode,
    _txBufferCount,
    subscribed,     \* subscribed[c]: notifySubscribed, indicateSubscribed
    ranges,         \* ranges[i]: the peripheral whose handlesRange service i has
    valueHandle,    \* valueHandle[i]: the peripheral whose handle it is
    connectionIndex,
    _remoteServiceDiscoveryIndex, _remoteRequestInProgress,
    ending,         \* the link whose end poll() is handling
    \* History.
    told,           \* the links whose discovery has been reported as done
    shared,         \* two links have been up, or known, at the same time
    commanded,      \* a write without response has been sent
    overheard,      \* a report has been handled while a link was being made
    unreported      \* the packets sent whose TX_COMPLETE poll() has not handled

sdVars     == <<link, queued, confirming, proc, cccd>>
tableVars  == <<_connectionHandle, _node, _peripheralConnected, _status, ending>>
remoteVars == <<ranges, valueHandle, connectionIndex, _remoteServiceDiscoveryIndex, told>>
localVars  == <<_txBufferCount, subscribed>>
history    == <<shared, commanded, overheard, unreported>>
libVars    == <<setup, tableVars, _tempNode, remoteVars, localVars,
                _remoteRequestInProgress>>
vars       == <<radio, sdVars, evts, libVars, history>>

Quiet       == [mode |-> "idle", peer |-> NoPeer]
Scanning    == [mode |-> "scanning", peer |-> NoPeer]
Reaching(p) == [mode |-> "connecting", peer |-> p]

NoProc == [op |-> "none"]

\* The sketch has called allowMultilink or left it, and begin, which scans.
Init ==
    /\ radio = Scanning
    /\ link = [h \in Conns |-> NoPeer] /\ queued = [h \in Conns |-> 0]
    /\ confirming = {} /\ proc = [h \in Conns |-> NoProc]
    /\ cccd = [h \in Conns |-> [c \in Chars |-> {}]]
    /\ evts = <<>>
    /\ setup \in Setups
    /\ _status = "SCANNING" /\ _peripheralConnected = 0
    /\ _connectionHandle = [s \in Slots |-> Invalid]
    /\ _node = [s \in Slots |-> NoPeer] /\ _tempNode = NoPeer
    /\ _txBufferCount = 0 /\ subscribed = [c \in Chars |-> {}]
    /\ ranges = [i \in Services |-> NoPeer] /\ valueHandle = [i \in Services |-> NoPeer]
    /\ connectionIndex = [i \in Services |-> {}]
    /\ _remoteServiceDiscoveryIndex = 0 /\ _remoteRequestInProgress = FALSE
    /\ ending = Invalid /\ told = {}
    /\ shared = FALSE /\ commanded = FALSE /\ overheard = FALSE /\ unreported = 0

-------------------------------------------------------------------------------
(* The SoftDevice and the peripherals. *)

up       == {h \in Conns : link[h] # NoPeer}
raise(e) == evts' = Append(evts, e)
roomy    == Len(evts) < MaxEvents[setup]
waits(ev, h) == \E k \in DOMAIN evts : evts[k].ev = ev /\ evts[k].conn = h

\* An advertisement or a scan response of a peripheral without a link.
SdReport(p) ==
    /\ radio = Scanning /\ roomy
    /\ \A h \in Conns : link[h] # p
    /\ raise([ev |-> "adv_report", conn |-> Invalid, peer |-> p])
    /\ UNCHANGED <<radio, sdVars, libVars, history>>

SdConnect(h) ==
    /\ radio.mode = "connecting" /\ h \notin up /\ roomy
    /\ \A g \in Conns : link[g] # radio.peer
    /\ raise([ev |-> "connected", conn |-> h, peer |-> radio.peer])
    /\ link' = [link EXCEPT ![h] = radio.peer]
    /\ cccd' = [cccd EXCEPT ![h] = [c \in Chars |-> {}]]
    /\ radio' = Quiet
    /\ shared' = (shared \/ up # {} \/ ending # Invalid
                         \/ \E g \in Conns : waits("disconnected", g))
    /\ UNCHANGED <<queued, confirming, proc, libVars, commanded, overheard, unreported>>

\* The link ends, on either side, and all that was in progress on it.
SdDisconnect(h) ==
    /\ h \in up
    /\ raise([ev |-> "disconnected", conn |-> h, peer |-> link[h]])
    /\ link' = [link EXCEPT ![h] = NoPeer] /\ queued' = [queued EXCEPT ![h] = 0]
    /\ confirming' = confirming \ {h} /\ proc' = [proc EXCEPT ![h] = NoProc]
    /\ UNCHANGED <<radio, cccd, libVars, history>>

SdSent(h, n) ==
    /\ n \in 1 .. queued[h] /\ roomy
    /\ raise([ev |-> "tx_complete", conn |-> h, count |-> n])
    /\ queued' = [queued EXCEPT ![h] = @ - n] /\ unreported' = unreported + n
    /\ UNCHANGED <<radio, link, confirming, proc, cccd, libVars,
                   shared, commanded, overheard>>

SdConfirmed(h) ==
    /\ h \in confirming
    /\ confirming' = confirming \ {h}
    /\ UNCHANGED <<radio, link, queued, proc, cccd, evts, libVars, history>>

SdWriteCccd(h, c, v) ==
    /\ h \in up /\ roomy
    /\ raise([ev |-> "write_cccd", conn |-> h, char |-> c, value |-> v])
    /\ cccd' = [cccd EXCEPT ![h][c] = v]
    /\ UNCHANGED <<radio, link, queued, confirming, proc, libVars, history>>

\* The answer to a discovery: some of the attributes that are still to come,
\* behind the last one the error that the library waits for, or another error.
SdDiscovered(h, status, found) ==
    /\ proc[h].op \in {"services", "characteristics"} /\ roomy
    /\ found \subseteq proc[h].todo
    /\ status = "success" <=> found # {}
    /\ status = "end" => proc[h].todo = {}
    /\ raise([ev |-> proc[h].op, conn |-> h, peer |-> link[h], status |-> status,
              found |-> found, todo |-> proc[h].todo \ found])
    /\ proc' = [proc EXCEPT ![h] = NoProc]
    /\ UNCHANGED <<radio, link, queued, confirming, cccd, libVars, history>>

\* The response to a read or a write.
SdResponse(h) ==
    /\ proc[h].op = "request" /\ roomy
    /\ raise([ev |-> "response", conn |-> h])
    /\ proc' = [proc EXCEPT ![h] = NoProc]
    /\ UNCHANGED <<radio, link, queued, confirming, cccd, libVars, history>>

SoftDevice ==
    \/ \E p \in Peers : SdReport(p)
    \/ \E h \in Conns :
         \/ SdConnect(h) \/ SdDisconnect(h) \/ SdConfirmed(h) \/ SdResponse(h)
         \/ \E n \in 1 .. queued[h] : SdSent(h, n)
         \/ \E c \in setup.chars, v \in Cccd : SdWriteCccd(h, c, v)
         \/ \E status \in {"success", "end", "error"}, found \in SUBSET Services :
                SdDiscovered(h, status, found)

\* sd_ble_gap_scan_start, which is refused while a link is being made.
scanStarted(r) == IF r.mode = "idle" THEN Scanning ELSE r

\* sd_ble_gap_connect: it ends the scan; one link is made at a time.
connectStarted(r, p) ==
    IF r.mode # "connecting" /\ Conns \ up # {} THEN Reaching(p) ELSE r

\* sd_ble_gatts_hvx.
takesHvx(h, kind, c) ==
    /\ h \in up /\ kind \in cccd[h][c]
    /\ IF kind = "notify" THEN queued[h] < Capacity ELSE h \notin confirming

\* sd_ble_gattc_...: one procedure at a time on a link.
started(h, p) ==
    IF h \in up /\ proc[h] = NoProc THEN [proc EXCEPT ![h] = p] ELSE proc

discovery(op, i, todo) == [op |-> op, service |-> i, todo |-> todo]

-------------------------------------------------------------------------------
(* BLECentralRole::poll. *)

_allowedPeripherals == setup.allowed
table == 0 .. _allowedPeripherals - 1

\* Mutant of slotOf: the number of links serves as an index.
slotByCount(h) == Min({_peripheralConnected, _allowedPeripherals})

\* The search that every case begins with: the first slot that holds h, or the
\* one behind the last.
slotOf(h) == Min({s \in table : _connectionHandle[s] = h} \cup {_allowedPeripherals})

\* An event is taken, when the case of the one before it is over.
polls(ev) ==
    /\ ending = Invalid /\ evts # <<>> /\ Head(evts).ev = ev
    /\ evts' = Tail(evts)
    /\ unreported' = IF ev = "tx_complete" THEN unreported - Head(evts).count ELSE unreported
    /\ UNCHANGED <<link, cccd, setup>>

\* The callback may connect to the peripheral that was reported.
PollAdvReport(connects) ==
    /\ polls("adv_report")
    /\ _tempNode' = Head(evts).peer
    /\ radio' = IF connects THEN connectStarted(radio, Head(evts).peer) ELSE radio
    /\ overheard' = (overheard \/ radio.mode = "connecting"
                               \/ \E k \in 2 .. Len(evts) : evts[k].ev = "connected")
    /\ UNCHANGED <<queued, confirming, proc, tableVars, remoteVars, localVars,
                   _remoteRequestInProgress, shared, commanded>>

\* Mutant of scansOn: one link more than is allowed.
scansOnPast(n) == n <= _allowedPeripherals

\* With n links the scan goes on.
scansOn(n) == n < _allowedPeripherals

\* count is a local variable that sd_ble_tx_packet_count_get leaves as it was
\* if the link is gone.  The discovery of the services begins, and the scan
\* goes on while there is room.
PollConnected ==
    /\ polls("connected")
    /\ LET h == Head(evts).conn
           s == slotOf(Invalid)
       IN  /\ _connectionHandle' = [_connectionHandle EXCEPT ![s] = h]
           /\ _node' = [_node EXCEPT ![s] = _tempNode]
           /\ \E count \in 0 .. Byte - 1 :
                /\ h \in up => count = Capacity
                /\ _txBufferCount' = count
           /\ proc' = IF setup.services # {}
                      THEN started(h, discovery("services", 0,
                                                Has[Head(evts).peer] \cap setup.services))
                      ELSE proc
    /\ _status' = "CONNECT"
    /\ _peripheralConnected' = (_peripheralConnected + 1) % Byte
    /\ radio' = IF scansOn(_peripheralConnected') THEN scanStarted(radio) ELSE radio
    /\ UNCHANGED <<queued, confirming, ending, _tempNode, remoteVars, subscribed,
                   _remoteRequestInProgress, shared, commanded, overheard>>

\* Mutant of handlesAfter: they are never cleared.
handlesKept(n) == valueHandle

\* The handles when n links are left.
handlesAfter(n) == IF n = 0 THEN [i \in Services |-> NoPeer] ELSE valueHandle

\* The slot of the link is freed, and the sketch called ...
PollDisconnected ==
    /\ polls("disconnected")
    /\ _connectionHandle' = [_connectionHandle EXCEPT ![slotOf(Head(evts).conn)] = Invalid]
    /\ _peripheralConnected' = (_peripheralConnected - 1) % Byte
    /\ _txBufferCount' = 0
    /\ _status' = "DISCONNECT" /\ ending' = Head(evts).conn
    /\ UNCHANGED <<radio, queued, confirming, proc, _node, _tempNode, remoteVars, subscribed,
                   _remoteRequestInProgress, shared, commanded, overheard>>

\* ... and then what is known of all peripherals' services goes with the first
\* link that ends; their handles go with the last, and connectionIndex never.
PollForget ==
    /\ ending # Invalid /\ ending' = Invalid
    /\ ranges' = [i \in Services |-> NoPeer]
    /\ valueHandle' = handlesAfter(_peripheralConnected)
    /\ _remoteRequestInProgress' = FALSE
    /\ radio' = scanStarted(radio) /\ _status' = "SCANNING"
    /\ told' = told \ {ending}
    /\ UNCHANGED <<sdVars, evts, setup, _connectionHandle, _node, _peripheralConnected, _tempNode,
                   connectionIndex, _remoteServiceDiscoveryIndex, localVars, history>>

PollTxComplete ==
    /\ polls("tx_complete")
    /\ _txBufferCount' = (_txBufferCount + Head(evts).count) % Byte
    /\ UNCHANGED <<radio, queued, confirming, proc, tableVars, _tempNode, remoteVars,
                   subscribed, _remoteRequestInProgress, shared, commanded, overheard>>

PollWriteCccd ==
    /\ polls("write_cccd")
    /\ subscribed' = [subscribed EXCEPT ![Head(evts).char] = Head(evts).value]
    /\ UNCHANGED <<radio, queued, confirming, proc, tableVars, _tempNode, remoteVars,
                   _txBufferCount, _remoteRequestInProgress, shared, commanded, overheard>>

\* The procedure that looks for the characteristics of service i.  Within the
\* range of another peripheral there may be the one looked for or not.
characteristicsOf(i, h, p) ==
    {started(h, discovery("characteristics", i, todo)) :
         todo \in IF ranges[i] = p THEN {{i}} ELSE {{i}, {}}}

known(i) == ranges[i] # NoPeer

PollServices ==
    /\ polls("services")
    /\ LET e == Head(evts)
           h == _connectionHandle[slotOf(e.conn)]
       IN
       \/ /\ e.status = "success"
          /\ ranges' = [i \in Services |-> IF i \in e.found THEN e.peer ELSE ranges[i]]
          /\ proc' = started(h, discovery("services", 0, e.todo))
          /\ UNCHANGED _remoteServiceDiscoveryIndex
       \/ /\ e.status = "end"
          /\ LET found == {i \in Services : known(i)} IN
             IF found = {} THEN UNCHANGED <<proc, _remoteServiceDiscoveryIndex>>
             ELSE /\ _remoteServiceDiscoveryIndex' = Min(found)
                  /\ proc' \in characteristicsOf(Min(found), h, e.peer)
          /\ UNCHANGED ranges
       \/ /\ e.status = "error"
          /\ UNCHANGED <<proc, ranges, _remoteServiceDiscoveryIndex>>
    /\ UNCHANGED <<radio, queued, confirming, tableVars, _tempNode, valueHandle,
                   connectionIndex, told, localVars, _remoteRequestInProgress,
                   shared, commanded, overheard>>

\* Mutant of laterServices: the next one is skipped.
laterServicesButOne(index) == {i \in Services : i > index + 1 /\ known(i)}

\* The services found whose characteristics are still to be looked for.
laterServices(index) == {i \in Services : i > index /\ known(i)}

\* A characteristic is taken for one of the service the index stands at.
PollCharacteristics ==
    /\ polls("characteristics")
    /\ LET e == Head(evts)
           s == slotOf(e.conn)
           h == _connectionHandle[s]
           index == _remoteServiceDiscoveryIndex
           later == laterServices(index)
           \* A range that has been cleared is refused.
           more  == IF known(index) THEN started(h, discovery("characteristics", index, e.todo))
                    ELSE proc
       IN
       \/ /\ e.status = "success"
          /\ valueHandle' = [i \in Services |-> IF i \in e.found \cap {index} THEN e.peer
                                                ELSE valueHandle[i]]
          /\ connectionIndex' = [i \in Services |-> IF i \in e.found \cap {index}
                                                    THEN connectionIndex[i] \cup {s}
                                                    ELSE connectionIndex[i]]
          /\ proc' = more
          /\ UNCHANGED <<_remoteServiceDiscoveryIndex, told>>
       \/ /\ e.status = "end" /\ later # {}
          /\ _remoteServiceDiscoveryIndex' = Min(later)
          /\ proc' \in characteristicsOf(Min(later), h, e.peer)
          /\ UNCHANGED <<valueHandle, connectionIndex, told>>
       \/ /\ e.status = "end" /\ later = {}
          /\ told' = told \cup {e.conn}
          /\ UNCHANGED <<proc, valueHandle, connectionIndex, _remoteServiceDiscoveryIndex>>
       \/ /\ e.status = "error"
          /\ UNCHANGED <<proc, valueHandle, connectionIndex, _remoteServiceDiscoveryIndex, told>>
    /\ UNCHANGED <<radio, queued, confirming, tableVars, _tempNode, ranges, localVars,
                   _remoteRequestInProgress, shared, commanded, overheard>>

\* Mutant of PollResponse: a response is counted as a buffer given back.
PollResponseGivesBack ==
    /\ polls("response")
    /\ _remoteRequestInProgress' = FALSE
    /\ _txBufferCount' = (_txBufferCount + 1) % Byte
    /\ UNCHANGED <<radio, queued, confirming, proc, tableVars, _tempNode, remoteVars,
                   subscribed, shared, commanded, overheard>>

\* Mutant of PollResponse: the flag stays set.
PollResponseKeepsFlag ==
    /\ polls("response")
    /\ UNCHANGED <<radio, queued, confirming, proc, tableVars, _tempNode, remoteVars,
                   localVars, _remoteRequestInProgress, shared, commanded, overheard>>

PollResponse ==
    /\ polls("response")
    /\ _remoteRequestInProgress' = FALSE
    /\ UNCHANGED <<radio, queued, confirming, proc, tableVars, _tempNode, remoteVars,
                   localVars, shared, commanded, overheard>>

Poll ==
    \/ \E connects \in BOOLEAN : PollAdvReport(connects)
    \/ PollConnected \/ PollDisconnected \/ PollForget \/ PollTxComplete \/ PollWriteCccd
    \/ PollServices \/ PollCharacteristics \/ PollResponse

-------------------------------------------------------------------------------
(* The sketch, in a callback. *)

\* startScan, stopScan, and connect to a peripheral seen before.
Stray ==
    /\ setup.strays
    /\ \/ radio' = scanStarted(radio)
       \/ radio' = IF radio = Scanning THEN Quiet ELSE radio
       \/ \E p \in Peers : radio' = connectStarted(radio, p)
    /\ radio' # radio
    /\ UNCHANGED <<sdVars, evts, libVars, history>>

notifies(c) == "notify" \in subscribed[c] /\ _txBufferCount > 0

oneLess(count) == (count - 1) % Byte

\* setValue, updateCharacteristicValue: one buffer is counted however many
\* links the value is sent on.
SetValue(c) ==
    LET links     == {_connectionHandle[s] : s \in table} \ {Invalid}
        left      == IF notifies(c) THEN oneLess(_txBufferCount) ELSE _txBufferCount
        indicates == "indicate" \in subscribed[c] /\ left > 0
    IN  /\ notifies(c) \/ indicates
        /\ _txBufferCount' = IF indicates THEN oneLess(left) ELSE left
        /\ queued' = [h \in Conns |-> IF notifies(c) /\ h \in links /\ takesHvx(h, "notify", c)
                                      THEN queued[h] + 1 ELSE queued[h]]
        /\ confirming' = IF indicates
                         THEN confirming \cup {h \in links : takesHvx(h, "indicate", c)}
                         ELSE confirming
        /\ UNCHANGED <<radio, link, proc, cccd, evts, setup, tableVars, _tempNode,
                       remoteVars, subscribed, _remoteRequestInProgress, history>>

\* read, write, subscribe and unsubscribe of a remote characteristic.
requestOf(i, operation) ==
    CASE operation = "read"  /\ "read" \in Props[i]  -> "request"
      [] operation = "write" /\ "write" \in Props[i] -> "request"
      [] operation = "write" /\ Props[i] \cap {"write", "write_wo_resp"} = {"write_wo_resp"} -> "command"
      [] operation = "subscribe" /\ Props[i] \cap Kinds # {} -> "request"
      [] OTHER -> "none"

\* Mutant of discovered: it is not looked whether there is a handle.
discoveredAnyway(i) == TRUE

\* Its handle has been found.
discovered(i) == valueHandle[i] # NoPeer

\* The links a request goes out on: those of the slots noted for it.
asked(i) == {_connectionHandle[s] : s \in connectionIndex[i] \cap table} \cap up

\* The sketch waits for a BLERemoteServicesDiscovered.
Request(i, operation) ==
    /\ told # {} /\ discovered(i)
    /\ requestOf(i, operation) # "none"
    /\ _remoteRequestInProgress' = TRUE
    /\ \/ /\ requestOf(i, operation) = "request"
          /\ proc' = [h \in Conns |->
                        IF h \in asked(i) /\ proc[h] = NoProc
                        THEN [op |-> "request", service |-> i, handle |-> valueHandle[i]]
                        ELSE proc[h]]
          /\ UNCHANGED <<queued, commanded>>
       \/ /\ requestOf(i, operation) = "command"
          /\ queued' = [h \in Conns |-> IF h \in asked(i) /\ queued[h] < Capacity
                                        THEN queued[h] + 1 ELSE queued[h]]
          /\ commanded' = TRUE
          /\ UNCHANGED proc
    /\ UNCHANGED <<radio, link, confirming, cccd, evts, setup, tableVars, _tempNode,
                   remoteVars, localVars, shared, overheard, unreported>>

Sketch ==
    \/ Stray
    \/ \E c \in setup.chars : SetValue(c)
    \/ \E i \in setup.services, operation \in {"read", "write", "subscribe"} : Request(i, operation)

Next == SoftDevice \/ Poll \/ Sketch

Spec == Init /\ [][Next]_vars

-------------------------------------------------------------------------------
(* Correctness. *)

Radios == {Quiet, Scanning} \cup {Reaching(p) : p \in Peers}

\* A request carries a handle that was found on a peripheral.
Discoveries == [op : {"services", "characteristics"}, service : Nat, todo : SUBSET Services]
Requests    == [op : {"request"}, service : Services, handle : Peers]
Procs       == {NoProc} \cup Discoveries \cup Requests

Statuses == {"success", "end", "error"}

\* The answers to a discovery; the last error comes behind all attributes.
Answers ==
    {e \in [ev : {"services", "characteristics"}, conn : Conns, peer : Peers,
            status : Statuses, found : SUBSET Services, todo : SUBSET Services] :
        e.status = "end" => e.found = {} /\ e.todo = {}}

Events ==
    Answers
    \cup [ev : {"adv_report"}, conn : {Invalid}, peer : Peers]
    \cup [ev : {"connected", "disconnected"}, conn : Conns, peer : Peers]
    \cup [ev : {"tx_complete"}, conn : Conns, count : 1 .. Capacity]
    \cup [ev : {"write_cccd"}, conn : Conns, char : Chars, value : Cccd]
    \cup [ev : {"response"}, conn : Conns]

\* Every variable keeps its type: no request goes out with a handle that has
\* not been found (BLECentralRole.cpp:1263, 1302, 1350), nothing is in progress
\* on a link that is down, and no slot behind the one past the table is noted
\* (:832).
TypeOK ==
    /\ radio \in Radios /\ evts \in Seq(Events) /\ setup \in Setups
    /\ link \in [Conns -> Peers \cup {NoPeer}] /\ queued \in [Conns -> 0 .. Capacity]
    /\ cccd \in [Conns -> [Chars -> SUBSET Kinds]] /\ proc \in [Conns -> Procs]
    /\ confirming \subseteq up
    /\ \A h \in Conns \ up : queued[h] = 0 /\ proc[h] = NoProc
    /\ _status \in {"SCANNING", "CONNECT", "DISCONNECT"} /\ ending \in Conns \cup {Invalid}
    /\ _peripheralConnected \in 0 .. Byte - 1
    /\ _connectionHandle \in [Slots -> Conns \cup {Invalid}]
    /\ _node \in [Slots -> Peers \cup {NoPeer}] /\ _tempNode \in Peers \cup {NoPeer}
    /\ _txBufferCount \in 0 .. Byte - 1
    /\ subscribed \in [Chars -> SUBSET Kinds]
    /\ ranges \in [Services -> Peers \cup {NoPeer}]
    /\ valueHandle \in [Services -> Peers \cup {NoPeer}]
    /\ connectionIndex \in [Services -> SUBSET Slots]
    /\ _remoteServiceDiscoveryIndex \in Nat /\ told \subseteq Conns
    /\ {_remoteRequestInProgress, shared, commanded, overheard} \subseteq BOOLEAN
    /\ unreported \in Nat

\* Where the sketch connects only to what BLEScanReceived shows it, and no other
\* report came between connect() and the link, the table holds exactly the links
\* there are, each in one slot in front of the end of the table and with the
\* node it leads to (BLECentralRole.cpp 597-602), and status() and the count
\* agree.
LinksInTable ==
    evts = <<>> /\ ~overheard /\ ~setup.strays =>
        /\ \A h \in Conns : Cardinality({s \in table : _connectionHandle[s] = h})
                            = IF h \in up THEN 1 ELSE 0
        /\ \A s \in table : _connectionHandle[s] # Invalid =>
                             _node[s] = link[_connectionHandle[s]]
        /\ _connectionHandle[_allowedPeripherals] = Invalid
        /\ _peripheralConnected = Cardinality(up)
        /\ _status = "CONNECT" => up # {}

\* "Until the maximum number of allowed peripheral is reached the board will be
\* scan at the same time" (multilink.ino:73): while there is room the board
\* scans or makes a link, and when there is none it does neither (if no report
\* was handled late, for which the sketch would connect once more).
ScansWhileRoom ==
    evts = <<>> /\ ending = Invalid /\ ~overheard /\ ~setup.strays =>
        (radio = Quiet <=> Cardinality(up) = _allowedPeripherals)

\* With one link at a time, and none of the writes that are not counted,
\* _txBufferCount never promises a buffer that the SoftDevice does not have.
NotOverdrawn ==
    ~shared /\ ~commanded =>
        \A h \in up : ~waits("connected", h) => _txBufferCount + queued[h] + unreported <= Capacity

\* "Check if this characteristic belongs to this peripheral"
\* (BLECentralRole.cpp:1267): with one link at a time a peripheral is asked for
\* nothing but what was found on it.
AsksOwner ==
    ~shared => \A h \in Conns : proc[h].op = "request" => proc[h].handle = link[h]

\* With one link at a time, what BLERemoteServicesDiscovered reports as found
\* can be asked for: handle and slot of every service the peripheral offers.
ReportsAllServices ==
    ~shared =>
        \A h \in told \cap up : \A i \in Has[link[h]] \cap setup.services :
            valueHandle[i] = link[h] /\ h \in asked(i)

\* _remoteRequestInProgress, which canRead and canWrite test, does not stay set
\* with nothing to come that clears it, with one link at a time and requests
\* that have a response.
RequestTracked ==
    ~shared /\ ~commanded /\ _remoteRequestInProgress =>
        \/ ending # Invalid
        \/ \E h \in Conns : proc[h].op = "request" \/ waits("response", h)
                            \/ waits("disconnected", h)

===============================================================================
