---------------------------------- MODULE Ble ----------------------------------
(***************************************************************************)
(* The BLE peripheral, libraries/BLE/nRF51822.cpp below BLEPeripheral:     *)
(* one link to a central, the values it notifies and indicates, and the    *)
(* central's own services, which it discovers, reads, writes and           *)
(* subscribes to.                                                          *)
(*                                                                         *)
(* The SoftDevice keeps the truth about the link and reports it in events. *)
(* poll() handles them one at a time in an interrupt, which preempts the   *)
(* sketch between any two accesses to shared memory and is taken before    *)
(* the sketch goes on; the SoftDevice itself preempts both.  The sketch    *)
(* calls the library from loop(), or from a callback that poll() makes:    *)
(* then no event is handled before the call returns.  A callback that      *)
(* preempts a call made in loop() makes none itself.                       *)
(***************************************************************************)
EXTENDS Integers, Sequences

CONSTANTS
    Chars,          \* the local characteristics, which notify and indicate
    NumServices,    \* the most services declared with addRemoteAttribute, each
                    \* with one characteristic
    Setups,         \* what the sketch may have declared: characteristics,
                    \* services, and what those of the services allow (props)
    Capacity,       \* sd_ble_tx_packet_count_get: packets the SoftDevice queues
    Cccd,           \* what a central may write to a CCCD
    Patient,        \* the sketch waits for BLERemoteServicesDiscovered
    Byte,           \* 2^8, the range of unsigned char
    MaxAttrs,       \* bound, by setup: answers a discovery gets before it is done
    MaxEvents       \* bound, by setup: events waiting once the central has
                    \* written or a packet was sent; one more for an answer

Kinds      == {"notify", "indicate"}
HvxErrors  == {"no_tx_packets", "busy"}    \* BLE_ERROR_NO_TX_PACKETS, NRF_ERROR_BUSY
Properties == {"read", "write", "write_wo_resp", "notify", "indicate"}
Services   == 0 .. NumServices - 1

ASSUME BleAssumption ==
    /\ NumServices \in Nat
    /\ Setups \subseteq [chars : SUBSET Chars, services : SUBSET Services,
                        props : [Services -> SUBSET Properties]]
    /\ Byte \in Nat \ {0} /\ Capacity \in 1 .. Byte - 1
    /\ Cccd \subseteq SUBSET Kinds
    /\ Patient \in BOOLEAN
    /\ MaxAttrs \in [Setups -> Nat] /\ MaxEvents \in [Setups -> Nat]

VARIABLES
    \* The SoftDevice.
    link,           \* there is a link
    queued,         \* packets accepted and not sent yet
    confirming,     \* an indication waits for its confirmation
    proc,           \* the GATT client procedure in progress
    cccd,           \* cccd[c]: what the central has subscribed to
    evts,           \* the events poll() has not handled yet
    \* The library.
    connected,      \* _connectionHandle # BLE_CONN_HANDLE_INVALID
    _txBufferCount,
    subscribed,     \* subscribed[c]: notifySubscribed, indicateSubscribed
    ranges,         \* the services whose handlesRange is not 0
    handles,        \* the services whose characteristic has a valueHandle
    _remoteServiceDiscoveryIndex,
    _remoteRequestInProgress,
    ending,         \* poll() is in the middle of handling DISCONNECTED
    \* The sketch.
    setup,          \* what it has declared, once and for all
    call,           \* the call it is making and how far it is
    \* History.
    discovery,      \* what the sketch has been told of the discovery
    raced,          \* an event was handled in the middle of a call
    unreported      \* the packets sent whose TX_COMPLETE poll() has not handled

sdVars     == <<link, queued, confirming, proc, cccd>>
remoteVars == <<ranges, handles, _remoteServiceDiscoveryIndex, discovery>>
libVars    == <<connected, _txBufferCount, subscribed, remoteVars, _remoteRequestInProgress,
                ending>>
ghosts     == <<raced, unreported>>
vars       == <<setup, sdVars, evts, libVars, call, ghosts>>

Idle   == [op |-> "idle"]
NoProc == [op |-> "none"]

Init ==
    /\ link = FALSE /\ queued = 0 /\ confirming = FALSE /\ proc = NoProc
    /\ cccd = [c \in Chars |-> {}]
    /\ evts = <<>>
    /\ connected = FALSE /\ _txBufferCount = 0
    /\ subscribed = [c \in Chars |-> {}]
    /\ ranges = {} /\ handles = {} /\ _remoteServiceDiscoveryIndex = 0
    /\ _remoteRequestInProgress = FALSE /\ ending = FALSE
    /\ setup \in Setups /\ call = Idle
    /\ discovery = "none" /\ raced = FALSE /\ unreported = 0

-------------------------------------------------------------------------------
(* The SoftDevice and the central. *)

raise(e) == evts' = Append(evts, e)

\* A central connects to the advertising board, with no CCCD set.
SdConnect ==
    /\ ~link /\ evts = <<>>
    /\ raise([ev |-> "connected"])
    /\ link' = TRUE
    /\ cccd' = [c \in Chars |-> {}]
    /\ UNCHANGED <<queued, confirming, proc, libVars, call, ghosts>>

\* The link ends, and with it all that was in progress on it.
SdDisconnect ==
    /\ link
    /\ raise([ev |-> "disconnected"])
    /\ link' = FALSE /\ queued' = 0 /\ confirming' = FALSE /\ proc' = NoProc
    /\ UNCHANGED <<cccd, libVars, call, ghosts>>

\* Packets have been sent.
SdSent(n) ==
    /\ n \in 1 .. queued /\ Len(evts) < MaxEvents[setup]
    /\ raise([ev |-> "tx_complete", count |-> n])
    /\ queued' = queued - n
    /\ unreported' = unreported + n
    /\ UNCHANGED <<link, confirming, proc, cccd, libVars, call, raced>>

\* The confirmation of an indication; poll() ignores its event, HVC.
SdConfirmed ==
    /\ confirming
    /\ confirming' = FALSE
    /\ UNCHANGED <<link, queued, proc, cccd, evts, libVars, call, ghosts>>

\* The central writes the CCCD, or the value, of a characteristic.
SdWriteCccd(c, v) ==
    /\ link /\ Len(evts) < MaxEvents[setup]
    /\ raise([ev |-> "write_cccd", char |-> c, value |-> v])
    /\ cccd' = [cccd EXCEPT ![c] = v]
    /\ UNCHANGED <<link, queued, confirming, proc, libVars, call, ghosts>>

SdWriteValue(c) ==
    /\ link /\ Len(evts) < MaxEvents[setup]
    /\ raise([ev |-> "write_value", char |-> c])
    /\ UNCHANGED <<sdVars, libVars, call, ghosts>>

\* The answer to a discovery: attributes, some of them looked for; behind the
\* last one the error that the library waits for; or another error.
SdDiscovered(status, found) ==
    /\ proc.op \in {"services", "characteristics"} /\ Len(evts) <= MaxEvents[setup]
    /\ found \subseteq IF proc.op = "services" THEN setup.services ELSE {proc.service}
    /\ status = "success" => proc.left > 0
    /\ status # "success" => found = {} /\ (status = "end" => proc.left = 0)
    /\ raise([ev |-> proc.op, status |-> status, found |-> found, left |-> proc.left - 1])
    /\ proc' = NoProc
    /\ UNCHANGED <<link, queued, confirming, cccd, libVars, call, ghosts>>

\* The response to a read or a write.
SdResponse ==
    /\ proc.op = "request" /\ Len(evts) <= MaxEvents[setup]
    /\ raise([ev |-> "response"])
    /\ proc' = NoProc
    /\ UNCHANGED <<link, queued, confirming, cccd, libVars, call, ghosts>>

SdAnswer ==
    \/ SdResponse
    \/ \E status \in {"success", "end", "error"}, found \in SUBSET setup.services :
           SdDiscovered(status, found)

SoftDevice ==
    \/ SdConnect \/ SdDisconnect \/ SdConfirmed \/ SdAnswer
    \/ \E n \in 1 .. queued : SdSent(n)
    \/ \E c \in setup.chars : SdWriteValue(c) \/ \E v \in Cccd : SdWriteCccd(c, v)

\* Whether sd_ble_gatts_hvx takes a value of c.
takesHvx(kind, c) ==
    /\ link /\ kind \in cccd[c]
    /\ IF kind = "notify" THEN queued < Capacity ELSE ~confirming

\* What it returns if it does not, while the link lasts and c is subscribed to.
hvxError(kind) == IF kind = "notify" THEN "no_tx_packets" ELSE "busy"

\* sd_ble_gattc_..._discover, which is refused while a procedure is going on.
discover(op, service, left) ==
    proc' = IF link /\ proc = NoProc
            THEN [op |-> op, service |-> service, left |-> left]
            ELSE proc

-------------------------------------------------------------------------------
(* nRF51822::poll. *)

\* It has been given ev, and a callback it made has returned.
handling(ev) ==
    /\ evts # <<>> /\ Head(evts).ev = ev
    /\ call # Idle => call.from = "loop"

\* Every event but DISCONNECTED is handled in one step: a callback comes last.
polls(ev) ==
    /\ handling(ev)
    /\ evts' = Tail(evts)
    /\ raced' = (raced \/ call # Idle)
    /\ unreported' = IF ev = "tx_complete" THEN unreported - Head(evts).count ELSE unreported
    /\ UNCHANGED <<link, cccd, call, ending>>

\* Mutant of PollTxComplete: one buffer too many comes back.
PollTxCompleteMore ==
    /\ polls("tx_complete")
    /\ _txBufferCount' = (_txBufferCount + Head(evts).count + 1) % Byte
    /\ UNCHANGED <<queued, confirming, proc, connected, subscribed, remoteVars,
                   _remoteRequestInProgress>>

PollTxComplete ==
    /\ polls("tx_complete")
    /\ _txBufferCount' = (_txBufferCount + Head(evts).count) % Byte
    /\ UNCHANGED <<queued, confirming, proc, connected, subscribed, remoteVars,
                   _remoteRequestInProgress>>

\* Where the link is gone sd_ble_tx_packet_count_get leaves count, a local
\* variable, as it was.  The discovery of the central's services begins.
PollConnected ==
    /\ polls("connected")
    /\ connected' = TRUE
    /\ \E count \in 0 .. Byte - 1 :
         /\ link => count = Capacity
         /\ _txBufferCount' = count
    /\ IF setup.services = {}
         THEN UNCHANGED <<proc, discovery>>
         ELSE /\ \E left \in 0 .. MaxAttrs[setup] : discover("services", 0, left)
              /\ discovery' = "running"
    /\ UNCHANGED <<queued, confirming, subscribed, ranges, handles,
                   _remoteServiceDiscoveryIndex, _remoteRequestInProgress>>

\* DISCONNECTED is handled in three steps, between which its callbacks run: the
\* link is forgotten ...
PollDisconnected ==
    /\ handling("disconnected") /\ ~ending
    /\ ending' = TRUE
    /\ connected' = FALSE /\ _txBufferCount' = 0
    /\ raced' = (call # Idle) /\ unreported' = 0
    /\ UNCHANGED <<sdVars, evts, subscribed, remoteVars, _remoteRequestInProgress, call>>

\* ... then the subscriptions, one after the other, with a callback behind each ...
PollUnsubscribe(c) ==
    /\ handling("disconnected") /\ ending
    /\ subscribed[c] # {}
    /\ subscribed' = [subscribed EXCEPT ![c] = {}]
    /\ UNCHANGED <<sdVars, evts, connected, _txBufferCount, remoteVars,
                   _remoteRequestInProgress, ending, call, ghosts>>

\* Mutant of PollForget: the subscriptions and the peer are kept.
PollForgetKeeps ==
    /\ handling("disconnected") /\ ending
    /\ evts' = Tail(evts)
    /\ ending' = FALSE /\ discovery' = "none"
    /\ UNCHANGED <<sdVars, connected, _txBufferCount, subscribed, ranges, handles,
                   _remoteServiceDiscoveryIndex, _remoteRequestInProgress, call, ghosts>>

\* ... and, behind the callback BLEDeviceDisconnected, all that is known of the
\* peer; only then is there advertising again.
PollForget ==
    /\ handling("disconnected") /\ ending
    /\ \A c \in Chars : subscribed[c] = {}
    /\ evts' = Tail(evts)
    /\ ending' = FALSE /\ discovery' = "none"
    /\ ranges' = {} /\ handles' = {}
    /\ _remoteRequestInProgress' = FALSE
    /\ UNCHANGED <<sdVars, connected, _txBufferCount, subscribed,
                   _remoteServiceDiscoveryIndex, call, ghosts>>

PollWriteCccd ==
    /\ polls("write_cccd")
    /\ subscribed' = [subscribed EXCEPT ![Head(evts).char] = Head(evts).value]
    /\ UNCHANGED <<queued, confirming, proc, connected, _txBufferCount, remoteVars,
                   _remoteRequestInProgress>>

\* The new value is set, and notified and indicated like one of the sketch's.
PollWriteValue ==
    /\ polls("write_value")
    /\ LET c         == Head(evts).char
           notifies  == "notify" \in subscribed[c] /\ _txBufferCount > 0
           left      == IF notifies THEN _txBufferCount - 1 ELSE _txBufferCount
           indicates == "indicate" \in subscribed[c] /\ left > 0
       IN  /\ _txBufferCount' = IF indicates THEN left - 1 ELSE left
           /\ queued' = IF notifies /\ takesHvx("notify", c) THEN queued + 1 ELSE queued
           /\ confirming' = (confirming \/ (indicates /\ takesHvx("indicate", c)))
    /\ UNCHANGED <<proc, connected, subscribed, remoteVars, _remoteRequestInProgress>>

\* Behind the last service the characteristics of the first one found are
\* looked for; if none was found, that is all.
PollServices ==
    /\ polls("services")
    /\ LET e == Head(evts) IN
       \/ /\ e.status = "success"
          /\ ranges' = ranges \cup e.found
          /\ discover("services", 0, e.left)
          /\ UNCHANGED <<_remoteServiceDiscoveryIndex, discovery>>
       \/ /\ e.status = "end" /\ ranges = {}
          /\ UNCHANGED <<proc, ranges, _remoteServiceDiscoveryIndex, discovery>>
       \/ /\ e.status = "end" /\ ranges # {}
          /\ \E i \in ranges, left \in 0 .. MaxAttrs[setup] :
               /\ \A j \in ranges : i <= j
               /\ _remoteServiceDiscoveryIndex' = i
               /\ discover("characteristics", i, left)
          /\ UNCHANGED <<ranges, discovery>>
       \/ /\ e.status = "error"
          /\ discovery' = "failed"
          /\ UNCHANGED <<proc, ranges, _remoteServiceDiscoveryIndex>>
    /\ UNCHANGED <<queued, confirming, connected, _txBufferCount, subscribed, handles,
                   _remoteRequestInProgress>>

\* Mutant of nextServices: the search begins at the service just done.
nextServicesAgain == {i \in ranges : i >= _remoteServiceDiscoveryIndex}

\* The services found whose characteristics have not been looked for yet.
nextServices == {i \in ranges : i > _remoteServiceDiscoveryIndex}

PollCharacteristics ==
    /\ polls("characteristics")
    /\ LET e == Head(evts) IN
       \/ /\ e.status = "success"
          /\ handles' = handles \cup (e.found \cap {_remoteServiceDiscoveryIndex})
          /\ discover("characteristics", _remoteServiceDiscoveryIndex, e.left)
          /\ UNCHANGED <<_remoteServiceDiscoveryIndex, discovery>>
       \/ /\ e.status = "end" /\ nextServices # {}
          /\ \E i \in nextServices, left \in 0 .. MaxAttrs[setup] :
               /\ \A j \in nextServices : i <= j
               /\ _remoteServiceDiscoveryIndex' = i
               /\ discover("characteristics", i, left)
          /\ UNCHANGED <<handles, discovery>>
       \/ /\ e.status = "end" /\ nextServices = {}
          /\ discovery' = "discovered"
          /\ UNCHANGED <<proc, handles, _remoteServiceDiscoveryIndex>>
       \/ /\ e.status = "error"
          /\ discovery' = "failed"
          /\ UNCHANGED <<proc, handles, _remoteServiceDiscoveryIndex>>
    /\ UNCHANGED <<queued, confirming, connected, _txBufferCount, subscribed, ranges,
                   _remoteRequestInProgress>>

\* Mutant of PollResponse: the request is not over.
PollResponseKeeps ==
    /\ polls("response")
    /\ UNCHANGED <<queued, confirming, proc, connected, _txBufferCount, subscribed, remoteVars,
                   _remoteRequestInProgress>>

PollResponse ==
    /\ polls("response")
    /\ _remoteRequestInProgress' = FALSE
    /\ UNCHANGED <<queued, confirming, proc, connected, _txBufferCount, subscribed, remoteVars>>

Poll ==
    \/ PollTxComplete \/ PollConnected
    \/ PollDisconnected \/ (\E c \in Chars : PollUnsubscribe(c)) \/ PollForget
    \/ PollWriteCccd \/ PollWriteValue
    \/ PollServices \/ PollCharacteristics \/ PollResponse

-------------------------------------------------------------------------------
(* The sketch, in loop() or in a callback. *)

sketchRuns(from) == from = "loop" => evts = <<>>

begins(from) == call = Idle /\ sketchRuns(from)
at(op)       == call.op = op /\ sketchRuns(call.from)

\* setValue: nRF51822::updateCharacteristicValue, first the notification ...
SetValue(c, from) ==
    /\ begins(from)
    /\ call' = [op |-> "test", kind |-> "notify", on |-> c, from |-> from,
                seen |-> 0, success |-> TRUE, refused |-> {}]
    /\ UNCHANGED <<sdVars, evts, libVars, ghosts>>

\* ... then the indication.
hvxDone(c) == IF c.kind = "notify" THEN [c EXCEPT !.op = "test", !.kind = "indicate"]
              ELSE [c EXCEPT !.op = "returned"]

HvxUnsubscribed ==
    /\ at("test") /\ call.kind \notin subscribed[call.on]
    /\ call' = hvxDone(call)
    /\ UNCHANGED <<sdVars, evts, libVars, ghosts>>

HvxNoBuffer ==
    /\ at("test") /\ call.kind \in subscribed[call.on]
    /\ _txBufferCount = 0
    /\ call' = hvxDone([call EXCEPT !.success = FALSE])
    /\ UNCHANGED <<sdVars, evts, libVars, ghosts>>

\* Mutant of HvxBuffer: the test is missing.
HvxBufferUntested ==
    /\ at("test") /\ call.kind \in subscribed[call.on]
    /\ call' = [call EXCEPT !.op = "take", !.seen = (_txBufferCount - 1) % Byte]
    /\ UNCHANGED <<sdVars, evts, libVars, ghosts>>

HvxBuffer ==
    /\ at("test") /\ call.kind \in subscribed[call.on]
    /\ _txBufferCount > 0
    /\ call' = [call EXCEPT !.op = "take", !.seen = _txBufferCount - 1]
    /\ UNCHANGED <<sdVars, evts, libVars, ghosts>>

\* _txBufferCount-- stores one less than what the test saw, or than what there
\* is now, as the compiler chooses.
TakeBuffer ==
    /\ at("take")
    /\ _txBufferCount' \in {call.seen, (_txBufferCount - 1) % Byte}
    /\ call' = [call EXCEPT !.op = "send", !.seen = 0]
    /\ UNCHANGED <<sdVars, evts, connected, subscribed, remoteVars,
                   _remoteRequestInProgress, ending, ghosts>>

\* sd_ble_gatts_hvx, whose result is dropped.
HvxSend ==
    /\ at("send") /\ call.kind \in Kinds
    /\ LET taken == takesHvx(call.kind, call.on)
           lost  == ~taken /\ link /\ call.kind \in cccd[call.on]
       IN  /\ queued' = IF taken /\ call.kind = "notify" THEN queued + 1 ELSE queued
           /\ confirming' = (confirming \/ (taken /\ call.kind = "indicate"))
           /\ call' = hvxDone(IF lost THEN [call EXCEPT !.refused = @ \cup {hvxError(call.kind)}]
                              ELSE call)
    /\ UNCHANGED <<link, proc, cccd, evts, libVars, ghosts>>

SetValueReturn ==
    /\ at("returned")
    /\ call' = Idle
    /\ UNCHANGED <<sdVars, evts, libVars, ghosts>>

\* read, write, subscribe and unsubscribe of a remote characteristic: the
\* request it makes, if its handle and its properties allow one ...
requestOf(i, operation) ==
    CASE operation = "read"  /\ "read" \in setup.props[i]  -> "read"
      [] operation = "write" /\ "write" \in setup.props[i] -> "write_req"
      [] operation = "write" /\ setup.props[i] \cap {"write", "write_wo_resp"} = {"write_wo_resp"} -> "write_cmd"
      [] operation = "subscribe" /\ setup.props[i] \cap Kinds # {} -> "subscribe"
      [] OTHER -> "none"

RequestTest(i, operation, from) ==
    /\ begins(from)
    /\ Patient => discovery = "discovered"
    /\ i \in handles /\ requestOf(i, operation) # "none"
    /\ operation = "write" => _txBufferCount > 0
    /\ call' = [op |-> "mark", kind |-> requestOf(i, operation), on |-> i, from |-> from,
                seen |-> IF operation = "write" THEN _txBufferCount - 1 ELSE 0]
    /\ UNCHANGED <<sdVars, evts, libVars, ghosts>>

\* ... _remoteRequestInProgress is set, a write takes a buffer ...
RequestMark ==
    /\ at("mark")
    /\ _remoteRequestInProgress' = TRUE
    /\ call' = [call EXCEPT !.op = IF call.kind \in {"write_req", "write_cmd"} THEN "take" ELSE "send"]
    /\ UNCHANGED <<sdVars, evts, connected, _txBufferCount, subscribed, remoteVars, ending, ghosts>>

\* ... and the SoftDevice is asked, which queues a command, and takes a request
\* if no procedure is going on.
RequestSend ==
    /\ at("send") /\ call.kind \notin Kinds
    /\ IF call.kind = "write_cmd"
         THEN /\ queued' = IF link /\ queued < Capacity THEN queued + 1 ELSE queued
              /\ UNCHANGED proc
         ELSE /\ proc' = IF link /\ proc = NoProc THEN [op |-> "request"] ELSE proc
              /\ UNCHANGED queued
    /\ call' = Idle
    /\ UNCHANGED <<link, confirming, cccd, evts, libVars, ghosts>>

callStep ==
    \/ HvxUnsubscribed \/ HvxNoBuffer \/ HvxBuffer \/ TakeBuffer \/ HvxSend \/ SetValueReturn
    \/ RequestMark \/ RequestSend

Sketch ==
    \/ \E from \in {"loop", "callback"} :
         \/ \E c \in setup.chars : SetValue(c, from)
         \/ \E i \in setup.services, operation \in {"read", "write", "subscribe"} :
                RequestTest(i, operation, from)
    \/ callStep

\* What is declared stays declared.
Next == (SoftDevice \/ Poll \/ Sketch) /\ UNCHANGED setup

\* The SoftDevice answers or the link ends, an interrupt is taken, a callback
\* returns although it may make several calls, and a call goes on.
Fairness ==
    /\ WF_vars(SdAnswer /\ UNCHANGED setup)
    /\ SF_vars(Poll /\ UNCHANGED setup)
    /\ WF_vars(callStep /\ UNCHANGED setup)

Spec == Init /\ [][Next]_vars /\ Fairness

-------------------------------------------------------------------------------
(* Correctness. *)

Counts == 0 .. Byte - 1
Lefts  == 0 .. MaxAttrs[setup]

Events ==
    [ev : {"connected", "disconnected", "response"}]
    \cup [ev : {"tx_complete"}, count : 1 .. Capacity]
    \cup [ev : {"write_cccd"}, char : Chars, value : Cccd]
    \cup [ev : {"write_value"}, char : Chars]
    \cup [ev : {"services", "characteristics"}, status : {"success"},
          found : SUBSET Services, left : Lefts]
    \cup [ev : {"services", "characteristics"}, status : {"end", "error"},
          found : {{}}, left : Lefts \cup {-1}]

Procedures ==
    {NoProc, [op |-> "request"]}
    \cup [op : {"services", "characteristics"}, service : Nat, left : Lefts]

From  == {"loop", "callback"}
Calls ==
    {Idle}
    \cup [op : {"test", "take", "send", "returned"}, kind : Kinds, on : Chars, from : From,
          seen : Counts, success : BOOLEAN, refused : SUBSET HvxErrors]
    \cup [op : {"mark", "take", "send"}, kind : {"read", "write_req", "write_cmd", "subscribe"},
          on : Services, from : From, seen : Counts]

\* Every variable keeps its type: _txBufferCount is an unsigned char
\* (nRF51822.h:93), and what waits in evts is what poll() knows how to handle.
TypeOK ==
    /\ setup \in Setups
    /\ link \in BOOLEAN /\ connected \in BOOLEAN /\ confirming \in BOOLEAN
    /\ queued \in 0 .. Capacity /\ _txBufferCount \in Counts
    /\ proc \in Procedures
    /\ cccd \in [Chars -> SUBSET Kinds] /\ subscribed \in [Chars -> SUBSET Kinds]
    /\ evts \in Seq(Events)
    /\ ranges \subseteq Services /\ handles \subseteq Services
    /\ _remoteServiceDiscoveryIndex \in Nat
    /\ _remoteRequestInProgress \in BOOLEAN /\ ending \in BOOLEAN
    /\ call \in Calls
    /\ discovery \in {"none", "running", "discovered", "failed"}
    /\ raced \in BOOLEAN /\ unreported \in Int

waits(ev) == \E k \in DOMAIN evts : evts[k].ev = ev

\* _txBufferCount never promises a buffer the SoftDevice does not have: with
\* the packets queued and those whose TX_COMPLETE is still to be handled it
\* never exceeds what the SoftDevice has, whatever is sent from loop() and from
\* callbacks, as long as no event is handled in the middle of a call.
NotOverdrawn ==
    link /\ connected /\ ~raced => _txBufferCount + queued + unreported <= Capacity

\* setValue "returns true on success (central notified/indicated, if
\* applicable), false on failure (cannot be notified/indicated, if applicable)"
\* (API.md:253).  updateCharacteristicValue drops the result of
\* sd_ble_gatts_hvx; nevertheless, while the link lasts and the central stays
\* subscribed, a value reported as notified and indicated was turned down for
\* one reason only.  For that reason the code is not what API.md says: an
\* indication made while another awaits its confirmation is refused, BUSY, and
\* setValue returns true.
SetValueTruthful ==
    call.op = "returned" /\ call.success /\ ~raced => call.refused \subseteq {"busy"}

\* Once every event is handled the library and the SoftDevice agree on the link
\* and on what the central has subscribed to: the subscriptions of one central
\* are never taken for those of the next.
SubscriptionsAgree ==
    evts = <<>> =>
        /\ connected = link
        /\ subscribed = IF link THEN cccd ELSE [c \in Chars |-> {}]

\* _remoteRequestInProgress, which canRead and canWrite test, is set only while
\* a response or the end of the link is still to come: it cannot shut the
\* sketch out for ever.  A write without response sets it too, and nothing is
\* to come: this is about services whose characteristics answer a write.
RequestTracked ==
    /\ _remoteRequestInProgress /\ call = Idle /\ ~raced
    /\ \A i \in setup.services :
         setup.props[i] \cap {"write", "write_wo_resp"} # {"write_wo_resp"}
    =>
        proc = [op |-> "request"] \/ waits("response") \/ waits("disconnected")

\* The handles of one central's services are not used with the next: while a
\* central is not yet connected, or its services not found yet, none is known.
\* Only the callbacks of DISCONNECTED still find those of the central that left.
ForgetsPeer ==
    /\ ~connected => ending \/ (ranges = {} /\ handles = {})
    /\ handles \subseteq ranges
    /\ discovery = "none" => handles = {}

\* A discovery that has found a service ends, in
\* BLERemoteServicesDiscovered, with an error, or with the link.
DiscoveryEnds ==
    discovery = "running" /\ ranges # {} ~> discovery # "running" \/ ranges = {}

\* A request is over some time, answered or with the link: the flag is cleared,
\* and the sketch can ask again.
RequestsEnd ==
    /\ _remoteRequestInProgress /\ call = Idle /\ ~raced
    /\ \A i \in setup.services :
         setup.props[i] \cap {"write", "write_wo_resp"} # {"write_wo_resp"}
    ~> ~_remoteRequestInProgress

\* canIndicate tells whether the central can be indicated of a new value
\* (API.md:285).  On a link with nothing under way it can.
CanIndicateWhenFree ==
    connected /\ link /\ evts = <<>> /\ call = Idle /\ queued = 0 /\ ~confirming =>
        _txBufferCount > 0

===============================================================================
