------------------------------ MODULE Ble_proofs -------------------------------
(***************************************************************************)
(* For every set of characteristics and of declared services, any number   *)
(* of buffers and any bound: what the library keeps of a link is of this   *)
(* link, and the count of buffers and the request flag are not off for as  *)
(* long as no event is handled in the middle of a call.                    *)
(***************************************************************************)
EXTENDS Ble, TLAPS, Division

-------------------------------------------------------------------------------
(* The setup, and the events that wait. *)

LEMMA SetupFacts ==
    ASSUME setup \in Setups
    PROVE  /\ setup.chars \subseteq Chars /\ setup.services \subseteq Services
           /\ setup.props \in [Services -> SUBSET Properties]
           /\ MaxAttrs[setup] \in Nat /\ MaxEvents[setup] \in Nat
  BY BleAssumption

\* An event is added at the end.
LEMMA Raised ==
    ASSUME evts \in Seq(Events), NEW e \in Events, raise(e)
    PROVE  /\ evts' \in Seq(Events) /\ Len(evts') = Len(evts) + 1
           /\ \A k \in 1 .. Len(evts) : evts'[k] = evts[k]
           /\ evts'[Len(evts) + 1] = e
  BY DEF raise

\* The first event is taken.
LEMMA Polled ==
    ASSUME evts \in Seq(Events), NEW ev, polls(ev)
    PROVE  /\ evts' \in Seq(Events) /\ Len(evts) \in Nat \ {0}
           /\ Len(evts') = Len(evts) - 1
           /\ \A k \in 1 .. Len(evts') : evts'[k] = evts[k + 1]
           /\ Head(evts) = evts[1] /\ evts[1] \in Events /\ evts[1].ev = ev
  BY DEF polls, handling

\* DISCONNECTED is the last event, and stays until all is forgotten.
LEMMA Handled ==
    ASSUME evts \in Seq(Events), NEW ev, handling(ev)
    PROVE  /\ Len(evts) \in Nat \ {0} /\ 1 \in 1 .. Len(evts)
           /\ Head(evts) = evts[1] /\ evts[1].ev = ev
           /\ Tail(evts) \in Seq(Events) /\ Len(Tail(evts)) = Len(evts) - 1
  BY DEF handling

LEMMA EventFacts ==
    ASSUME NEW e \in Events
    PROVE  /\ e.ev = "tx_complete" => e.count \in 1 .. Capacity
           /\ e.ev = "write_cccd" => e.char \in Chars /\ e.value \in Cccd
           /\ e.ev = "write_value" => e.char \in Chars
           /\ e.ev \in {"services", "characteristics"} =>
                /\ e.status \in {"success", "end", "error"}
                /\ e.found \subseteq Services
                /\ e.status = "success" => e.left \in Lefts
  BY DEF Events

-------------------------------------------------------------------------------
(* Types. *)

\* The variables of which each step changes some.
sdType ==
    /\ link \in BOOLEAN /\ confirming \in BOOLEAN
    /\ queued \in 0 .. Capacity
    /\ proc \in Procedures
    /\ cccd \in [Chars -> SUBSET Kinds]
libType ==
    /\ connected \in BOOLEAN /\ _txBufferCount \in Counts
    /\ subscribed \in [Chars -> SUBSET Kinds]
    /\ ranges \subseteq Services /\ handles \subseteq Services
    /\ _remoteServiceDiscoveryIndex \in Nat
    /\ _remoteRequestInProgress \in BOOLEAN /\ ending \in BOOLEAN
    /\ discovery \in {"none", "running", "discovered", "failed"}

LEMMA InitType == Init => TypeOK
<1> SUFFICES ASSUME Init PROVE TypeOK
  OBVIOUS
<1>1. <<>> \in Seq(Events)
  OBVIOUS
<1>2. call \in Calls /\ proc \in Procedures
  BY DEF Init, Calls, Procedures
<1>3. 0 \in 0 .. Capacity /\ 0 \in Counts
  BY BleAssumption DEF Counts
<1>4. [c \in Chars |-> {}] \in [Chars -> SUBSET Kinds]
  OBVIOUS
<1>5. sdType /\ evts \in Seq(Events)
  BY <1>1, <1>2, <1>3, <1>4 DEF Init, sdType
<1>6. libType
  BY <1>3, <1>4 DEF Init, libType
<1>7. setup \in Setups
  BY DEF Init
<1>8. raced \in BOOLEAN
  BY DEF Init
<1>9. unreported \in Int
  BY DEF Init
<1> QED
  BY <1>2, <1>5, <1>6, <1>7, <1>8, <1>9 DEF TypeOK, sdType, libType

\* The answer to a discovery is an event.
LEMMA DiscoveredEvent ==
    ASSUME TypeOK, NEW status \in {"success", "end", "error"}, NEW found \in SUBSET setup.services,
           SdDiscovered(status, found)
    PROVE  [ev |-> proc.op, status |-> status, found |-> found, left |-> proc.left - 1] \in Events
<1>1. proc \in [op : {"services", "characteristics"}, service : Nat, left : Lefts]
  BY DEF SdDiscovered, TypeOK, Procedures, NoProc
<1>2. /\ proc.left \in Lefts /\ proc.op \in {"services", "characteristics"}
      /\ MaxAttrs[setup] \in Nat /\ setup.services \subseteq Services
  BY <1>1, SetupFacts DEF TypeOK
<1>3. CASE status = "success"
  <2>1. proc.left - 1 \in Lefts
    BY <1>2, <1>3 DEF SdDiscovered, Lefts
  <2> QED
    BY <1>2, <1>3, <2>1 DEF Events
<1>4. CASE status \in {"end", "error"}
  <2>1. proc.left - 1 \in Lefts \cup {-1} /\ found = {}
    BY <1>2, <1>4 DEF SdDiscovered, Lefts
  <2> QED
    BY <1>2, <1>4, <2>1 DEF Events
<1> QED
  BY <1>3, <1>4

LEMMA SoftDeviceType == TypeOK /\ SoftDevice /\ UNCHANGED setup => TypeOK'
<1> SUFFICES ASSUME TypeOK, SoftDevice, UNCHANGED setup PROVE TypeOK'
  OBVIOUS
<1>0. /\ setup.chars \subseteq Chars /\ setup.services \subseteq Services
      /\ MaxAttrs[setup] \in Nat /\ Lefts' = Lefts /\ Events' = Events
      /\ Procedures' = Procedures /\ NoProc \in Procedures /\ Capacity \in Nat
  BY SetupFacts, BleAssumption DEF TypeOK, Lefts, Events, Procedures
<1>1. SUFFICES /\ sdType' /\ evts' \in Seq(Events)
               /\ UNCHANGED <<libVars, call, raced>> /\ unreported' \in Int
  BY <1>0 DEF TypeOK, sdType, libVars, remoteVars
<1>2. CASE SdConnect
  <2>1. [ev |-> "connected"] \in Events
    BY DEF Events
  <2> QED
    BY <1>0, <1>2, <2>1, Raised DEF SdConnect, TypeOK, sdType, ghosts, libVars
<1>3. CASE SdDisconnect
  <2>1. [ev |-> "disconnected"] \in Events
    BY DEF Events
  <2>2. 0 \in 0 .. Capacity
    BY <1>0
  <2> QED
    BY <1>0, <1>3, <2>1, <2>2, Raised DEF SdDisconnect, TypeOK, sdType, ghosts, libVars
<1>4. CASE SdConfirmed
  BY <1>0, <1>4 DEF SdConfirmed, TypeOK, sdType, ghosts, libVars
<1>5. CASE SdAnswer
  <2>1. CASE SdResponse
    <3>1. [ev |-> "response"] \in Events
      BY DEF Events
    <3> QED
      BY <1>0, <2>1, <3>1, Raised DEF SdResponse, TypeOK, sdType, ghosts, libVars
  <2>2. ASSUME NEW status \in {"success", "end", "error"}, NEW found \in SUBSET setup.services,
               SdDiscovered(status, found)
        PROVE  /\ sdType' /\ evts' \in Seq(Events)
               /\ UNCHANGED <<libVars, call, raced>> /\ unreported' \in Int
    <3> DEFINE e == [ev |-> proc.op, status |-> status, found |-> found, left |-> proc.left - 1]
    <3>1. e \in Events
      BY <2>2, DiscoveredEvent
    <3>2. raise(e)
      BY <2>2 DEF SdDiscovered
    <3> HIDE DEF e
    <3> QED
      BY <1>0, <2>2, <3>1, <3>2, Raised DEF SdDiscovered, TypeOK, sdType, ghosts, libVars
  <2> QED
    BY <1>5, <2>1, <2>2 DEF SdAnswer
<1>6. ASSUME NEW n \in 1 .. queued, SdSent(n)
      PROVE  /\ sdType' /\ evts' \in Seq(Events)
             /\ UNCHANGED <<libVars, call, raced>> /\ unreported' \in Int
  <2>1. n \in 1 .. Capacity /\ n \in Int
    BY <1>0 DEF TypeOK
  <2>2. [ev |-> "tx_complete", count |-> n] \in Events
    BY <2>1 DEF Events
  <2> QED
    BY <1>0, <1>6, <2>1, <2>2, Raised DEF SdSent, TypeOK, sdType, libVars
<1>7. ASSUME NEW c \in setup.chars, SdWriteValue(c)
      PROVE  /\ sdType' /\ evts' \in Seq(Events)
             /\ UNCHANGED <<libVars, call, raced>> /\ unreported' \in Int
  <2>1. [ev |-> "write_value", char |-> c] \in Events
    BY <1>0 DEF Events
  <2> QED
    BY <1>0, <1>7, <2>1, Raised DEF SdWriteValue, TypeOK, sdType, sdVars, ghosts, libVars
<1>8. ASSUME NEW c \in setup.chars, NEW v \in Cccd, SdWriteCccd(c, v)
      PROVE  /\ sdType' /\ evts' \in Seq(Events)
             /\ UNCHANGED <<libVars, call, raced>> /\ unreported' \in Int
  <2>1. [ev |-> "write_cccd", char |-> c, value |-> v] \in Events
    BY <1>0 DEF Events
  <2>2. v \in SUBSET Kinds
    BY BleAssumption
  <2> QED
    BY <1>0, <1>8, <2>1, <2>2, Raised DEF SdWriteCccd, TypeOK, sdType, ghosts, libVars
<1> QED
  BY <1>2, <1>3, <1>4, <1>5, <1>6, <1>7, <1>8 DEF SoftDevice

\* sd_ble_gattc_..._discover changes the procedure in progress, to one.
LEMMA DiscoverType ==
    ASSUME proc \in Procedures, Procedures' = Procedures, NEW op \in {"services", "characteristics"},
           NEW service \in Nat, NEW left \in Lefts, discover(op, service, left)
    PROVE  proc' \in Procedures'
<1>1. [op |-> op, service |-> service, left |-> left] \in Procedures
  BY DEF Procedures
<1> QED
  BY <1>1 DEF discover

LEMMA PollType == TypeOK /\ Poll /\ UNCHANGED setup => TypeOK'
<1> SUFFICES ASSUME TypeOK, Poll, UNCHANGED setup PROVE TypeOK'
  OBVIOUS
<1>0. /\ setup.chars \subseteq Chars /\ setup.services \subseteq Services
      /\ MaxAttrs[setup] \in Nat /\ Lefts = 0 .. MaxAttrs[setup]
      /\ Events' = Events /\ Procedures' = Procedures
      /\ Services \subseteq Nat
      /\ Byte \in Nat \ {0} /\ Capacity \in Nat /\ Capacity \in Counts /\ Counts = 0 .. Byte - 1
      /\ sdType /\ libType /\ evts \in Seq(Events)
  BY SetupFacts, BleAssumption
     DEF TypeOK, sdType, libType, Lefts, Events, Procedures, Counts, Services
<1>1. ASSUME NEW ev, polls(ev)
      PROVE  /\ evts' \in Seq(Events) /\ Head(evts) \in Events /\ Head(evts).ev = ev
             /\ link' = link /\ cccd' = cccd /\ call' = call
             /\ raced' \in BOOLEAN
  <2>1. raced' \in BOOLEAN
    BY <1>1, Zenon DEF polls, TypeOK
  <2> QED
    BY <1>0, <1>1, <2>1, Polled DEF polls
<1>e. ASSUME NEW ev, polls(ev)
      PROVE  ending' = ending
  BY <1>e DEF polls
<1>2. ASSUME NEW ev \in {"tx_complete", "connected", "write_cccd", "write_value",
                         "services", "characteristics", "response"},
             polls(ev), queued' \in 0 .. Capacity, confirming' \in BOOLEAN, proc' \in Procedures,
             libType'
      PROVE  TypeOK'
  <2>1. unreported' \in Int
    <3>1. \/ ev = "tx_complete" /\ unreported' = unreported - Head(evts).count
          \/ unreported' = unreported
      BY <1>2 DEF polls
    <3>2. ev = "tx_complete" => Head(evts).count \in 1 .. Capacity
      BY <1>1, <1>2, EventFacts
    <3>3. unreported \in Int /\ Capacity \in Nat
      BY <1>0 DEF TypeOK
    <3> QED
      BY <3>1, <3>2, <3>3
  <2> QED
    BY <1>0, <1>1, <1>2, <2>1 DEF TypeOK, libType
<1>3. CASE PollTxComplete
  <2>1. Head(evts).count \in Nat
    BY <1>0, <1>1, <1>3, EventFacts DEF PollTxComplete
  <2>2. _txBufferCount + Head(evts).count \in Int
    BY <1>0, <2>1 DEF libType
  <2>3. _txBufferCount' \in Counts
    BY <1>0, <1>3, <2>2, ModRange DEF PollTxComplete
  <2> QED
    BY <1>0, <1>2, <1>e, <1>3, <2>3 DEF PollTxComplete, sdType, libType, remoteVars
<1>4. CASE PollConnected
  <2>1. proc' \in Procedures
    BY <1>0, <1>4, DiscoverType DEF PollConnected, sdType
  <2> QED
    BY <1>0, <1>2, <1>e, <1>4, <2>1 DEF PollConnected, sdType, libType
<1>5. CASE PollDisconnected
  <2>1. raced' \in BOOLEAN
    BY <1>5, Zenon DEF PollDisconnected
  <2>2. /\ ending' = TRUE /\ connected' = FALSE /\ _txBufferCount' = 0 /\ unreported' = 0
        /\ UNCHANGED <<sdVars, evts, subscribed, remoteVars, _remoteRequestInProgress, call>>
    BY <1>5 DEF PollDisconnected
  <2>3. 0 \in Counts
    BY <1>0
  <2>4. ending' \in BOOLEAN /\ connected' \in BOOLEAN /\ _remoteRequestInProgress' \in BOOLEAN
    BY <1>0, <2>2 DEF libType
  <2>5. /\ _txBufferCount' \in Counts /\ unreported' \in Int /\ evts' \in Seq(Events)
        /\ call' \in Calls /\ setup' \in Setups
    BY <1>0, <2>2, <2>3 DEF TypeOK
  <2> QED
    BY <1>0, <2>1, <2>2, <2>4, <2>5 DEF TypeOK, libType, sdType, sdVars, remoteVars
<1>u. ASSUME NEW c \in Chars, PollUnsubscribe(c)
      PROVE  TypeOK'
  BY <1>0, <1>u DEF PollUnsubscribe, TypeOK, libType, sdVars, remoteVars, ghosts
<1>f. CASE PollForget
  <2>1. evts' \in Seq(Events)
    BY <1>0, <1>f, Handled DEF PollForget
  <2> QED
    BY <1>0, <1>f, <2>1 DEF PollForget, TypeOK, libType, sdVars, ghosts
<1>6. CASE PollWriteCccd
  <2>1. Head(evts).char \in Chars /\ Head(evts).value \in SUBSET Kinds
    BY <1>0, <1>1, <1>6, EventFacts, BleAssumption DEF PollWriteCccd
  <2>2. subscribed' \in [Chars -> SUBSET Kinds]
    BY <1>0, <1>6, <2>1 DEF PollWriteCccd, libType
  <2> QED
    BY <1>0, <1>2, <1>e, <1>6, <2>2 DEF PollWriteCccd, sdType, libType, remoteVars
<1>7. CASE PollWriteValue
  <2>1. _txBufferCount' \in Counts
    BY <1>0, <1>7 DEF PollWriteValue, libType
  <2>2. queued' \in 0 .. Capacity
    BY <1>0, <1>7 DEF PollWriteValue, sdType, takesHvx
  <2>3. confirming' \in BOOLEAN
    BY <1>7 DEF PollWriteValue
  <2> QED
    BY <1>0, <1>2, <1>e, <1>7, <2>1, <2>2, <2>3 DEF PollWriteValue, sdType, libType, remoteVars
<1>8. CASE PollServices
  <2> DEFINE e == Head(evts)
  <2>1. /\ e.status \in {"success", "end", "error"} /\ e.found \subseteq Services
        /\ e.status = "success" => e.left \in Lefts
    BY <1>0, <1>1, <1>8, EventFacts DEF PollServices
  <2>2. proc' \in Procedures
    BY <1>0, <1>8, <2>1, DiscoverType DEF PollServices, sdType, libType
  <2>3. /\ ranges' \subseteq Services /\ _remoteServiceDiscoveryIndex' \in Nat
        /\ discovery' \in {"none", "running", "discovered", "failed"}
    BY <1>0, <1>8, <2>1 DEF PollServices, libType
  <2> QED
    BY <1>0, <1>2, <1>e, <1>8, <2>2, <2>3 DEF PollServices, sdType, libType
<1>9. CASE PollCharacteristics
  <2> DEFINE e == Head(evts)
  <2>1. /\ e.status \in {"success", "end", "error"} /\ e.found \subseteq Services
        /\ e.status = "success" => e.left \in Lefts
    BY <1>0, <1>1, <1>9, EventFacts DEF PollCharacteristics
  <2>2. proc' \in Procedures
    BY <1>0, <1>9, <2>1, DiscoverType DEF PollCharacteristics, sdType, libType, nextServices
  <2>3. /\ handles' \subseteq Services /\ _remoteServiceDiscoveryIndex' \in Nat
        /\ discovery' \in {"none", "running", "discovered", "failed"}
    BY <1>0, <1>9, <2>1 DEF PollCharacteristics, libType, nextServices
  <2> QED
    BY <1>0, <1>2, <1>e, <1>9, <2>2, <2>3 DEF PollCharacteristics, sdType, libType
<1>10. CASE PollResponse
  BY <1>0, <1>2, <1>e, <1>10 DEF PollResponse, sdType, libType, remoteVars
<1> QED
  BY <1>3, <1>4, <1>5, <1>u, <1>f, <1>6, <1>7, <1>8, <1>9, <1>10 DEF Poll

\* The two kinds of calls under way.
hvxCalls == [op : {"test", "take", "send", "returned"}, kind : Kinds, on : Chars, from : From,
             seen : Counts, success : BOOLEAN, refused : SUBSET HvxErrors]
requestCalls == [op : {"mark", "take", "send"},
                 kind : {"read", "write_req", "write_cmd", "subscribe"},
                 on : Services, from : From, seen : Counts]

LEMMA CallFacts ==
    ASSUME call \in Calls
    PROVE  /\ call.op \in {"test", "returned"} => call \in hvxCalls
           /\ call.op = "mark" => call \in requestCalls
           /\ call.op \in {"take", "send"} => call \in hvxCalls \cup requestCalls
           /\ call.op \in {"take", "send"} /\ call.kind \in Kinds => call \in hvxCalls
           /\ call.op \in {"take", "send"} /\ call.kind \notin Kinds => call \in requestCalls
  BY DEF Calls, hvxCalls, requestCalls, Idle, Kinds

LEMMA SketchType == TypeOK /\ Sketch /\ UNCHANGED setup => TypeOK'
<1> SUFFICES ASSUME TypeOK, Sketch, UNCHANGED setup PROVE TypeOK'
  OBVIOUS
<1>0. /\ setup.chars \subseteq Chars /\ setup.services \subseteq Services
      /\ Events' = Events /\ Procedures' = Procedures
      /\ Byte \in Nat \ {0} /\ Capacity \in Nat /\ Counts = 0 .. Byte - 1
      /\ sdType /\ libType
      /\ hvxCalls \subseteq Calls /\ requestCalls \subseteq Calls
  BY SetupFacts, BleAssumption
     DEF TypeOK, sdType, libType, Lefts, Events, Procedures, Counts, Calls, hvxCalls, requestCalls
<1>1. SUFFICES /\ sdType' /\ libType' /\ call' \in Calls
               /\ UNCHANGED <<evts, ghosts>>
  BY <1>0 DEF TypeOK, sdType, libType, ghosts
<1>c. ASSUME UNCHANGED <<sdVars, evts, libVars, ghosts>>, call' \in Calls
      PROVE  /\ sdType' /\ libType' /\ call' \in Calls
             /\ UNCHANGED <<evts, ghosts>>
  BY <1>0, <1>c DEF sdVars, libVars, remoteVars, sdType, libType
<1>h. ASSUME NEW c \in hvxCalls
      PROVE  hvxDone(c) \in Calls
  <2>1. [c EXCEPT !.op = "test", !.kind = "indicate"] \in hvxCalls
    BY <1>h DEF hvxCalls, Kinds
  <2>2. [c EXCEPT !.op = "returned"] \in hvxCalls
    BY <1>h DEF hvxCalls
  <2> QED
    BY <1>0, <2>1, <2>2 DEF hvxDone
<1>2. ASSUME NEW from \in {"loop", "callback"}, NEW c \in setup.chars, SetValue(c, from)
      PROVE  /\ sdType' /\ libType' /\ call' \in Calls
             /\ UNCHANGED <<evts, ghosts>>
  <2>1. call' \in hvxCalls
    BY <1>0, <1>2 DEF SetValue, hvxCalls, Kinds, From, Counts
  <2> QED
    BY <1>0, <1>2, <1>c, <2>1 DEF SetValue
<1>3. ASSUME NEW from \in {"loop", "callback"}, NEW i \in setup.services,
             NEW operation \in {"read", "write", "subscribe"}, RequestTest(i, operation, from)
      PROVE  /\ sdType' /\ libType' /\ call' \in Calls
             /\ UNCHANGED <<evts, ghosts>>
  <2>1. requestOf(i, operation) \in {"read", "write_req", "write_cmd", "subscribe"}
    BY <1>3 DEF RequestTest, requestOf
  <2>2. (IF operation = "write" THEN _txBufferCount - 1 ELSE 0) \in Counts
    BY <1>0, <1>3 DEF RequestTest, libType
  <2>3. call' \in requestCalls
    BY <1>0, <1>3, <2>1, <2>2 DEF RequestTest, requestCalls, From
  <2> QED
    BY <1>0, <1>3, <1>c, <2>3 DEF RequestTest
<1>4. CASE HvxUnsubscribed \/ HvxNoBuffer
  <2>1. call \in hvxCalls
    BY <1>4, CallFacts DEF HvxUnsubscribed, HvxNoBuffer, at, TypeOK
  <2>2. [call EXCEPT !.success = FALSE] \in hvxCalls
    BY <2>1 DEF hvxCalls
  <2> QED
    BY <1>4, <1>c, <1>h, <2>1, <2>2 DEF HvxUnsubscribed, HvxNoBuffer
<1>5. CASE HvxBuffer
  <2>1. call \in hvxCalls
    BY <1>5, CallFacts DEF HvxBuffer, at, TypeOK
  <2>2. _txBufferCount - 1 \in Counts
    BY <1>0, <1>5 DEF HvxBuffer, libType
  <2>3. call' \in hvxCalls
    BY <1>5, <2>1, <2>2 DEF HvxBuffer, hvxCalls
  <2> QED
    BY <1>0, <1>5, <1>c, <2>3 DEF HvxBuffer
<1>6. CASE TakeBuffer
  <2>1. call \in hvxCalls \cup requestCalls
    BY <1>6, CallFacts DEF TakeBuffer, at, TypeOK
  <2>2. call.seen \in Counts
    BY <2>1 DEF hvxCalls, requestCalls
  <2>3. _txBufferCount - 1 \in Int
    BY <1>0 DEF libType
  <2>4. _txBufferCount' \in Counts
    BY <1>0, <1>6, <2>2, <2>3, ModRange DEF TakeBuffer
  <2>5. call' \in Calls
    <3>1. 0 \in Counts
      BY <1>0
    <3> QED
      BY <1>0, <1>6, <2>1, <3>1 DEF TakeBuffer, hvxCalls, requestCalls
  <2> QED
    BY <1>0, <1>6, <2>4, <2>5 DEF TakeBuffer, sdVars, sdType, libType, remoteVars
<1>7. CASE HvxSend
  <2>1. call \in hvxCalls
    BY <1>7, CallFacts DEF HvxSend, at, TypeOK
  <2>2. [call EXCEPT !.refused = @ \cup {hvxError(call.kind)}] \in hvxCalls
    BY <2>1 DEF hvxCalls, hvxError, HvxErrors
  <2>3. call' \in Calls
    BY <1>7, <1>h, <2>1, <2>2 DEF HvxSend
  <2>4. queued' \in 0 .. Capacity /\ confirming' \in BOOLEAN
    BY <1>0, <1>7 DEF HvxSend, sdType, takesHvx
  <2> QED
    BY <1>0, <1>7, <2>3, <2>4 DEF HvxSend, sdType, libType, libVars, remoteVars
<1>8. CASE SetValueReturn
  BY <1>8, <1>c DEF SetValueReturn, Calls
<1>9. CASE RequestMark
  <2>1. call \in requestCalls
    BY <1>9, CallFacts DEF RequestMark, at, TypeOK
  <2>2. call' \in requestCalls
    BY <1>9, <2>1 DEF RequestMark, requestCalls
  <2> QED
    BY <1>0, <1>9, <2>2 DEF RequestMark, sdVars, sdType, libType, remoteVars
<1>10. CASE RequestSend
  <2>1. queued' \in 0 .. Capacity /\ proc' \in Procedures
    BY <1>0, <1>10 DEF RequestSend, sdType, Procedures
  <2>2. call' \in Calls
    BY <1>10 DEF RequestSend, Calls
  <2> QED
    BY <1>0, <1>10, <2>1, <2>2 DEF RequestSend, sdType, libType, libVars, remoteVars
<1> QED
  BY <1>2, <1>3, <1>4, <1>5, <1>6, <1>7, <1>8, <1>9, <1>10 DEF Sketch, callStep

\* Every variable keeps its type, whatever the number of characteristics,
\* services and buffers: in particular the counter stays an unsigned char, and
\* poll() finds no event it does not handle.
THEOREM TypeCorrect == Spec => []TypeOK
<1>1. TypeOK /\ [Next]_vars => TypeOK'
  <2>1. TypeOK /\ UNCHANGED vars => TypeOK'
    BY DEF vars, sdVars, libVars, remoteVars, ghosts, TypeOK, Events, Procedures, Lefts
  <2> QED
    BY <2>1, SoftDeviceType, PollType, SketchType DEF Next
<1> QED
  BY <1>1, InitType, PTL DEF Spec

-------------------------------------------------------------------------------
(* What the steps leave alone. *)

\* The sketch makes requests and packets, on a link only.
LEMMA SketchFrame ==
    ASSUME Sketch
    PROVE  /\ UNCHANGED <<link, cccd, evts, connected, subscribed, remoteVars, ending, ghosts>>
           /\ ~link => queued' = queued /\ proc' = proc
<1>1. \A c, from : SetValue(c, from) => UNCHANGED <<sdVars, evts, libVars, ghosts>>
  BY DEF SetValue
<1>2. \A i, operation, from : RequestTest(i, operation, from) => UNCHANGED <<sdVars, evts, libVars, ghosts>>
  BY DEF RequestTest
<1>3. HvxUnsubscribed \/ HvxNoBuffer \/ HvxBuffer \/ SetValueReturn
        => UNCHANGED <<sdVars, evts, libVars, ghosts>>
  BY DEF HvxUnsubscribed, HvxNoBuffer, HvxBuffer, SetValueReturn
<1>4. CASE UNCHANGED <<sdVars, evts, libVars, ghosts>>
  BY <1>4 DEF sdVars, libVars
<1>5. CASE TakeBuffer \/ RequestMark
  BY <1>5 DEF TakeBuffer, RequestMark, sdVars
<1>6. CASE HvxSend
  BY <1>6 DEF HvxSend, takesHvx, libVars
<1>7. CASE RequestSend
  BY <1>7 DEF RequestSend, libVars
<1> QED
  BY <1>1, <1>2, <1>3, <1>4, <1>5, <1>6, <1>7 DEF Sketch, callStep

\* The only procedures it begins are requests.
LEMMA SketchAsks == Sketch => proc' \in {proc, [op |-> "request"]}
  BY DEF Sketch, callStep, SetValue, RequestTest, HvxUnsubscribed, HvxNoBuffer, HvxBuffer,
     TakeBuffer, HvxSend, SetValueReturn, RequestMark, RequestSend, sdVars

-------------------------------------------------------------------------------
(* The link. *)

\* The events are of one link, or of the one that ended: CONNECTED is the first
\* of them and DISCONNECTED the last; and nothing is under way without a link.
\* The library knows of the link between the two, DISCONNECTED being there until
\* all is forgotten.
LinkInv ==
    /\ \A k \in 1 .. Len(evts) :
         /\ evts[k].ev = "disconnected" => k = Len(evts) /\ ~link
         /\ evts[k].ev = "connected" => k = 1
    /\ Len(evts) > 0 => (connected <=> evts[1].ev # "connected" /\ ~ending)
    /\ ending => Len(evts) > 0 /\ evts[1].ev = "disconnected"
    /\ Len(evts) = 0 => (connected <=> link)
    /\ ~link /\ Len(evts) > 0 => evts[Len(evts)].ev = "disconnected"
    /\ ~link => queued = 0 /\ proc = NoProc

\* What an event does to the others, for every event but the two of the link.
LEMMA LinkRaised ==
    ASSUME TypeOK, LinkInv, NEW e \in Events, raise(e), link, link' = link, connected' = connected,
           ending' = ending, e.ev \notin {"connected", "disconnected"}
    PROVE  LinkInv'
<1>1. /\ Len(evts) \in Nat /\ Len(evts') = Len(evts) + 1
      /\ \A k \in 1 .. Len(evts) : evts'[k] = evts[k]
      /\ evts'[Len(evts) + 1] = e
  BY Raised DEF TypeOK, raise
<1> QED
  BY <1>1 DEF LinkInv

LEMMA LinkPolled ==
    ASSUME TypeOK, LinkInv, NEW ev, polls(ev), ev \notin {"connected", "disconnected"},
           connected' = connected, ~link => queued' = 0 /\ proc' = NoProc
    PROVE  LinkInv'
<1>1. /\ Len(evts) \in Nat \ {0} /\ Len(evts') = Len(evts) - 1
      /\ \A k \in 1 .. Len(evts') : evts'[k] = evts[k + 1]
      /\ evts[1].ev = ev
      /\ link' = link
  BY Polled DEF TypeOK, polls
<1>a. ending' = ending
  BY DEF polls
<1>2. /\ ~ending /\ ~ending' /\ connected'
      /\ \A k \in 1 .. Len(evts) :
           /\ evts[k].ev = "disconnected" => k = Len(evts) /\ ~link
           /\ evts[k].ev = "connected" => k = 1
      /\ ~link => evts[Len(evts)].ev = "disconnected"
  BY <1>1, <1>a DEF LinkInv
<1>3. /\ \A k \in 1 .. Len(evts') : evts'[k].ev = "disconnected" => k = Len(evts') /\ ~link
      /\ \A k \in 1 .. Len(evts') : evts'[k].ev # "connected"
      /\ ~link => Len(evts') > 0 /\ evts'[Len(evts')].ev = "disconnected"
  BY <1>1, <1>2
<1> QED
  BY <1>1, <1>2, <1>3 DEF LinkInv

LEMMA InitLink == Init => LinkInv
<1> SUFFICES ASSUME Init PROVE LinkInv
  OBVIOUS
<1>1. Len(evts) = 0 /\ ~link /\ ~connected
  BY DEF Init
<1> QED
  BY <1>1 DEF Init, LinkInv

LEMMA LinkStep == TypeOK /\ LinkInv /\ [Next]_vars => LinkInv'
<1> SUFFICES ASSUME TypeOK, LinkInv, [Next]_vars PROVE LinkInv'
  OBVIOUS
<1>0. /\ evts = <<>> <=> Len(evts) = 0
      /\ Len(evts) \in Nat
      /\ evts \in Seq(Events) /\ queued \in Nat
  BY BleAssumption DEF TypeOK
<1>1. CASE SdConnect
  <2> DEFINE e == [ev |-> "connected"]
  <2>1. e \in Events /\ raise(e)
    BY <1>1 DEF SdConnect, Events
  <2>2. Len(evts') = 1 /\ evts'[1] = e
    BY <1>0, <1>1, <2>1, Raised DEF SdConnect
  <2> QED
    BY <1>0, <1>1, <2>2 DEF SdConnect, LinkInv, libVars
<1>2. CASE SdDisconnect
  <2> DEFINE e == [ev |-> "disconnected"]
  <2>1. e \in Events /\ raise(e)
    BY <1>2 DEF SdDisconnect, Events
  <2>2. /\ Len(evts') = Len(evts) + 1
        /\ \A k \in 1 .. Len(evts) : evts'[k] = evts[k]
        /\ evts'[Len(evts) + 1] = e
    BY <1>0, <2>1, Raised DEF raise
  <2>3. e.ev = "disconnected"
    OBVIOUS
  <2> HIDE DEF e
  <2> QED
    BY <1>0, <1>2, <2>2, <2>3 DEF SdDisconnect, LinkInv, libVars
<1>3. CASE SdConfirmed
  BY <1>3 DEF SdConfirmed, LinkInv, libVars
<1>4. ASSUME NEW status, NEW found, SdDiscovered(status, found), status \in {"success", "end", "error"},
             UNCHANGED setup, found \in SUBSET setup.services
      PROVE  LinkInv'
  <2> DEFINE e == [ev |-> proc.op, status |-> status, found |-> found, left |-> proc.left - 1]
  <2>1. link /\ proc.op \in {"services", "characteristics"}
    BY <1>4 DEF SdDiscovered, LinkInv, NoProc
  <2>2. e \in Events
    BY <1>4, DiscoveredEvent DEF TypeOK
  <2>3. e.ev \notin {"connected", "disconnected"} /\ raise(e)
    BY <1>4, <2>1 DEF SdDiscovered
  <2> HIDE DEF e
  <2> QED
    BY <1>4, <2>1, <2>2, <2>3, LinkRaised DEF SdDiscovered, libVars
<1>5. CASE SdResponse
  <2>1. link /\ [ev |-> "response"] \in Events
    BY <1>5 DEF SdResponse, LinkInv, NoProc, Events
  <2> QED
    BY <1>5, <2>1, LinkRaised DEF SdResponse, libVars
<1>6. ASSUME NEW n \in 1 .. queued, SdSent(n)
      PROVE  LinkInv'
  <2>1. n \in 1 .. Capacity /\ link
    BY <1>0, <1>6, BleAssumption DEF LinkInv, TypeOK
  <2>2. [ev |-> "tx_complete", count |-> n] \in Events
    BY <2>1 DEF Events
  <2> QED
    BY <1>6, <2>1, <2>2, LinkRaised DEF SdSent, libVars
<1>7. ASSUME NEW c \in setup.chars, SdWriteValue(c)
      PROVE  LinkInv'
  <2>1. [ev |-> "write_value", char |-> c] \in Events
    BY SetupFacts DEF TypeOK, Events
  <2> QED
    BY <1>7, <2>1, LinkRaised DEF SdWriteValue, sdVars, libVars
<1>8. ASSUME NEW c \in setup.chars, NEW v \in Cccd, SdWriteCccd(c, v)
      PROVE  LinkInv'
  <2>1. [ev |-> "write_cccd", char |-> c, value |-> v] \in Events
    BY SetupFacts DEF TypeOK, Events
  <2> QED
    BY <1>8, <2>1, LinkRaised DEF SdWriteCccd, libVars
<1>9. CASE PollConnected
  <2>1. /\ Len(evts) \in Nat \ {0} /\ Len(evts') = Len(evts) - 1
        /\ \A k \in 1 .. Len(evts') : evts'[k] = evts[k + 1]
        /\ evts[1].ev = "connected"
        /\ link' = link
    BY <1>0, <1>9, Polled DEF PollConnected, polls
  <2>2. ~link => queued' = 0 /\ proc' = NoProc
    BY <1>9 DEF PollConnected, LinkInv, discover
  <2>3. connected' /\ ~ending'
    BY <1>9, <2>1 DEF PollConnected, LinkInv, polls
  <2> QED
    BY <2>1, <2>2, <2>3 DEF LinkInv
<1>10. CASE PollDisconnected
  <2>1. evts[1].ev = "disconnected" /\ Len(evts) > 0
    BY <1>0, <1>10, Handled DEF PollDisconnected
  <2> QED
    BY <1>10, <2>1 DEF PollDisconnected, LinkInv, sdVars
<1>u. ASSUME NEW c \in Chars, PollUnsubscribe(c)
      PROVE  LinkInv'
  BY <1>u DEF PollUnsubscribe, LinkInv, sdVars
<1>f. CASE PollForget
  <2>1. Len(evts') = Len(evts) - 1 /\ evts[1].ev = "disconnected" /\ 1 \in 1 .. Len(evts)
    BY <1>0, <1>f, Handled DEF PollForget
  <2>2. ending
    BY <1>f DEF PollForget
  <2>3. Len(evts') = 0 /\ ~link /\ ~connected
    BY <1>0, <2>1, <2>2 DEF LinkInv
  <2> QED
    BY <1>f, <2>3 DEF PollForget, LinkInv, sdVars
<1>11. CASE PollTxComplete
  BY <1>11, LinkPolled DEF PollTxComplete, LinkInv
<1>12. CASE PollWriteCccd
  BY <1>12, LinkPolled DEF PollWriteCccd, LinkInv
<1>13. CASE PollWriteValue
  <2>1. ~link => queued' = 0 /\ proc' = NoProc
    BY <1>13 DEF PollWriteValue, takesHvx, LinkInv
  <2> QED
    BY <1>13, <2>1, LinkPolled DEF PollWriteValue
<1>14. CASE PollServices
  <2>1. ~link => queued' = 0 /\ proc' = NoProc
    BY <1>14 DEF PollServices, discover, LinkInv
  <2> QED
    BY <1>14, <2>1, LinkPolled DEF PollServices
<1>15. CASE PollCharacteristics
  <2>1. ~link => queued' = 0 /\ proc' = NoProc
    BY <1>15 DEF PollCharacteristics, discover, LinkInv
  <2> QED
    BY <1>15, <2>1, LinkPolled DEF PollCharacteristics
<1>16. CASE PollResponse
  BY <1>16, LinkPolled DEF PollResponse, LinkInv
<1>17. CASE UNCHANGED <<link, evts, connected, ending, queued, proc>>
  BY <1>17 DEF LinkInv
<1>18. ASSUME Sketch
       PROVE  /\ UNCHANGED <<link, cccd, evts, connected, subscribed, remoteVars, ending, ghosts>>
              /\ ~link => queued' = queued /\ proc' = proc
  BY <1>18, SketchFrame
<1>19. CASE Sketch
  BY <1>18, <1>19 DEF LinkInv
<1>20. CASE UNCHANGED vars
  BY <1>17, <1>20 DEF vars, sdVars, libVars
<1> QED
  BY <1>1, <1>2, <1>3, <1>4, <1>5, <1>6, <1>7, <1>8, <1>9, <1>10, <1>u, <1>f, <1>11, <1>12,
     <1>13, <1>14, <1>15, <1>16, <1>19, <1>20 DEF Next, SoftDevice, SdAnswer, Poll

-------------------------------------------------------------------------------
(* The subscriptions. *)

writes(k, c) == evts[k].ev = "write_cccd" /\ evts[k].char = c

\* A characteristic that no waiting write is about is subscribed to as the
\* SoftDevice knows, and for the others the last write says so.
SubsInv ==
    /\ ~connected => ending \/ subscribed = [c \in Chars |-> {}]
    /\ link => \A c \in Chars :
         /\ (\A k \in 1 .. Len(evts) : ~writes(k, c)) => subscribed[c] = cccd[c]
         /\ \A k \in 1 .. Len(evts) :
              writes(k, c) /\ (\A j \in k + 1 .. Len(evts) : ~writes(j, c)) =>
                  evts[k].value = cccd[c]

LEMMA SubsRaised ==
    ASSUME TypeOK, SubsInv, NEW e \in Events, raise(e), UNCHANGED <<cccd, connected, ending, subscribed>>,
           link' => link, e.ev # "write_cccd"
    PROVE  SubsInv'
<1>1. /\ Len(evts) \in Nat /\ Len(evts') = Len(evts) + 1
      /\ \A k \in 1 .. Len(evts) : evts'[k] = evts[k]
      /\ evts'[Len(evts) + 1] = e
  BY Raised DEF TypeOK, raise
<1>2. /\ \A c : \A k \in 1 .. Len(evts) : writes(k, c)' <=> writes(k, c)
      /\ \A c, k : k = Len(evts) + 1 => ~writes(k, c)'
  BY <1>1 DEF writes
<1>3. ~connected' => ending' \/ subscribed' = [c \in Chars |-> {}]
  BY DEF SubsInv
<1>4. ASSUME link', NEW c \in Chars, \A k \in 1 .. Len(evts') : ~writes(k, c)'
      PROVE  subscribed'[c] = cccd'[c]
  BY <1>1, <1>2, <1>4 DEF SubsInv
<1>5. ASSUME link', NEW c \in Chars, NEW k \in 1 .. Len(evts'), writes(k, c)',
             \A j \in k + 1 .. Len(evts') : ~writes(j, c)'
      PROVE  evts'[k].value = cccd'[c]
  <2>1. k \in 1 .. Len(evts) /\ writes(k, c) /\ \A j \in k + 1 .. Len(evts) : ~writes(j, c)
    BY <1>1, <1>2, <1>5
  <2> QED
    BY <1>1, <1>5, <2>1 DEF SubsInv
<1> QED
  BY <1>3, <1>4, <1>5 DEF SubsInv

LEMMA SubsPolled ==
    ASSUME TypeOK, SubsInv, NEW ev, polls(ev), ev # "write_cccd", UNCHANGED <<ending, subscribed>>,
           ~connected' => ~connected
    PROVE  SubsInv'
<1>1. /\ Len(evts) \in Nat \ {0} /\ Len(evts') = Len(evts) - 1
      /\ \A k \in 1 .. Len(evts') : evts'[k] = evts[k + 1]
      /\ evts[1].ev = ev
      /\ link' = link /\ cccd' = cccd
  BY Polled DEF TypeOK, polls
<1>2. /\ \A c : \A k \in 1 .. Len(evts') : writes(k, c)' <=> writes(k + 1, c)
      /\ \A c : ~writes(1, c)
  BY <1>1 DEF writes
<1>3. ~connected' => ending' \/ subscribed' = [c \in Chars |-> {}]
  BY DEF SubsInv
<1>4. ASSUME link', NEW c \in Chars, \A k \in 1 .. Len(evts') : ~writes(k, c)'
      PROVE  subscribed'[c] = cccd'[c]
  <2>1. ASSUME NEW k \in 1 .. Len(evts) PROVE ~writes(k, c)
    <3>1. CASE k = 1
      BY <1>2, <3>1
    <3>2. CASE k # 1
      <4>1. k - 1 \in 1 .. Len(evts') /\ (k - 1) + 1 = k
        BY <1>1, <3>2
      <4> QED
        BY <1>2, <1>4, <4>1
    <3> QED
      BY <3>1, <3>2
  <2> QED
    BY <1>1, <1>4, <2>1 DEF SubsInv
<1>5. ASSUME link', NEW c \in Chars, NEW k \in 1 .. Len(evts'), writes(k, c)',
             \A j \in k + 1 .. Len(evts') : ~writes(j, c)'
      PROVE  evts'[k].value = cccd'[c]
  <2>1. k + 1 \in 1 .. Len(evts) /\ writes(k + 1, c)
    BY <1>1, <1>2, <1>5
  <2>2. ASSUME NEW j \in (k + 1) + 1 .. Len(evts) PROVE ~writes(j, c)
    <3>1. j - 1 \in k + 1 .. Len(evts') /\ j - 1 \in 1 .. Len(evts') /\ (j - 1) + 1 = j
      BY <1>1
    <3> QED
      BY <1>2, <1>5, <3>1
  <2> QED
    BY <1>1, <1>5, <2>1, <2>2 DEF SubsInv
<1> QED
  BY <1>3, <1>4, <1>5 DEF SubsInv

LEMMA InitSubs == Init => SubsInv
<1> SUFFICES ASSUME Init PROVE SubsInv
  OBVIOUS
<1>1. ~link
  BY DEF Init
<1> QED
  BY <1>1 DEF Init, SubsInv

LEMMA SubsStep == TypeOK /\ LinkInv /\ SubsInv /\ [Next]_vars => SubsInv'
<1> SUFFICES ASSUME TypeOK, LinkInv, SubsInv, [Next]_vars PROVE SubsInv'
  OBVIOUS
<1>0. /\ Len(evts) \in Nat
      /\ evts \in Seq(Events)
      /\ cccd \in [Chars -> SUBSET Kinds] /\ subscribed \in [Chars -> SUBSET Kinds]
  BY DEF TypeOK
<1>1. CASE SdConnect
  <2> DEFINE e == [ev |-> "connected"]
  <2>1. e \in Events /\ raise(e) /\ ~connected /\ ~ending /\ Len(evts) = 0
    BY <1>1 DEF SdConnect, Events, LinkInv
  <2>2. Len(evts') = 1 /\ evts'[1] = e
    BY <1>0, <2>1, Raised
  <2>3. \A c \in Chars : subscribed'[c] = {} /\ cccd'[c] = {}
    BY <1>1, <2>1 DEF SdConnect, SubsInv, libVars
  <2> QED
    BY <1>1, <2>1, <2>2, <2>3 DEF SdConnect, SubsInv, writes, libVars
<1>2. CASE SdDisconnect
  <2>1. [ev |-> "disconnected"] \in Events
    BY DEF Events
  <2> QED
    BY <1>2, <2>1, SubsRaised DEF SdDisconnect, libVars
<1>3. CASE UNCHANGED <<link, cccd, evts, connected, ending, subscribed>>
  BY <1>3 DEF SubsInv, writes
<1>4. ASSUME NEW status, NEW found, SdDiscovered(status, found), status \in {"success", "end", "error"},
             found \in SUBSET setup.services
      PROVE  SubsInv'
  <2> DEFINE e == [ev |-> proc.op, status |-> status, found |-> found, left |-> proc.left - 1]
  <2>1. e \in Events /\ e.ev # "write_cccd" /\ raise(e)
    BY <1>4, DiscoveredEvent DEF SdDiscovered
  <2> HIDE DEF e
  <2> QED
    BY <1>4, <2>1, SubsRaised DEF SdDiscovered, libVars
<1>5. CASE SdResponse
  <2>1. [ev |-> "response"] \in Events
    BY DEF Events
  <2> QED
    BY <1>5, <2>1, SubsRaised DEF SdResponse, libVars
<1>6. ASSUME NEW n \in 1 .. queued, SdSent(n)
      PROVE  SubsInv'
  <2>1. n \in 1 .. Capacity
    BY <1>6, BleAssumption DEF TypeOK
  <2>2. [ev |-> "tx_complete", count |-> n] \in Events
    BY <2>1 DEF Events
  <2> QED
    BY <1>6, <2>2, SubsRaised DEF SdSent, libVars
<1>7. ASSUME NEW c \in setup.chars, SdWriteValue(c)
      PROVE  SubsInv'
  <2>1. [ev |-> "write_value", char |-> c] \in Events
    BY SetupFacts DEF TypeOK, Events
  <2> QED
    BY <1>7, <2>1, SubsRaised DEF SdWriteValue, sdVars, libVars
<1>8. ASSUME NEW d \in setup.chars, NEW v \in Cccd, SdWriteCccd(d, v)
      PROVE  SubsInv'
  <2> DEFINE e == [ev |-> "write_cccd", char |-> d, value |-> v]
  <2>1. e \in Events /\ d \in Chars /\ raise(e)
    BY <1>8, SetupFacts DEF TypeOK, Events, SdWriteCccd
  <2>2. e.ev = "write_cccd" /\ e.char = d /\ e.value = v
    OBVIOUS
  <2> HIDE DEF e
  <2>3. /\ Len(evts') = Len(evts) + 1
        /\ \A k \in 1 .. Len(evts) : evts'[k] = evts[k]
        /\ evts'[Len(evts) + 1] = e
    BY <1>0, <2>1, Raised DEF raise
  <2>4. /\ \A c : \A k \in 1 .. Len(evts) : writes(k, c)' <=> writes(k, c)
        /\ \A c, k : k = Len(evts) + 1 => (writes(k, c)' <=> c = d)
    BY <2>2, <2>3 DEF writes
  <2>5. /\ UNCHANGED <<link, connected, ending, subscribed>>
        /\ cccd'[d] = v /\ \A c \in Chars : c # d => cccd'[c] = cccd[c]
    BY <1>0, <1>8, <2>1 DEF SdWriteCccd, libVars
  <2>6. ASSUME link', NEW c \in Chars, \A k \in 1 .. Len(evts') : ~writes(k, c)'
        PROVE  subscribed'[c] = cccd'[c]
    <3>1. c # d /\ \A k \in 1 .. Len(evts) : ~writes(k, c)
      BY <1>0, <2>3, <2>4, <2>6
    <3> QED
      BY <2>5, <2>6, <3>1 DEF SubsInv
  <2>7. ASSUME link', NEW c \in Chars, NEW k \in 1 .. Len(evts'), writes(k, c)',
               \A j \in k + 1 .. Len(evts') : ~writes(j, c)'
        PROVE  evts'[k].value = cccd'[c]
    <3>1. CASE c = d
      <4>1. k = Len(evts) + 1
        BY <1>0, <2>3, <2>4, <2>7, <3>1
      <4> QED
        BY <2>2, <2>3, <2>5, <3>1, <4>1
    <3>2. CASE c # d
      <4>1. k \in 1 .. Len(evts) /\ writes(k, c) /\ \A j \in k + 1 .. Len(evts) : ~writes(j, c)
        BY <1>0, <2>3, <2>4, <2>7, <3>2
      <4> QED
        BY <2>3, <2>5, <2>7, <3>2, <4>1 DEF SubsInv
    <3> QED
      BY <3>1, <3>2
  <2> QED
    BY <2>5, <2>6, <2>7 DEF SubsInv
<1>9. CASE PollConnected
  BY <1>9, SubsPolled DEF PollConnected, polls
<1>d. ASSUME handling("disconnected") PROVE ~link
  BY <1>0, <1>d, Handled DEF LinkInv
<1>10. CASE PollDisconnected
  BY <1>d, <1>10 DEF PollDisconnected, SubsInv, sdVars
<1>u. ASSUME NEW c \in Chars, PollUnsubscribe(c)
      PROVE  SubsInv'
  BY <1>d, <1>u DEF PollUnsubscribe, SubsInv, sdVars
<1>f. CASE PollForget
  <2>1. subscribed' = [c \in Chars |-> {}]
    BY <1>0, <1>f DEF PollForget
  <2> QED
    BY <1>d, <1>f, <2>1 DEF PollForget, SubsInv, sdVars
<1>11. CASE PollTxComplete \/ PollWriteValue \/ PollServices \/ PollCharacteristics \/ PollResponse
  BY <1>11, SubsPolled
     DEF PollTxComplete, PollWriteValue, PollServices, PollCharacteristics, PollResponse, polls
<1>12. CASE PollWriteCccd
  <2> DEFINE d == evts[1].char  v == evts[1].value
  <2>1. /\ Len(evts) \in Nat \ {0} /\ Len(evts') = Len(evts) - 1
        /\ \A k \in 1 .. Len(evts') : evts'[k] = evts[k + 1]
        /\ evts[1].ev = "write_cccd" /\ Head(evts) = evts[1] /\ evts[1] \in Events
        /\ link' = link /\ cccd' = cccd
    BY <1>0, <1>12, Polled DEF PollWriteCccd, polls
  <2>2. d \in Chars
    BY <2>1, EventFacts
  <2>3. connected /\ connected'
    BY <1>12, <2>1 DEF PollWriteCccd, LinkInv
  <2>4. subscribed'[d] = v /\ \A c \in Chars : c # d => subscribed'[c] = subscribed[c]
    BY <1>0, <1>12, <2>1, <2>2 DEF PollWriteCccd
  <2>5. /\ \A c : \A k \in 1 .. Len(evts') : writes(k, c)' <=> writes(k + 1, c)
        /\ \A c : writes(1, c) <=> c = d
    BY <2>1 DEF writes
  <2> HIDE DEF d, v
  <2>6. ASSUME link', NEW c \in Chars, \A k \in 1 .. Len(evts') : ~writes(k, c)'
        PROVE  subscribed'[c] = cccd'[c]
    <3>1. ASSUME NEW k \in 2 .. Len(evts) PROVE ~writes(k, c)
      <4>1. k - 1 \in 1 .. Len(evts') /\ (k - 1) + 1 = k
        BY <2>1
      <4> QED
        BY <2>5, <2>6, <4>1
    <3>2. CASE c = d
      <4>1. writes(1, c) /\ 1 \in 1 .. Len(evts) /\ 1 + 1 = 2
        BY <2>1, <2>5, <3>2
      <4>2. evts[1].value = cccd[c]
        BY <2>1, <2>6, <3>1, <4>1 DEF SubsInv
      <4> QED
        BY <2>1, <2>4, <3>2, <4>2 DEF v
    <3>3. CASE c # d
      <4>1. \A k \in 1 .. Len(evts) : ~writes(k, c)
        BY <2>1, <2>5, <3>1, <3>3
      <4> QED
        BY <2>1, <2>4, <2>6, <3>3, <4>1 DEF SubsInv
    <3> QED
      BY <3>2, <3>3
  <2>7. ASSUME link', NEW c \in Chars, NEW k \in 1 .. Len(evts'), writes(k, c)',
               \A j \in k + 1 .. Len(evts') : ~writes(j, c)'
        PROVE  evts'[k].value = cccd'[c]
    <3>1. k + 1 \in 1 .. Len(evts) /\ writes(k + 1, c)
      BY <2>1, <2>5, <2>7
    <3>2. ASSUME NEW j \in (k + 1) + 1 .. Len(evts) PROVE ~writes(j, c)
      <4>1. j - 1 \in k + 1 .. Len(evts') /\ j - 1 \in 1 .. Len(evts') /\ (j - 1) + 1 = j
        BY <2>1
      <4> QED
        BY <2>5, <2>7, <4>1
    <3> QED
      BY <2>1, <2>7, <3>1, <3>2 DEF SubsInv
  <2> QED
    BY <2>3, <2>6, <2>7 DEF SubsInv
<1>13. CASE Sketch
  BY <1>3, <1>13, SketchFrame
<1>14. CASE UNCHANGED vars \/ SdConfirmed
  BY <1>3, <1>14 DEF SdConfirmed, vars, sdVars, libVars
<1> QED
  BY <1>1, <1>2, <1>4, <1>5, <1>6, <1>7, <1>8, <1>9, <1>10, <1>u, <1>f, <1>11, <1>12, <1>13, <1>14
     DEF Next, SoftDevice, SdAnswer, Poll

\* The subscriptions of one central are never taken for those of the next:
\* whatever order events and polls come in, once all are handled the library
\* and the SoftDevice agree.
THEOREM SubscriptionsAgreeAlways == Spec => []SubscriptionsAgree
<1>1. TypeOK /\ LinkInv /\ SubsInv => SubscriptionsAgree
  <2> SUFFICES ASSUME TypeOK, LinkInv, SubsInv, evts = <<>>
               PROVE  /\ connected = link
                      /\ subscribed = IF link THEN cccd ELSE [c \in Chars |-> {}]
    BY DEF SubscriptionsAgree
  <2>1. Len(evts) = 0
    OBVIOUS
  <2>2. connected = link /\ ~ending
    BY <2>1 DEF LinkInv, TypeOK
  <2>3. CASE link
    <3>1. ASSUME NEW c \in Chars PROVE subscribed[c] = cccd[c]
      <4>1. \A k \in 1 .. Len(evts) : ~writes(k, c)
        BY <2>1
      <4> QED
        BY <2>3, <4>1 DEF SubsInv
    <3>2. subscribed \in [Chars -> SUBSET Kinds] /\ cccd \in [Chars -> SUBSET Kinds]
      BY DEF TypeOK
    <3>3. subscribed = cccd
      BY <3>1, <3>2
    <3> QED
      BY <2>2, <2>3, <3>3
  <2>4. CASE ~link
    BY <2>2, <2>4 DEF SubsInv
  <2> QED
    BY <2>3, <2>4
<1> QED
  BY <1>1, InitLink, InitSubs, LinkStep, SubsStep, TypeCorrect, PTL DEF Spec

-------------------------------------------------------------------------------
(* The discovery. *)

Discovery == {"services", "characteristics"}

\* Whatever is known of a central's services, was found on this link.
DiscInv ==
    /\ ~connected => ending \/ (discovery = "none" /\ ranges = {} /\ handles = {})
    /\ handles \subseteq ranges
    /\ discovery = "none" => handles = {}
    /\ proc.op \in Discovery => discovery # "none"
    /\ proc.op = "characteristics" => _remoteServiceDiscoveryIndex \in ranges
    /\ \A k \in 1 .. Len(evts) :
         /\ evts[k].ev \in Discovery => discovery # "none"
         /\ evts[k].ev = "characteristics" => _remoteServiceDiscoveryIndex \in ranges

LEMMA DiscRaised ==
    ASSUME TypeOK, DiscInv, NEW e \in Events, raise(e), UNCHANGED libVars, proc' \in {proc, NoProc},
           e.ev \in Discovery => discovery # "none",
           e.ev = "characteristics" => _remoteServiceDiscoveryIndex \in ranges
    PROVE  DiscInv'
<1>1. /\ Len(evts) \in Nat /\ Len(evts') = Len(evts) + 1
      /\ \A k \in 1 .. Len(evts) : evts'[k] = evts[k]
      /\ evts'[Len(evts) + 1] = e
  BY Raised DEF TypeOK, raise
<1> QED
  BY <1>1 DEF DiscInv, libVars, remoteVars, NoProc, Discovery

LEMMA DiscPolled ==
    ASSUME TypeOK, DiscInv, NEW ev, polls(ev), UNCHANGED <<connected, ending, remoteVars, proc>>
    PROVE  DiscInv'
<1>1. /\ Len(evts) \in Nat \ {0} /\ Len(evts') = Len(evts) - 1
      /\ \A k \in 1 .. Len(evts') : evts'[k] = evts[k + 1]
  BY Polled DEF TypeOK, polls
<1> QED
  BY <1>1 DEF DiscInv, remoteVars

\* The step of a discovery goes on with the same service, or ends.
LEMMA DiscStepOn ==
    ASSUME TypeOK, DiscInv, NEW ev, polls(ev), connected', discovery' # "none",
           handles' \subseteq ranges', ranges \subseteq ranges',
           \/ _remoteServiceDiscoveryIndex' \in ranges'
           \/ _remoteServiceDiscoveryIndex' = _remoteServiceDiscoveryIndex,
           proc'.op = "characteristics" =>
               proc' = proc \/ _remoteServiceDiscoveryIndex' \in ranges'
    PROVE  DiscInv'
<1>1. /\ Len(evts) \in Nat \ {0} /\ Len(evts') = Len(evts) - 1
      /\ \A k \in 1 .. Len(evts') : evts'[k] = evts[k + 1]
  BY Polled DEF TypeOK, polls
<1> QED
  BY <1>1 DEF DiscInv

LEMMA InitDisc == Init => DiscInv
<1> SUFFICES ASSUME Init PROVE DiscInv
  OBVIOUS
<1>1. Len(evts) = 0
  BY DEF Init
<1> QED
  BY <1>1 DEF Init, DiscInv, NoProc, Discovery

LEMMA DiscStep == TypeOK /\ LinkInv /\ DiscInv /\ [Next]_vars => DiscInv'
<1> SUFFICES ASSUME TypeOK, LinkInv, DiscInv, [Next]_vars PROVE DiscInv'
  OBVIOUS
<1>0. Len(evts) \in Nat /\ evts \in Seq(Events)
  BY DEF TypeOK
<1>1. CASE SdConnect
  <2>1. [ev |-> "connected"] \in Events
    BY DEF Events
  <2> QED
    BY <1>1, <2>1, DiscRaised DEF SdConnect, Discovery
<1>2. CASE SdDisconnect
  <2>1. [ev |-> "disconnected"] \in Events
    BY DEF Events
  <2> QED
    BY <1>2, <2>1, DiscRaised DEF SdDisconnect, Discovery
<1>3. CASE UNCHANGED <<evts, connected, ending, remoteVars>> /\ proc' \in {proc, [op |-> "request"]}
  BY <1>3 DEF DiscInv, remoteVars, Discovery
<1>4. ASSUME NEW status, NEW found, SdDiscovered(status, found), status \in {"success", "end", "error"},
             found \in SUBSET setup.services
      PROVE  DiscInv'
  <2> DEFINE e == [ev |-> proc.op, status |-> status, found |-> found, left |-> proc.left - 1]
  <2>1. e \in Events /\ e.ev = proc.op /\ raise(e)
    BY <1>4, DiscoveredEvent DEF SdDiscovered
  <2> HIDE DEF e
  <2>2. /\ e.ev \in Discovery => discovery # "none"
        /\ e.ev = "characteristics" => _remoteServiceDiscoveryIndex \in ranges
    BY <2>1 DEF DiscInv
  <2> QED
    BY <1>4, <2>1, <2>2, DiscRaised DEF SdDiscovered
<1>5. CASE SdResponse
  <2>1. [ev |-> "response"] \in Events
    BY DEF Events
  <2> QED
    BY <1>5, <2>1, DiscRaised DEF SdResponse, Discovery
<1>6. ASSUME NEW n \in 1 .. queued, SdSent(n)
      PROVE  DiscInv'
  <2>1. n \in 1 .. Capacity
    BY <1>6, BleAssumption DEF TypeOK
  <2>2. [ev |-> "tx_complete", count |-> n] \in Events
    BY <2>1 DEF Events
  <2> QED
    BY <1>6, <2>2, DiscRaised DEF SdSent, Discovery
<1>7. ASSUME NEW c \in setup.chars, SdWriteValue(c)
      PROVE  DiscInv'
  <2>1. [ev |-> "write_value", char |-> c] \in Events
    BY SetupFacts DEF TypeOK, Events
  <2> QED
    BY <1>7, <2>1, DiscRaised DEF SdWriteValue, sdVars, Discovery
<1>8. ASSUME NEW c \in setup.chars, NEW v \in Cccd, SdWriteCccd(c, v)
      PROVE  DiscInv'
  <2>1. [ev |-> "write_cccd", char |-> c, value |-> v] \in Events
    BY SetupFacts DEF TypeOK, Events
  <2> QED
    BY <1>8, <2>1, DiscRaised DEF SdWriteCccd, Discovery
<1>9. CASE PollConnected
  <2>1. /\ Len(evts) \in Nat \ {0} /\ Len(evts') = Len(evts) - 1
        /\ \A k \in 1 .. Len(evts') : evts'[k] = evts[k + 1]
        /\ evts[1].ev = "connected"
    BY <1>0, <1>9, Polled DEF PollConnected, polls
  <2>2. /\ ~connected /\ discovery = "none" /\ ranges = {} /\ handles = {}
        /\ connected' /\ ranges' = ranges /\ handles' = handles
    BY <1>9, <2>1 DEF PollConnected, LinkInv, DiscInv, Discovery
  <2>3. proc.op \notin Discovery /\ \A k \in 1 .. Len(evts') : evts'[k].ev \notin Discovery
    BY <2>1, <2>2 DEF DiscInv
  <2>4. \/ proc' = proc
        \/ proc'.op = "services" /\ discovery' = "running"
    BY <1>9 DEF PollConnected, discover
  <2> QED
    BY <2>2, <2>3, <2>4 DEF DiscInv, Discovery
<1>10. CASE PollDisconnected
  BY <1>10 DEF PollDisconnected, DiscInv, sdVars, remoteVars
<1>u. ASSUME NEW c \in Chars, PollUnsubscribe(c)
      PROVE  DiscInv'
  BY <1>u DEF PollUnsubscribe, DiscInv, sdVars, remoteVars
<1>f. CASE PollForget
  <2>1. Len(evts') = Len(evts) - 1 /\ evts[1].ev = "disconnected" /\ 1 \in 1 .. Len(evts)
    BY <1>0, <1>f, Handled DEF PollForget
  <2>2. Len(evts') = 0 /\ proc = NoProc
    BY <1>0, <2>1 DEF LinkInv
  <2> QED
    BY <1>f, <2>2 DEF PollForget, DiscInv, NoProc, Discovery, sdVars
<1>11. CASE PollTxComplete \/ PollWriteCccd \/ PollWriteValue \/ PollResponse
  BY <1>11, DiscPolled DEF PollTxComplete, PollWriteCccd, PollWriteValue, PollResponse, polls
<1>12. CASE PollServices
  <2>1. evts[1].ev = "services" /\ 1 \in 1 .. Len(evts)
    BY <1>0, <1>12, Polled DEF PollServices
  <2>2. connected /\ discovery # "none"
    BY <2>1 DEF LinkInv, DiscInv, Discovery
  <2>3. /\ connected' = connected /\ discovery' # "none" /\ handles' = handles
        /\ ranges \subseteq ranges'
        /\ \/ _remoteServiceDiscoveryIndex' \in ranges'
           \/ _remoteServiceDiscoveryIndex' = _remoteServiceDiscoveryIndex
        /\ proc'.op = "characteristics" =>
               proc' = proc \/ _remoteServiceDiscoveryIndex' \in ranges'
    BY <1>12, <2>2 DEF PollServices, discover
  <2> QED
    BY <1>12, <2>2, <2>3, DiscStepOn DEF PollServices, DiscInv
<1>13. CASE PollCharacteristics
  <2>1. evts[1].ev = "characteristics" /\ 1 \in 1 .. Len(evts)
    BY <1>0, <1>13, Polled DEF PollCharacteristics
  <2>2. connected /\ discovery # "none" /\ _remoteServiceDiscoveryIndex \in ranges
    BY <2>1 DEF LinkInv, DiscInv, Discovery
  <2>3. /\ connected' = connected /\ discovery' # "none" /\ ranges' = ranges
        /\ handles' \subseteq handles \cup {_remoteServiceDiscoveryIndex}
        /\ _remoteServiceDiscoveryIndex' \in ranges
    BY <1>13, <2>2 DEF PollCharacteristics, nextServices
  <2>4. handles' \subseteq ranges
    BY <2>2, <2>3 DEF DiscInv
  <2> QED
    BY <1>13, <2>2, <2>3, <2>4, DiscStepOn DEF PollCharacteristics
<1>14. CASE Sketch
  BY <1>3, <1>14, SketchFrame, SketchAsks
<1>15. CASE UNCHANGED vars \/ SdConfirmed
  BY <1>3, <1>15 DEF SdConfirmed, vars, sdVars, libVars
<1> QED
  BY <1>1, <1>2, <1>4, <1>5, <1>6, <1>7, <1>8, <1>9, <1>10, <1>u, <1>f, <1>11, <1>12, <1>13,
     <1>14, <1>15 DEF Next, SoftDevice, SdAnswer, Poll

\* The handles found on one central are not known any more when the next one
\* connects, whatever answers of the discovery come and whenever the link ends.
THEOREM ForgetsPeerAlways == Spec => []ForgetsPeer
<1>1. DiscInv => ForgetsPeer
  BY DEF DiscInv, ForgetsPeer
<1> QED
  BY <1>1, InitLink, InitDisc, LinkStep, DiscStep, TypeCorrect, PTL DEF Spec

-------------------------------------------------------------------------------
(* The buffers. *)

\* A call has taken the buffer of the packet it is about to send.
pending == IF call.op = "send" /\ call.kind \in {"notify", "write_cmd"} THEN 1 ELSE 0

\* It has seen that there is one, and is about to take it.
taking ==
    \/ call.op = "take"
    \/ call.op = "mark" /\ call.kind \in {"write_req", "write_cmd"}

\* The buffers counted, with those that are used, are not more than there are,
\* unless an event was handled in the middle of a call; before CONNECTED none
\* is used, and behind DISCONNECTED its callbacks can only read and subscribe.
CreditInv ==
    ~raced =>
      /\ link /\ connected => _txBufferCount + queued + unreported + pending <= Capacity
      /\ taking => _txBufferCount > 0 /\ call.seen = _txBufferCount - 1
      /\ ~connected => /\ call.op \in {"mark", "take", "send"} =>
                             ending /\ call.op # "take" /\ call.kind \in {"read", "subscribe"}
                       /\ queued = 0 /\ unreported = 0

\* While DISCONNECTED is handled, there is no buffer, and only its callbacks make
\* calls, unless a call was preempted.
EndingInv ==
    ~raced /\ ending =>
        /\ ~connected /\ _txBufferCount = 0
        /\ call # Idle => call.from = "callback"

LEMMA CreditTypes ==
    ASSUME TypeOK
    PROVE  /\ queued \in Nat /\ queued <= Capacity /\ _txBufferCount \in 0 .. Byte - 1
           /\ unreported \in Int /\ Capacity \in Nat /\ Byte \in Nat \ {0} /\ Capacity < Byte
           /\ pending \in {0, 1}
  BY BleAssumption DEF TypeOK, Counts, pending

\* An event is handled while no call is made, or raced is set.
LEMMA PolledIdle ==
    ASSUME TypeOK, NEW ev, polls(ev), ~raced'
    PROVE  call = Idle /\ call' = Idle /\ pending = 0 /\ pending' = 0 /\ ~taking'
           /\ call'.op = "idle" /\ link' = link /\ ending' = ending
           /\ ~raced
<1>1. /\ raced' = (raced \/ call # Idle)
      /\ call' = call /\ link' = link /\ ending' = ending
  BY DEF polls
<1>2. call = Idle /\ ~raced
  BY <1>1
<1> QED
  BY <1>1, <1>2 DEF pending, taking, Idle

LEMMA CreditSoftDevice == TypeOK /\ LinkInv /\ CreditInv /\ SoftDevice /\ UNCHANGED setup => CreditInv'
<1> SUFFICES ASSUME TypeOK, LinkInv, CreditInv, SoftDevice PROVE CreditInv'
  OBVIOUS
<1>0. /\ queued \in Nat /\ _txBufferCount \in Nat /\ unreported \in Int /\ Capacity \in Nat
      /\ pending \in {0, 1}
  BY CreditTypes
<1>1. CASE SdConnect
  <2>1. ~connected /\ pending' = pending
    BY <1>1 DEF SdConnect, LinkInv, pending
  <2> QED
    BY <1>0, <1>1, <2>1 DEF SdConnect, CreditInv, taking, libVars, ghosts
<1>2. CASE SdDisconnect
  BY <1>0, <1>2 DEF SdDisconnect, CreditInv, taking, pending, libVars, ghosts
<1>3. CASE UNCHANGED <<link, connected, ending, _txBufferCount, queued, call, ghosts>>
  BY <1>0, <1>3 DEF CreditInv, taking, pending, ghosts
<1>4. CASE SdConfirmed \/ SdAnswer
  BY <1>3, <1>4 DEF SdConfirmed, SdAnswer, SdResponse, SdDiscovered, libVars
<1>5. ASSUME NEW n \in 1 .. queued, SdSent(n)
      PROVE  CreditInv'
  <2>1. /\ queued' = queued - n /\ unreported' = unreported + n /\ n \in Nat \ {0} /\ n <= queued
        /\ UNCHANGED <<link, connected, ending, _txBufferCount, call, raced>> /\ pending' = pending
        /\ taking' = taking
    BY <1>0, <1>5 DEF SdSent, libVars, pending, taking
  <2>2. CASE raced
    BY <2>1, <2>2 DEF CreditInv
  <2>3. CASE ~raced
    <3>1. connected
      BY <2>1, <2>3 DEF CreditInv
    <3>2. queued' + unreported' = queued + unreported
      BY <1>0, <2>1
    <3>3. link => _txBufferCount + queued + unreported + pending <= Capacity
      BY <2>3, <3>1 DEF CreditInv
    <3> QED
      BY <1>0, <2>1, <2>3, <3>1, <3>3 DEF CreditInv
  <2> QED
    BY <2>2, <2>3
<1>6. ASSUME NEW c \in setup.chars, SdWriteValue(c) \/ \E v \in Cccd : SdWriteCccd(c, v)
      PROVE  CreditInv'
  BY <1>3, <1>6 DEF SdWriteValue, SdWriteCccd, sdVars, libVars
<1> QED
  BY <1>1, <1>2, <1>4, <1>5, <1>6 DEF SoftDevice

LEMMA CreditPoll ==
    TypeOK /\ LinkInv /\ CreditInv /\ EndingInv /\ Poll /\ UNCHANGED setup => CreditInv'
<1> SUFFICES ASSUME TypeOK, LinkInv, CreditInv, EndingInv, Poll, UNCHANGED setup, ~raced'
             PROVE  CreditInv'
  BY DEF CreditInv
<1>0. /\ queued \in Nat /\ _txBufferCount \in Nat /\ unreported \in Int /\ Capacity \in Nat
      /\ Byte \in Nat \ {0} /\ Capacity < Byte
  BY CreditTypes
<1>1. ASSUME NEW ev, polls(ev), ev # "disconnected"
      PROVE  /\ call = Idle /\ pending = 0 /\ pending' = 0 /\ ~taking' /\ call'.op = "idle"
             /\ link' = link /\ ending' = ending /\ ~ending /\ ~raced
             /\ (ev # "tx_complete" => unreported' = unreported)
             /\ evts[1].ev = ev /\ Head(evts) = evts[1] /\ evts[1] \in Events
             /\ Len(evts) \in Nat \ {0}
  <2>1. /\ evts[1].ev = ev /\ Head(evts) = evts[1] /\ evts[1] \in Events
        /\ Len(evts) \in Nat \ {0}
    BY <1>1, Polled DEF TypeOK
  <2>2. ev # "tx_complete" => unreported' = unreported
    BY <1>1 DEF polls
  <2>3. ~ending
    BY <1>1, <2>1 DEF LinkInv
  <2> QED
    BY <1>1, <2>1, <2>2, <2>3, PolledIdle
<1>2. CASE PollTxComplete
  <2> DEFINE n == Head(evts).count
  <2>1. n \in Nat /\ connected /\ ~raced
    BY <1>0, <1>1, <1>2, EventFacts, LinkInv DEF PollTxComplete, LinkInv
  <2>2. unreported' = unreported - n
    BY <1>2 DEF PollTxComplete, polls
  <2>3. _txBufferCount' <= _txBufferCount + n /\ _txBufferCount' \in Nat
    <3>1. _txBufferCount + n \in Nat /\ _txBufferCount' = (_txBufferCount + n) % Byte
      BY <1>0, <1>2, <2>1 DEF PollTxComplete
    <3> HIDE DEF n
    <3> QED
      BY <1>0, <3>1
  <2> HIDE DEF n
  <2>4. link => _txBufferCount + queued + unreported <= Capacity
    <3>1. pending = 0
      BY <1>1, <1>2 DEF PollTxComplete
    <3> QED
      BY <1>0, <2>1, <3>1 DEF CreditInv
  <2>5. queued' = queued /\ connected' = connected
    BY <1>2 DEF PollTxComplete
  <2> QED
    BY <1>0, <1>1, <1>2, <2>1, <2>2, <2>3, <2>4, <2>5 DEF PollTxComplete, CreditInv
<1>3. CASE PollConnected
  <2>1. ~connected /\ ~raced
    BY <1>1, <1>3 DEF PollConnected, LinkInv
  <2>2. queued' = 0 /\ unreported' = 0 /\ connected'
    BY <1>1, <1>3, <2>1 DEF PollConnected, CreditInv
  <2>3. link => _txBufferCount' = Capacity
    BY <1>3 DEF PollConnected
  <2> QED
    BY <1>0, <1>1, <1>3, <2>2, <2>3 DEF PollConnected, CreditInv
<1>d. ASSUME handling("disconnected") PROVE ~link /\ queued = 0
  BY <1>d, Handled DEF LinkInv, TypeOK
<1>4. CASE PollDisconnected
  <2>1. call = Idle /\ call' = call
    BY <1>4 DEF PollDisconnected
  <2>2. unreported' = 0 /\ ~connected' /\ queued' = 0 /\ ~link'
    BY <1>4, <1>d DEF PollDisconnected, sdVars
  <2> QED
    BY <2>1, <2>2 DEF CreditInv, taking, Idle
<1>u. ASSUME NEW c \in Chars, PollUnsubscribe(c)
      PROVE  CreditInv'
  BY <1>u DEF PollUnsubscribe, CreditInv, taking, pending, sdVars, ghosts
<1>f. CASE PollForget
  <2>1. ending /\ ~raced /\ (call # Idle => call.from = "loop")
    BY <1>f DEF PollForget, handling, ghosts
  <2>2. call = Idle /\ ~connected
    BY <2>1 DEF EndingInv
  <2>3. call'.op = "idle" /\ ~link'
    BY <1>d, <1>f, <2>2 DEF PollForget, Idle, sdVars
  <2>4. queued' = 0 /\ unreported' = 0 /\ ~connected'
    BY <1>f, <2>1, <2>2 DEF PollForget, CreditInv, sdVars, ghosts
  <2> QED
    BY <2>3, <2>4 DEF CreditInv, taking
<1>5. CASE PollWriteValue
  <2>1. connected /\ ~raced /\ unreported' = unreported /\ connected' = connected
    BY <1>1, <1>5 DEF PollWriteValue, LinkInv
  <2>2. _txBufferCount' + queued' <= _txBufferCount + queued /\ _txBufferCount' \in Nat /\ queued' \in Nat
    BY <1>0, <1>5 DEF PollWriteValue
  <2>3. link => _txBufferCount + queued + unreported <= Capacity
    <3>1. pending = 0
      BY <1>1, <1>5 DEF PollWriteValue
    <3> QED
      BY <1>0, <2>1, <3>1 DEF CreditInv
  <2> QED
    BY <1>0, <1>1, <1>5, <2>1, <2>2, <2>3 DEF PollWriteValue, CreditInv
<1>6. CASE PollWriteCccd \/ PollServices \/ PollCharacteristics \/ PollResponse
  <2>1. /\ UNCHANGED <<connected, _txBufferCount, queued, unreported>> /\ ~raced
        /\ pending = 0 /\ pending' = 0 /\ ~taking' /\ call'.op = "idle" /\ link' = link
    BY <1>1, <1>6 DEF PollWriteCccd, PollServices, PollCharacteristics, PollResponse
  <2> QED
    BY <1>0, <2>1 DEF CreditInv
<1> QED
  BY <1>2, <1>3, <1>4, <1>u, <1>f, <1>5, <1>6 DEF Poll

LEMMA CreditSketch ==
    TypeOK /\ SubsInv /\ DiscInv /\ CreditInv /\ EndingInv /\ Sketch /\ UNCHANGED setup => CreditInv'
<1> SUFFICES ASSUME TypeOK, SubsInv, DiscInv, CreditInv, EndingInv, Sketch, UNCHANGED setup, ~raced'
             PROVE  CreditInv'
  BY DEF CreditInv
<1>0. /\ queued \in Nat /\ _txBufferCount \in 0 .. Byte - 1 /\ unreported \in Int /\ Capacity \in Nat
      /\ pending \in {0, 1} /\ Byte \in Nat \ {0} /\ Capacity < Byte
      /\ link' = link /\ connected' = connected /\ ending' = ending
      /\ unreported' = unreported /\ ~raced
      /\ call.op \in {"test", "returned"} => call \in hvxCalls
      /\ call.op = "mark" => call \in requestCalls
      /\ call.op \in {"take", "send"} => call \in hvxCalls \cup requestCalls
      /\ call.op \in {"take", "send"} /\ call.kind \in Kinds => call \in hvxCalls
      /\ call.op \in {"take", "send"} /\ call.kind \notin Kinds => call \in requestCalls
  BY CreditTypes, SketchFrame, CallFacts DEF ghosts, TypeOK
<1>1. ASSUME NEW from, NEW c \in setup.chars, SetValue(c, from)
      PROVE  CreditInv'
  <2>1. /\ call.op = "idle" /\ call'.op = "test" /\ UNCHANGED <<queued, _txBufferCount>>
    BY <1>1 DEF SetValue, begins, Idle, sdVars, libVars
  <2> QED
    BY <1>0, <2>1 DEF CreditInv, pending, taking
<1>2. ASSUME NEW from, NEW i, NEW operation, RequestTest(i, operation, from)
      PROVE  CreditInv'
  <2>1. call.op = "idle" /\ UNCHANGED <<queued, _txBufferCount>> /\ call'.op = "mark"
        /\ call'.kind = requestOf(i, operation)
    BY <1>2 DEF RequestTest, begins, Idle, sdVars, libVars
  <2>2. taking' => operation = "write"
    BY <1>2 DEF RequestTest, taking, requestOf
  <2>3. operation = "write" => _txBufferCount > 0 /\ call'.seen = _txBufferCount - 1
    BY <1>2 DEF RequestTest
  <2>4. ASSUME ~connected
        PROVE  ending /\ call'.kind \in {"read", "subscribe"}
    <3>1. ending
      BY <1>2, <2>4 DEF DiscInv, RequestTest
    <3>2. operation # "write"
      BY <1>0, <2>3, <3>1 DEF EndingInv
    <3> QED
      BY <1>2, <2>1, <3>1, <3>2 DEF RequestTest, requestOf
  <2> QED
    BY <1>0, <2>1, <2>2, <2>3, <2>4 DEF CreditInv, pending
<1>3. CASE HvxUnsubscribed \/ HvxNoBuffer \/ SetValueReturn
  <2>1. call.op \in {"test", "returned"} /\ UNCHANGED <<queued, _txBufferCount>>
    BY <1>3 DEF HvxUnsubscribed, HvxNoBuffer, SetValueReturn, at, sdVars, libVars
  <2>2. call \in hvxCalls /\ [call EXCEPT !.success = FALSE] \in hvxCalls
    BY <1>0, <2>1 DEF hvxCalls
  <2>3. \A c \in hvxCalls : hvxDone(c).op \in {"test", "returned"}
    BY DEF hvxDone, hvxCalls
  <2>4. call'.op \in {"test", "returned", "idle"}
    BY <1>3, <2>2, <2>3 DEF HvxUnsubscribed, HvxNoBuffer, SetValueReturn, Idle
  <2> QED
    BY <1>0, <2>1, <2>4 DEF CreditInv, pending, taking
<1>4. CASE HvxBuffer
  <2>1. /\ call.op = "test" /\ UNCHANGED <<queued, _txBufferCount>> /\ _txBufferCount > 0
        /\ call'.op = "take" /\ call'.seen = _txBufferCount - 1
    BY <1>0, <1>4 DEF HvxBuffer, at, hvxCalls, sdVars, libVars
  <2>2. connected
    BY <1>0, <1>4, <2>1 DEF HvxBuffer, SubsInv, EndingInv, hvxCalls
  <2> QED
    BY <1>0, <2>1, <2>2 DEF CreditInv, pending
<1>5. CASE TakeBuffer
  <2>1. call.op = "take" /\ queued' = queued /\ call'.op = "send" /\ call'.kind = call.kind
    BY <1>0, <1>5 DEF TakeBuffer, at, hvxCalls, requestCalls, sdVars
  <2>2. connected /\ _txBufferCount > 0 /\ call.seen = _txBufferCount - 1
    BY <1>0, <2>1 DEF CreditInv, taking
  <2>3. _txBufferCount' = _txBufferCount - 1
    <3>1. (_txBufferCount - 1) % Byte = _txBufferCount - 1
      BY <1>0, <2>2
    <3> QED
      BY <1>5, <2>2, <3>1 DEF TakeBuffer
  <2>4. link => _txBufferCount + queued + unreported <= Capacity
    BY <1>0, <2>1, <2>2 DEF CreditInv, pending
  <2>5. pending' \in {0, 1} /\ ~taking'
    BY <2>1 DEF pending, taking
  <2>6. link' => _txBufferCount' + queued' + unreported' + pending' <= Capacity
    <3>1. /\ _txBufferCount \in Int /\ queued \in Int /\ unreported \in Int /\ Capacity \in Int
          /\ queued' = queued /\ unreported' = unreported /\ link' = link
      BY <1>0, <2>1
    <3>2. PICK n \in {0, 1} : n = pending'
      BY <2>5
    <3>3. ASSUME link PROVE (_txBufferCount - 1) + queued + unreported + n <= Capacity
      <4>1. _txBufferCount + queued + unreported <= Capacity
        BY <2>4, <3>3
      <4>2. CASE n = 0
        BY <3>1, <4>1, <4>2
      <4>3. CASE n = 1
        BY <3>1, <4>1, <4>3
      <4> QED
        BY <3>2, <4>2, <4>3
    <3>4. ASSUME link' PROVE _txBufferCount' + queued' + unreported' + n <= Capacity
      <4>1. link
        BY <3>1, <3>4
      <4> QED
        BY <2>3, <3>1, <3>3, <4>1
    <3> QED
      BY <3>2, <3>4
  <2> QED
    BY <1>0, <2>2, <2>5, <2>6 DEF CreditInv
<1>6. CASE HvxSend
  <2>1. /\ call.op = "send" /\ _txBufferCount' = _txBufferCount
        /\ call'.op \in {"test", "returned"} /\ call \in hvxCalls
    BY <1>0, <1>6 DEF HvxSend, at, hvxDone, hvxCalls, libVars
  <2>2. queued' \in Nat /\ queued' <= queued + pending
    BY <1>0, <1>6, <2>1 DEF HvxSend, pending
  <2>3. connected
    BY <1>0, <1>6, <2>1 DEF CreditInv, HvxSend, Kinds
  <2>4. pending' = 0 /\ ~taking'
    BY <2>1 DEF pending, taking
  <2>5. link => _txBufferCount + queued + unreported + pending <= Capacity
    BY <1>0, <2>3 DEF CreditInv
  <2>6. /\ _txBufferCount' = _txBufferCount /\ unreported' = unreported /\ link' = link
        /\ queued \in Int /\ _txBufferCount \in Int /\ unreported \in Int /\ Capacity \in Int
        /\ pending \in Int
    BY <1>0, <2>1
  <2>7. link => _txBufferCount + queued' + unreported + pending' <= Capacity
    <3>1. PICK n \in Nat : n = queued'
      BY <2>2
    <3>2. n <= queued + pending
      BY <2>2, <3>1
    <3>3. link => _txBufferCount + n + unreported + 0 <= Capacity
      BY <2>5, <2>6, <3>2
    <3> QED
      BY <2>4, <3>1, <3>3
  <2> QED
    BY <1>0, <2>3, <2>4, <2>6, <2>7 DEF CreditInv
<1>7. CASE RequestMark
  <2>1. /\ call.op = "mark" /\ UNCHANGED <<queued, _txBufferCount>>
        /\ call'.kind = call.kind /\ call'.seen = call.seen
        /\ call'.op = IF call.kind \in {"write_req", "write_cmd"} THEN "take" ELSE "send"
    BY <1>0, <1>7 DEF RequestMark, at, requestCalls, sdVars
  <2>2. ~connected => ending' /\ call'.op = "send" /\ call'.kind \in {"read", "subscribe"}
    BY <1>0, <2>1 DEF CreditInv
  <2>3. taking' => taking
    BY <2>1 DEF taking
  <2>4. pending' = 0
    <3>1. call.kind \notin Kinds
      BY <1>0, <2>1 DEF requestCalls, Kinds
    <3> QED
      BY <2>1, <3>1 DEF pending, Kinds
  <2>5. pending = 0
    BY <2>1 DEF pending
  <2> QED
    BY <1>0, <2>1, <2>2, <2>3, <2>4, <2>5 DEF CreditInv
<1>8. CASE RequestSend
  <2>1. call.op = "send" /\ _txBufferCount' = _txBufferCount /\ call'.op = "idle"
    BY <1>8 DEF RequestSend, at, Idle, libVars
  <2>2. queued' \in Nat /\ queued' <= queued + pending
    BY <1>0, <1>8, <2>1 DEF RequestSend, pending
  <2>3. ~connected => queued' = 0
    BY <1>0, <1>8, <2>1 DEF CreditInv, RequestSend
  <2>4. pending' = 0 /\ ~taking'
    BY <2>1 DEF pending, taking
  <2>5. link /\ connected => _txBufferCount + queued + unreported + pending <= Capacity
    BY <1>0 DEF CreditInv
  <2>6. /\ _txBufferCount' = _txBufferCount /\ unreported' = unreported /\ link' = link
        /\ queued \in Int /\ _txBufferCount \in Int /\ unreported \in Int /\ Capacity \in Int
        /\ pending \in Int
    BY <1>0, <2>1
  <2>7. link /\ connected => _txBufferCount + queued' + unreported + pending' <= Capacity
    <3>1. PICK n \in Nat : n = queued'
      BY <2>2
    <3>2. n <= queued + pending
      BY <2>2, <3>1
    <3>3. link /\ connected => _txBufferCount + n + unreported + 0 <= Capacity
      BY <2>5, <2>6, <3>2
    <3> QED
      BY <2>4, <3>1, <3>3
  <2> QED
    BY <1>0, <2>1, <2>3, <2>4, <2>6, <2>7 DEF CreditInv
<1> QED
  BY <1>1, <1>2, <1>3, <1>4, <1>5, <1>6, <1>7, <1>8 DEF Sketch, callStep

LEMMA EndingStep == TypeOK /\ LinkInv /\ CreditInv /\ EndingInv /\ [Next]_vars => EndingInv'
<1> SUFFICES ASSUME TypeOK, LinkInv, CreditInv, EndingInv, [Next]_vars, ~raced', ending'
             PROVE  /\ ~connected' /\ _txBufferCount' = 0
                    /\ call' # Idle => call'.from = "callback"
  BY DEF EndingInv
<1>1. CASE UNCHANGED <<connected, _txBufferCount, ending, call, raced>>
  BY <1>1 DEF EndingInv
<1>2. CASE SoftDevice
  BY <1>1, <1>2 DEF SoftDevice, SdConnect, SdDisconnect, SdConfirmed, SdAnswer, SdResponse,
     SdDiscovered, SdSent, SdWriteValue, SdWriteCccd, libVars, ghosts
<1>3. ASSUME NEW ev, polls(ev), ev # "disconnected"
      PROVE  FALSE
  <2>1. evts[1].ev = ev /\ ending
    BY <1>3, Polled, PolledIdle DEF TypeOK
  <2> QED
    BY <1>3, <2>1 DEF LinkInv
<1>4. CASE PollDisconnected
  BY <1>4 DEF PollDisconnected
<1>5. ASSUME NEW c \in Chars, PollUnsubscribe(c)
      PROVE  UNCHANGED <<connected, _txBufferCount, ending, call, raced>>
  BY <1>5 DEF PollUnsubscribe, ghosts
<1>6. CASE PollForget
  BY <1>6 DEF PollForget
<1>7. CASE Poll
  BY <1>1, <1>3, <1>4, <1>5, <1>6, <1>7 DEF Poll, PollTxComplete, PollConnected, PollWriteCccd,
     PollWriteValue, PollServices, PollCharacteristics, PollResponse
<1>8. CASE Sketch
  <2>0. ending' = ending /\ raced' = raced /\ connected' = connected
    BY <1>8, SketchFrame DEF ghosts
  <2>1. ending /\ ~raced /\ connected' = connected /\ evts # <<>>
    <3>1. ending /\ ~raced
      BY <2>0
    <3>2. Len(evts) > 0
      BY <3>1 DEF LinkInv
    <3> QED
      BY <2>0, <3>1, <3>2
  <2>2. ~connected /\ _txBufferCount = 0 /\ (call # Idle => call.from = "callback")
    BY <2>1 DEF EndingInv
  <2>3. call.op # "take"
    BY <2>1, <2>2 DEF CreditInv
  <2>4. _txBufferCount' = 0
    BY <1>8, <2>2, <2>3 DEF Sketch, callStep, SetValue, RequestTest, HvxUnsubscribed, HvxNoBuffer,
       HvxBuffer, TakeBuffer, HvxSend, SetValueReturn, RequestMark, RequestSend, at, libVars
  <2>5. call' # Idle => call'.from = "callback"
    <3>1. ASSUME NEW from \in {"loop", "callback"}, begins(from) PROVE from = "callback"
      BY <2>1, <3>1 DEF begins, sketchRuns
    <3>2. ASSUME NEW from \in {"loop", "callback"}, NEW c, SetValue(c, from)
          PROVE  call'.from = "callback"
      BY <3>1, <3>2 DEF SetValue
    <3>3. ASSUME NEW from \in {"loop", "callback"}, NEW i, NEW operation, RequestTest(i, operation, from)
          PROVE  call'.from = "callback"
      BY <3>1, <3>3 DEF RequestTest
    <3>4. CASE SetValueReturn \/ RequestSend
      BY <3>4 DEF SetValueReturn, RequestSend
    <3>5. CASE HvxUnsubscribed \/ HvxNoBuffer \/ HvxBuffer \/ HvxSend
      <4>1. call \in hvxCalls
        BY <3>5, CallFacts DEF HvxUnsubscribed, HvxNoBuffer, HvxBuffer, HvxSend, at, TypeOK
      <4>2. \A c \in hvxCalls : hvxDone(c).from = c.from
        BY DEF hvxDone, hvxCalls
      <4>3. /\ [call EXCEPT !.success = FALSE] \in hvxCalls
            /\ [call EXCEPT !.refused = @ \cup {hvxError(call.kind)}] \in hvxCalls
            /\ [call EXCEPT !.success = FALSE].from = call.from
            /\ [call EXCEPT !.refused = @ \cup {hvxError(call.kind)}].from = call.from
        BY <4>1 DEF hvxCalls, hvxError, HvxErrors
      <4>4. call'.from = call.from
        BY <3>5, <4>1, <4>2, <4>3 DEF HvxUnsubscribed, HvxNoBuffer, HvxBuffer, HvxSend, hvxCalls
      <4>5. call # Idle
        BY <4>1 DEF hvxCalls, Idle
      <4> QED
        BY <2>2, <4>4, <4>5
    <3>6. CASE RequestMark
      <4>1. call \in requestCalls
        BY <3>6, CallFacts DEF RequestMark, at, TypeOK
      <4> QED
        BY <2>2, <3>6, <4>1 DEF RequestMark, requestCalls, Idle
    <3>7. CASE TakeBuffer
      BY <2>3, <3>7 DEF TakeBuffer, at
    <3> QED
      BY <1>8, <3>2, <3>3, <3>4, <3>5, <3>6, <3>7 DEF Sketch, callStep
  <2> QED
    BY <2>1, <2>2, <2>4, <2>5
<1>9. CASE UNCHANGED vars
  BY <1>1, <1>9 DEF vars, libVars, ghosts
<1> QED
  BY <1>2, <1>7, <1>8, <1>9 DEF Next

LEMMA CreditStep ==
    TypeOK /\ LinkInv /\ SubsInv /\ DiscInv /\ CreditInv /\ EndingInv /\ [Next]_vars => CreditInv'
<1>1. CreditInv /\ UNCHANGED vars => CreditInv'
  BY DEF CreditInv, taking, pending, vars, sdVars, libVars, ghosts
<1> QED
  BY <1>1, CreditSoftDevice, CreditPoll, CreditSketch DEF Next

LEMMA InitCredit == Init => CreditInv /\ EndingInv
<1> SUFFICES ASSUME Init PROVE CreditInv /\ EndingInv
  OBVIOUS
<1>1. ~link /\ ~connected
  BY DEF Init
<1> QED
  BY <1>1 DEF Init, CreditInv, EndingInv, taking, Idle

\* The count never promises a buffer the SoftDevice does not have, however many
\* there are and whatever is written, sent and reported, as long as no event is
\* handled in the middle of a call.
THEOREM NotOverdrawnAlways == Spec => []NotOverdrawn
<1>1. TypeOK /\ CreditInv => NotOverdrawn
  BY CreditTypes DEF CreditInv, NotOverdrawn
<1> QED
  BY <1>1, InitLink, InitSubs, InitDisc, InitCredit, LinkStep, SubsStep, DiscStep, CreditStep,
     EndingStep, TypeCorrect, PTL DEF Spec

-------------------------------------------------------------------------------
(* The requests. *)

\* A discovery is in one place, asked for or answered, until it is reported.
OnceInv ==
    /\ discovery = "discovered" => proc.op \notin Discovery
    /\ \A k \in 1 .. Len(evts) : evts[k].ev \in Discovery =>
         /\ discovery # "discovered" /\ proc.op \notin Discovery
         /\ \A j \in 1 .. Len(evts) : evts[j].ev \in Discovery => j = k

LEMMA OnceRaised ==
    ASSUME TypeOK, OnceInv, NEW e \in Events, raise(e), UNCHANGED libVars, proc' \in {proc, NoProc},
           e.ev \notin Discovery
    PROVE  OnceInv'
<1>1. /\ Len(evts) \in Nat /\ Len(evts') = Len(evts) + 1
      /\ \A k \in 1 .. Len(evts) : evts'[k] = evts[k]
      /\ evts'[Len(evts) + 1] = e
  BY Raised DEF TypeOK, raise
<1> QED
  BY <1>1 DEF OnceInv, libVars, remoteVars, NoProc, Discovery

LEMMA OncePolled ==
    ASSUME TypeOK, OnceInv, NEW ev, polls(ev),
           \/ UNCHANGED <<discovery, proc>>
           \/ /\ \A k \in 2 .. Len(evts) : evts[k].ev \notin Discovery
              /\ discovery' = "discovered" => proc'.op \notin Discovery
    PROVE  OnceInv'
<1>1. /\ Len(evts) \in Nat \ {0} /\ Len(evts') = Len(evts) - 1
      /\ \A k \in 1 .. Len(evts') : evts'[k] = evts[k + 1]
  BY Polled DEF TypeOK, polls
<1>2. CASE UNCHANGED <<discovery, proc>>
  <2>1. ASSUME NEW k \in 1 .. Len(evts'), evts'[k].ev \in Discovery
        PROVE  /\ discovery # "discovered" /\ proc.op \notin Discovery
               /\ \A j \in 1 .. Len(evts') : evts'[j].ev \in Discovery => j = k
    <3>1. k + 1 \in 1 .. Len(evts) /\ evts[k + 1].ev \in Discovery
      BY <1>1, <2>1
    <3>2. /\ discovery # "discovered" /\ proc.op \notin Discovery
          /\ \A j \in 1 .. Len(evts) : evts[j].ev \in Discovery => j = k + 1
      BY <3>1 DEF OnceInv
    <3>3. ASSUME NEW j \in 1 .. Len(evts'), evts'[j].ev \in Discovery PROVE j = k
      <4>1. j + 1 \in 1 .. Len(evts) /\ evts[j + 1].ev \in Discovery
        BY <1>1, <3>3
      <4> QED
        BY <1>1, <3>2, <4>1
    <3> QED
      BY <3>2, <3>3
  <2> QED
    BY <1>2, <2>1 DEF OnceInv
<1>3. CASE /\ \A k \in 2 .. Len(evts) : evts[k].ev \notin Discovery
           /\ discovery' = "discovered" => proc'.op \notin Discovery
  BY <1>1, <1>3 DEF OnceInv
<1> QED
  BY <1>2, <1>3

LEMMA OnceStep == TypeOK /\ LinkInv /\ DiscInv /\ OnceInv /\ [Next]_vars => OnceInv'
<1> SUFFICES ASSUME TypeOK, LinkInv, DiscInv, OnceInv, [Next]_vars PROVE OnceInv'
  OBVIOUS
<1>0. Len(evts) \in Nat /\ evts \in Seq(Events)
  BY DEF TypeOK
<1>1. CASE SdConnect
  <2>1. [ev |-> "connected"] \in Events
    BY DEF Events
  <2> QED
    BY <1>1, <2>1, OnceRaised DEF SdConnect, Discovery
<1>2. CASE SdDisconnect
  <2>1. [ev |-> "disconnected"] \in Events
    BY DEF Events
  <2> QED
    BY <1>2, <2>1, OnceRaised DEF SdDisconnect, Discovery
<1>3. CASE UNCHANGED <<evts, discovery>> /\ proc' \in {proc, [op |-> "request"]}
  BY <1>3 DEF OnceInv, Discovery
<1>4. ASSUME NEW status, NEW found, SdDiscovered(status, found), status \in {"success", "end", "error"},
             found \in SUBSET setup.services
      PROVE  OnceInv'
  <2> DEFINE e == [ev |-> proc.op, status |-> status, found |-> found, left |-> proc.left - 1]
  <2>1. e \in Events /\ e.ev = proc.op /\ raise(e) /\ proc.op \in Discovery
    BY <1>4, DiscoveredEvent DEF SdDiscovered, Discovery
  <2> HIDE DEF e
  <2>2. /\ Len(evts') = Len(evts) + 1
        /\ \A k \in 1 .. Len(evts) : evts'[k] = evts[k]
        /\ evts'[Len(evts) + 1] = e
    BY <1>0, <2>1, Raised DEF raise
  <2>3. /\ discovery' = discovery /\ proc' = NoProc /\ discovery # "discovered"
        /\ \A k \in 1 .. Len(evts) : evts[k].ev \notin Discovery
    BY <1>4, <2>1 DEF SdDiscovered, libVars, remoteVars, OnceInv
  <2> QED
    BY <1>0, <2>2, <2>3 DEF OnceInv, NoProc, Discovery
<1>5. CASE SdResponse
  <2>1. [ev |-> "response"] \in Events
    BY DEF Events
  <2> QED
    BY <1>5, <2>1, OnceRaised DEF SdResponse, Discovery
<1>6. ASSUME NEW n \in 1 .. queued, SdSent(n)
      PROVE  OnceInv'
  <2>1. n \in 1 .. Capacity
    BY <1>6, BleAssumption DEF TypeOK
  <2>2. [ev |-> "tx_complete", count |-> n] \in Events
    BY <2>1 DEF Events
  <2> QED
    BY <1>6, <2>2, OnceRaised DEF SdSent, Discovery
<1>7. ASSUME NEW c \in setup.chars, SdWriteValue(c)
      PROVE  OnceInv'
  <2>1. [ev |-> "write_value", char |-> c] \in Events
    BY SetupFacts DEF TypeOK, Events
  <2> QED
    BY <1>7, <2>1, OnceRaised DEF SdWriteValue, sdVars, Discovery
<1>8. ASSUME NEW c \in setup.chars, NEW v \in Cccd, SdWriteCccd(c, v)
      PROVE  OnceInv'
  <2>1. [ev |-> "write_cccd", char |-> c, value |-> v] \in Events
    BY SetupFacts DEF TypeOK, Events
  <2> QED
    BY <1>8, <2>1, OnceRaised DEF SdWriteCccd, Discovery
<1>9. CASE PollConnected
  <2>1. evts[1].ev = "connected" /\ 1 \in 1 .. Len(evts)
    BY <1>0, <1>9, Polled DEF PollConnected
  <2>2. /\ proc.op \notin Discovery /\ discovery = "none"
        /\ \A k \in 1 .. Len(evts) : evts[k].ev \notin Discovery
    BY <2>1 DEF LinkInv, DiscInv
  <2>3. discovery' # "discovered"
    BY <1>9, <2>2 DEF PollConnected
  <2> QED
    BY <1>0, <1>9, <2>2, <2>3, OncePolled DEF PollConnected
<1>10. CASE PollDisconnected \/ \E c \in Chars : PollUnsubscribe(c)
  BY <1>3, <1>10 DEF PollDisconnected, PollUnsubscribe, sdVars, remoteVars
<1>f. CASE PollForget
  <2>1. Len(evts') = Len(evts) - 1 /\ evts[1].ev = "disconnected" /\ 1 \in 1 .. Len(evts)
    BY <1>0, <1>f, Handled DEF PollForget
  <2>2. Len(evts) = 1
    BY <1>0, <2>1 DEF LinkInv
  <2>3. Len(evts') = 0 /\ discovery' = "none"
    BY <1>f, <2>1, <2>2 DEF PollForget
  <2> QED
    BY <2>3 DEF OnceInv
<1>11. CASE PollTxComplete \/ PollWriteCccd \/ PollWriteValue \/ PollResponse
  BY <1>11, OncePolled
     DEF PollTxComplete, PollWriteCccd, PollWriteValue, PollResponse, remoteVars
<1>12. CASE PollServices \/ PollCharacteristics
  <2>1. evts[1].ev \in Discovery /\ 1 \in 1 .. Len(evts)
    BY <1>0, <1>12, Polled DEF PollServices, PollCharacteristics, Discovery
  <2>2. /\ proc.op \notin Discovery /\ discovery # "discovered"
        /\ \A k \in 2 .. Len(evts) : evts[k].ev \notin Discovery
    BY <1>0, <2>1 DEF OnceInv
  <2>3. discovery' = "discovered" => proc' = proc
    BY <1>12, <2>2 DEF PollServices, PollCharacteristics
  <2> QED
    BY <1>12, <2>2, <2>3, OncePolled DEF PollServices, PollCharacteristics
<1>13. CASE Sketch
  BY <1>3, <1>13, SketchFrame, SketchAsks DEF remoteVars
<1>14. CASE UNCHANGED vars \/ SdConfirmed
  BY <1>3, <1>14 DEF SdConfirmed, vars, sdVars, libVars, remoteVars
<1> QED
  BY <1>1, <1>2, <1>4, <1>5, <1>6, <1>7, <1>8, <1>9, <1>10, <1>f, <1>11, <1>12, <1>13, <1>14
     DEF Next, SoftDevice, SdAnswer, Poll

Requests    == {"read", "write_req", "write_cmd", "subscribe"}
requesting  == call.op \in {"mark", "take", "send"} /\ call.kind \in Requests
\* The characteristics of service i answer a write.
answered(i) == setup.props[i] \cap {"write", "write_wo_resp"} # {"write_wo_resp"}
\* Something is to come that clears the flag.
awaited ==
    \/ proc = [op |-> "request"]
    \/ \E k \in 1 .. Len(evts) : evts[k].ev \in {"response", "disconnected"}

\* A request is made on a link whose discovery is over, and until it is, or
\* after it, a flag that is set will be cleared.
RequestInv ==
    /\ ~raced /\ requesting => discovery = "discovered" /\ (connected \/ ending)
    /\ requesting => /\ call.on \in setup.services
                     /\ call.kind = "write_cmd" => ~answered(call.on)
    /\ /\ \A i \in setup.services : answered(i)
       /\ _remoteRequestInProgress /\ ~raced /\ ~(requesting /\ call.op # "mark")
       => awaited

LEMMA RequestRaised ==
    ASSUME TypeOK, RequestInv, NEW e \in Events, raise(e), UNCHANGED <<setup, libVars, call, raced>>,
           proc' = proc \/ proc # [op |-> "request"] \/ e.ev \in {"response", "disconnected"}
    PROVE  RequestInv'
<1>1. /\ Len(evts) \in Nat /\ Len(evts') = Len(evts) + 1
      /\ \A k \in 1 .. Len(evts) : evts'[k] = evts[k]
      /\ evts'[Len(evts) + 1] = e
  BY Raised DEF TypeOK, raise
<1>2. awaited => awaited'
  <2>1. CASE proc = [op |-> "request"] /\ proc' = proc
    BY <2>1 DEF awaited
  <2>2. CASE proc = [op |-> "request"] /\ proc' # proc
    <3>1. Len(evts) + 1 \in 1 .. Len(evts') /\ evts'[Len(evts) + 1].ev \in {"response", "disconnected"}
      BY <1>1, <2>2
    <3> QED
      BY <3>1 DEF awaited
  <2>3. ASSUME NEW k \in 1 .. Len(evts), evts[k].ev \in {"response", "disconnected"}
        PROVE  awaited'
    <3>1. k \in 1 .. Len(evts') /\ evts'[k].ev \in {"response", "disconnected"}
      BY <1>1, <2>3
    <3> QED
      BY <3>1 DEF awaited
  <2> QED
    BY <2>1, <2>2, <2>3 DEF awaited
<1> QED
  BY <1>2 DEF RequestInv, requesting, answered, libVars, remoteVars

LEMMA RequestPolled ==
    ASSUME TypeOK, RequestInv, NEW ev, polls(ev), UNCHANGED setup,
           proc = [op |-> "request"] => proc' = proc,
           ev # "disconnected",
           IF ev = "response" THEN ~_remoteRequestInProgress' ELSE UNCHANGED _remoteRequestInProgress
    PROVE  RequestInv'
<1>1. /\ Len(evts) \in Nat \ {0} /\ Len(evts') = Len(evts) - 1
      /\ \A k \in 1 .. Len(evts') : evts'[k] = evts[k + 1]
      /\ evts[1].ev = ev /\ call' = call
  BY Polled DEF TypeOK, polls
<1>2. ev \notin {"response", "disconnected"} /\ awaited => awaited'
  <2>1. ASSUME NEW k \in 1 .. Len(evts), evts[k].ev \in {"response", "disconnected"},
               ev \notin {"response", "disconnected"}
        PROVE  awaited'
    <3>1. k - 1 \in 1 .. Len(evts') /\ evts'[k - 1].ev \in {"response", "disconnected"}
      BY <1>1, <2>1
    <3> QED
      BY <3>1 DEF awaited
  <2> QED
    BY <2>1 DEF awaited
<1>3. requesting' <=> requesting
  BY <1>1 DEF requesting
<1>4. CASE raced'
  BY <1>1, <1>3, <1>4 DEF RequestInv, answered
<1>5. CASE ~raced'
  <2>1. call.op = "idle" /\ ~raced
    BY <1>1, <1>5, PolledIdle
  <2> QED
    BY <1>1, <1>2, <1>3, <1>5, <2>1 DEF RequestInv, answered, requesting
<1> QED
  BY <1>4, <1>5

LEMMA RequestSoftDevice == TypeOK /\ RequestInv /\ SoftDevice /\ UNCHANGED setup => RequestInv'
<1> SUFFICES ASSUME TypeOK, RequestInv, SoftDevice, UNCHANGED setup PROVE RequestInv'
  OBVIOUS
<1>1. CASE SdConnect
  <2>1. [ev |-> "connected"] \in Events
    BY DEF Events
  <2> QED
    BY <1>1, <2>1, RequestRaised DEF SdConnect, ghosts
<1>2. CASE SdDisconnect
  <2>1. [ev |-> "disconnected"] \in Events
    BY DEF Events
  <2> QED
    BY <1>2, <2>1, RequestRaised DEF SdDisconnect, ghosts
<1>3. CASE SdConfirmed
  BY <1>3 DEF SdConfirmed, RequestInv, requesting, answered, awaited, libVars, remoteVars, ghosts
<1>4. ASSUME NEW status, NEW found, SdDiscovered(status, found), status \in {"success", "end", "error"},
             found \in SUBSET setup.services
      PROVE  RequestInv'
  <2> DEFINE e == [ev |-> proc.op, status |-> status, found |-> found, left |-> proc.left - 1]
  <2>1. e \in Events /\ raise(e) /\ proc # [op |-> "request"]
    BY <1>4, DiscoveredEvent DEF SdDiscovered
  <2> HIDE DEF e
  <2> QED
    BY <1>4, <2>1, RequestRaised DEF SdDiscovered, ghosts
<1>5. CASE SdResponse
  <2>1. [ev |-> "response"] \in Events
    BY DEF Events
  <2> QED
    BY <1>5, <2>1, RequestRaised DEF SdResponse, ghosts
<1>6. ASSUME NEW n \in 1 .. queued, SdSent(n)
      PROVE  RequestInv'
  <2>1. n \in 1 .. Capacity
    BY <1>6, BleAssumption DEF TypeOK
  <2>2. [ev |-> "tx_complete", count |-> n] \in Events
    BY <2>1 DEF Events
  <2> QED
    BY <1>6, <2>2, RequestRaised DEF SdSent
<1>7. ASSUME NEW c \in setup.chars, SdWriteValue(c)
      PROVE  RequestInv'
  <2>1. [ev |-> "write_value", char |-> c] \in Events
    BY SetupFacts DEF TypeOK, Events
  <2> QED
    BY <1>7, <2>1, RequestRaised DEF SdWriteValue, sdVars, ghosts
<1>8. ASSUME NEW c \in setup.chars, NEW v \in Cccd, SdWriteCccd(c, v)
      PROVE  RequestInv'
  <2>1. [ev |-> "write_cccd", char |-> c, value |-> v] \in Events
    BY SetupFacts DEF TypeOK, Events
  <2> QED
    BY <1>8, <2>1, RequestRaised DEF SdWriteCccd, ghosts
<1> QED
  BY <1>1, <1>2, <1>3, <1>4, <1>5, <1>6, <1>7, <1>8 DEF SoftDevice, SdAnswer

LEMMA RequestPoll ==
    TypeOK /\ LinkInv /\ EndingInv /\ RequestInv /\ Poll /\ UNCHANGED setup => RequestInv'
<1> SUFFICES ASSUME TypeOK, LinkInv, EndingInv, RequestInv, Poll, UNCHANGED setup
             PROVE  RequestInv'
  OBVIOUS
<1>1. CASE PollTxComplete \/ PollConnected \/ PollWriteCccd \/ PollWriteValue \/ PollServices
           \/ PollCharacteristics \/ PollResponse
  <2>1. proc = [op |-> "request"] => proc' = proc
    BY <1>1 DEF PollTxComplete, PollConnected, PollWriteCccd, PollWriteValue, PollServices,
       PollCharacteristics, PollResponse, discover, NoProc
  <2> QED
    BY <1>1, <2>1, RequestPolled
       DEF PollTxComplete, PollConnected, PollWriteCccd, PollWriteValue, PollServices,
           PollCharacteristics, PollResponse
<1>2. ASSUME UNCHANGED evts, handling("disconnected")
      PROVE  awaited'
  <2>1. 1 \in 1 .. Len(evts) /\ evts[1].ev = "disconnected"
    BY <1>2, Handled DEF TypeOK
  <2>2. \E k \in 1 .. Len(evts) : evts[k].ev = "disconnected"
    BY <2>1
  <2> QED
    BY <1>2, <2>2 DEF awaited
<1>3. CASE PollDisconnected
  <2>1. /\ awaited' /\ call' = call /\ ending'
        /\ UNCHANGED discovery /\ (~raced' => call = Idle)
    BY <1>2, <1>3 DEF PollDisconnected, requesting, remoteVars
  <2>2. requesting' => requesting /\ call # Idle
    BY <2>1 DEF requesting, Idle
  <2>3. \A i : answered(i)' <=> answered(i)
    BY DEF answered
  <2> QED
    BY <2>1, <2>2, <2>3 DEF RequestInv
<1>4. ASSUME NEW c \in Chars, PollUnsubscribe(c)
      PROVE  RequestInv'
  BY <1>4 DEF PollUnsubscribe, RequestInv, requesting, answered, awaited, sdVars, remoteVars, ghosts
<1>5. CASE PollForget
  <2>1. /\ ending /\ (call # Idle => call.from = "loop")
        /\ UNCHANGED <<call, raced>> /\ ~_remoteRequestInProgress'
    BY <1>5 DEF PollForget, handling, ghosts
  <2>2. ~raced => call = Idle
    BY <2>1 DEF EndingInv
  <2>3. requesting' => requesting /\ call # Idle
    BY <2>1 DEF requesting, Idle
  <2>4. \A i : answered(i)' <=> answered(i)
    BY DEF answered
  <2> QED
    BY <2>1, <2>2, <2>3, <2>4 DEF RequestInv
<1> QED
  BY <1>1, <1>3, <1>4, <1>5 DEF Poll

LEMMA RequestSketch ==
    ASSUME Patient
    PROVE  TypeOK /\ LinkInv /\ DiscInv /\ OnceInv /\ RequestInv /\ Sketch /\ UNCHANGED setup
             => RequestInv'
<1> SUFFICES ASSUME TypeOK, LinkInv, DiscInv, OnceInv, RequestInv, Sketch, UNCHANGED setup
             PROVE  RequestInv'
  OBVIOUS
<1>0. /\ UNCHANGED <<link, connected, ending, discovery, raced, evts>>
      /\ call.op = "mark" => call \in requestCalls
      /\ call.op \in {"take", "send"} => call \in hvxCalls \cup requestCalls
      /\ call.op \in {"take", "send"} /\ call.kind \in Kinds => call \in hvxCalls
      /\ call.op \in {"take", "send"} /\ call.kind \notin Kinds => call \in requestCalls
  BY SketchFrame, CallFacts DEF ghosts, TypeOK, remoteVars
<1>1. \A i : answered(i)' <=> answered(i)
  BY DEF answered
<1>2. ASSUME ~requesting', ~requesting, UNCHANGED <<proc, _remoteRequestInProgress>>
      PROVE  RequestInv'
  BY <1>0, <1>1, <1>2 DEF RequestInv, awaited
<1>3. ASSUME NEW from, NEW c \in setup.chars, SetValue(c, from)
      PROVE  RequestInv'
  BY <1>2, <1>3 DEF SetValue, begins, Idle, requesting, Requests, sdVars, libVars
<1>4. ASSUME NEW from, NEW i \in setup.services, NEW operation, RequestTest(i, operation, from)
      PROVE  RequestInv'
  <2>1. discovery = "discovered" /\ (connected \/ ending) /\ ~requesting
    BY <1>4 DEF RequestTest, DiscInv, begins, Idle, requesting
  <2>2. call'.op = "mark" /\ call'.on = i /\ call'.kind = requestOf(i, operation)
    BY <1>4 DEF RequestTest
  <2>3. requestOf(i, operation) = "write_cmd" => ~answered(i)
    BY DEF requestOf, answered
  <2>4. UNCHANGED <<proc, _remoteRequestInProgress>>
    BY <1>4 DEF RequestTest, sdVars, libVars
  <2>5. ~answered(i)' <=> ~answered(i)
    BY <1>1
  <2> QED
    BY <1>0, <1>1, <2>1, <2>2, <2>3, <2>4, <2>5 DEF RequestInv, awaited, requesting, answered
<1>5. CASE HvxUnsubscribed \/ HvxNoBuffer \/ SetValueReturn
  <2>1. call.op \in {"test", "returned"} /\ UNCHANGED <<proc, _remoteRequestInProgress>>
    BY <1>5 DEF HvxUnsubscribed, HvxNoBuffer, SetValueReturn, at, sdVars, libVars
  <2>2. call \in hvxCalls /\ [call EXCEPT !.success = FALSE] \in hvxCalls
    BY <2>1, CallFacts DEF hvxCalls, TypeOK
  <2>3. \A c \in hvxCalls : hvxDone(c).op \in {"test", "returned"}
    BY DEF hvxDone, hvxCalls
  <2>4. call'.op \in {"test", "returned", "idle"}
    BY <1>5, <2>2, <2>3 DEF HvxUnsubscribed, HvxNoBuffer, SetValueReturn, Idle
  <2> QED
    BY <1>2, <2>1, <2>4 DEF requesting
<1>6. CASE HvxBuffer
  <2>1. call \in hvxCalls
    BY <1>6, CallFacts DEF HvxBuffer, at, TypeOK
  <2>2. ~requesting /\ ~requesting'
    BY <1>6, <2>1 DEF HvxBuffer, at, hvxCalls, requesting, Requests, Kinds
  <2> QED
    BY <1>2, <1>6, <2>2 DEF HvxBuffer, sdVars, libVars
<1>7. CASE TakeBuffer
  <2>1. /\ call.op = "take" /\ call'.op = "send" /\ call'.kind = call.kind /\ call'.on = call.on
        /\ UNCHANGED <<proc, _remoteRequestInProgress>>
    BY <1>0, <1>7 DEF TakeBuffer, at, hvxCalls, requestCalls, sdVars
  <2> QED
    BY <1>0, <2>1 DEF RequestInv, awaited, requesting, answered
<1>8. CASE HvxSend
  <2>1. call.op = "send" /\ call.kind \in Kinds /\ call \in hvxCalls
    BY <1>0, <1>8 DEF HvxSend, at
  <2>2. [call EXCEPT !.refused = @ \cup {hvxError(call.kind)}] \in hvxCalls
    BY <2>1 DEF hvxCalls, hvxError, HvxErrors
  <2>3. \A c \in hvxCalls : hvxDone(c).op \in {"test", "returned"}
    BY DEF hvxDone, hvxCalls
  <2>4. ~requesting /\ ~requesting'
    BY <1>8, <2>1, <2>2, <2>3 DEF HvxSend, requesting, Requests, Kinds
  <2> QED
    BY <1>2, <1>8, <2>4 DEF HvxSend, libVars
<1>9. CASE RequestMark
  <2>1. /\ call \in requestCalls /\ call.op = "mark" /\ call'.op \in {"take", "send"}
        /\ call'.kind = call.kind /\ call'.on = call.on
    BY <1>0, <1>9 DEF RequestMark, at, requestCalls
  <2>2. requesting /\ requesting'
    BY <2>1 DEF requesting, requestCalls, Requests
  <2> QED
    BY <1>0, <2>1, <2>2 DEF RequestInv, answered
<1>10. CASE RequestSend
  <2>1. call.op = "send" /\ call \in requestCalls /\ call' = Idle
        /\ UNCHANGED _remoteRequestInProgress
    BY <1>0, <1>10 DEF RequestSend, at, libVars
  <2>2. requesting /\ ~requesting'
    BY <2>1 DEF requesting, requestCalls, Requests, Idle
  <2>3. ASSUME ~raced, \A i \in setup.services : answered(i)
        PROVE  awaited'
    <3>1. (connected \/ ending) /\ discovery = "discovered" /\ call.kind # "write_cmd"
      BY <2>2, <2>3 DEF RequestInv
    <3>2. proc.op \notin Discovery
      BY <3>1 DEF OnceInv
    <3>3. proc = NoProc \/ proc = [op |-> "request"]
      BY <3>2 DEF TypeOK, Procedures, Discovery
    <3>4. CASE link
      <4>1. proc' = [op |-> "request"]
        BY <1>10, <3>1, <3>3, <3>4 DEF RequestSend
      <4> QED
        BY <4>1 DEF awaited
    <3>5. CASE ~link
      <4>1. Len(evts) \in Nat /\ Len(evts) > 0
        BY <3>1, <3>5 DEF LinkInv, TypeOK
      <4>2. evts[Len(evts)].ev = "disconnected" /\ Len(evts) \in 1 .. Len(evts)
        BY <3>5, <4>1 DEF LinkInv
      <4>3. \E k \in 1 .. Len(evts) : evts[k].ev = "disconnected"
        BY <4>2
      <4> QED
        BY <1>0, <4>3 DEF awaited
    <3> QED
      BY <3>4, <3>5
  <2> QED
    BY <1>0, <1>1, <2>2, <2>3 DEF RequestInv
<1> QED
  BY <1>3, <1>4, <1>5, <1>6, <1>7, <1>8, <1>9, <1>10 DEF Sketch, callStep

\* The flag that shuts the sketch out of reading and writing is set only while
\* a response or the end of the link is to come, for a sketch that waits for
\* BLERemoteServicesDiscovered before it asks.
THEOREM RequestTrackedAlways ==
    ASSUME Patient
    PROVE  Spec => []RequestTracked
<1>1. Init => OnceInv /\ RequestInv
  <2> SUFFICES ASSUME Init PROVE OnceInv /\ RequestInv
    OBVIOUS
  <2>1. Len(evts) = 0
    BY DEF Init
  <2>2. OnceInv
    BY <2>1 DEF Init, OnceInv, NoProc, Discovery
  <2> QED
    BY <2>2 DEF Init, RequestInv, requesting, Idle
<1>2. TypeOK /\ RequestInv => RequestTracked
  <2> SUFFICES ASSUME TypeOK, RequestInv, _remoteRequestInProgress, call = Idle, ~raced,
                      \A i \in setup.services : answered(i)
               PROVE  proc = [op |-> "request"] \/ waits("response") \/ waits("disconnected")
    BY DEF RequestTracked, answered
  <2>1. awaited
    BY DEF RequestInv, requesting, Idle
  <2>2. DOMAIN evts = 1 .. Len(evts)
    BY DEF TypeOK
  <2> QED
    BY <2>1, <2>2 DEF awaited, waits
<1>3. TypeOK /\ LinkInv /\ DiscInv /\ OnceInv /\ EndingInv /\ RequestInv /\ [Next]_vars => RequestInv'
  <2>1. RequestInv /\ UNCHANGED vars => RequestInv'
    BY DEF RequestInv, requesting, answered, awaited, vars, sdVars, libVars, remoteVars, ghosts
  <2> QED
    BY <2>1, RequestSoftDevice, RequestPoll, RequestSketch DEF Next
<1> QED
  BY <1>1, <1>2, <1>3, InitLink, InitSubs, InitDisc, InitCredit, LinkStep, SubsStep, DiscStep,
     CreditStep, EndingStep, OnceStep, TypeCorrect, PTL DEF Spec

-------------------------------------------------------------------------------
(* The values that were turned down. *)

packets(e) == IF e.ev = "tx_complete" THEN e.count ELSE 0

\* total[k] packets are reported by the first k events that wait.
sumsUp(total, s, n) ==
    /\ total \in [0 .. Len(s) -> Int] /\ total[0] = 0 /\ n = total[Len(s)]
    /\ \A k \in 1 .. Len(s) : total[k] = total[k - 1] + packets(s[k])
    /\ \A j, k \in 0 .. Len(s) : j <= k => total[j] <= total[k]

\* Every packet that is counted as unreported has its report among the events.
ReportInv == \E total : sumsUp(total, evts, unreported)

LEMMA PacketsNat == \A e \in Events : packets(e) \in Nat
  BY EventFacts, BleAssumption DEF packets

LEMMA ReportRaised ==
    ASSUME NEW s \in Seq(Events), NEW e \in Events, NEW n \in Int, NEW total, sumsUp(total, s, n)
    PROVE  \E t : sumsUp(t, Append(s, e), n + packets(e))
<1> DEFINE L == Len(s)  s1 == Append(s, e)
           t == [k \in 0 .. L + 1 |-> IF k <= L THEN total[k] ELSE n + packets(e)]
<1>1. /\ L \in Nat /\ s1 \in Seq(Events) /\ Len(s1) = L + 1 /\ s1[L + 1] = e
      /\ \A k \in 1 .. L : s1[k] = s[k]
  OBVIOUS
<1>2. packets(e) \in Nat
  BY PacketsNat
<1>3. /\ total \in [0 .. L -> Int] /\ total[0] = 0 /\ n = total[L]
      /\ \A k \in 1 .. L : total[k] = total[k - 1] + packets(s[k])
      /\ \A j, k \in 0 .. L : j <= k => total[j] <= total[k]
  BY DEF sumsUp
<1> HIDE DEF L, s1
<1>4. t \in [0 .. L + 1 -> Int] /\ t[0] = 0 /\ t[L + 1] = n + packets(e)
  BY <1>1, <1>2, <1>3
<1>5. ASSUME NEW k \in 1 .. L + 1 PROVE t[k] = t[k - 1] + packets(s1[k])
  <2>1. CASE k \in 1 .. L
    BY <1>1, <1>3, <2>1
  <2>2. CASE k = L + 1
    <3>1. t[k - 1] = total[L] /\ s1[k] = e /\ t[k] = n + packets(e)
      BY <1>1, <2>2
    <3> QED
      BY <1>3, <3>1
  <2> QED
    BY <1>1, <2>1, <2>2
<1>6. ASSUME NEW j \in 0 .. L + 1, NEW k \in 0 .. L + 1, j <= k PROVE t[j] <= t[k]
  <2>1. CASE k \in 0 .. L
    BY <1>1, <1>3, <1>6, <2>1
  <2>2. CASE k = L + 1 /\ j \in 0 .. L
    <3>1. t[k] = n + packets(e) /\ t[j] = total[j] /\ total[j] \in Int /\ total[j] <= n
      BY <1>1, <1>3, <2>2
    <3> QED
      BY <1>2, <3>1
  <2>3. CASE k = L + 1 /\ j = L + 1
    BY <1>2, <1>4, <2>3
  <2> QED
    BY <1>1, <2>1, <2>2, <2>3
<1> HIDE DEF t
<1>7. sumsUp(t, s1, n + packets(e))
  BY <1>1, <1>4, <1>5, <1>6 DEF sumsUp
<1> QED
  BY <1>7 DEF s1

LEMMA ReportPolled ==
    ASSUME NEW s \in Seq(Events), Len(s) > 0, NEW n \in Int, NEW total, sumsUp(total, s, n)
    PROVE  \E t : sumsUp(t, Tail(s), n - packets(s[1]))
<1> DEFINE L == Len(s)  s1 == Tail(s)  t == [k \in 0 .. L - 1 |-> total[k + 1] - total[1]]
<1>1. /\ L \in Nat \ {0} /\ s1 \in Seq(Events) /\ Len(s1) = L - 1
      /\ \A k \in 1 .. L - 1 : s1[k] = s[k + 1]
  OBVIOUS
<1>2. s[1] \in Events /\ packets(s[1]) \in Nat
  BY PacketsNat, <1>1
<1>3. /\ total \in [0 .. L -> Int] /\ total[0] = 0 /\ n = total[L]
      /\ \A k \in 1 .. L : total[k] = total[k - 1] + packets(s[k])
      /\ \A j, k \in 0 .. L : j <= k => total[j] <= total[k]
  BY DEF sumsUp
<1> HIDE DEF L, s1
<1>4. total[1] = packets(s[1])
  BY <1>1, <1>2, <1>3
<1>5. t \in [0 .. L - 1 -> Int] /\ t[0] = 0 /\ t[L - 1] = n - packets(s[1])
  <2>1. \A k \in 0 .. L - 1 : k + 1 \in 0 .. L /\ total[k + 1] \in Int /\ total[1] \in Int
    BY <1>1, <1>3
  <2>2. t \in [0 .. L - 1 -> Int]
    BY <2>1
  <2>3. 0 \in 0 .. L - 1 /\ L - 1 \in 0 .. L - 1 /\ (L - 1) + 1 = L /\ 0 + 1 = 1
    BY <1>1
  <2>4. t[0] = total[1] - total[1] /\ t[L - 1] = total[L] - total[1]
    BY <2>3
  <2> QED
    BY <1>3, <1>4, <2>1, <2>2, <2>3, <2>4
<1>6. ASSUME NEW k \in 1 .. L - 1 PROVE t[k] = t[k - 1] + packets(s1[k])
  <2>1. /\ k + 1 \in 1 .. L /\ k \in 0 .. L /\ (k + 1) - 1 = k /\ (k - 1) + 1 = k
        /\ s1[k] = s[k + 1] /\ s[k + 1] \in Events
    BY <1>1 DEF s1, L
  <2>2. total[k + 1] = total[k] + packets(s1[k]) /\ packets(s1[k]) \in Nat
    BY <1>3, <2>1, PacketsNat
  <2>3. t[k] = total[k + 1] - total[1] /\ t[k - 1] = total[k] - total[1]
    BY <1>1, <2>1
  <2>4. total[k] \in Int /\ total[1] \in Int
    BY <1>1, <1>3, <2>1
  <2> QED
    BY <2>2, <2>3, <2>4
<1>7. ASSUME NEW j \in 0 .. L - 1, NEW k \in 0 .. L - 1, j <= k PROVE t[j] <= t[k]
  <2>1. j + 1 \in 0 .. L /\ k + 1 \in 0 .. L /\ j + 1 <= k + 1 /\ 1 \in 0 .. L
    BY <1>1, <1>7
  <2>2. total[j + 1] <= total[k + 1] /\ total[j + 1] \in Int /\ total[k + 1] \in Int /\ total[1] \in Int
    BY <1>3, <2>1
  <2> QED
    BY <2>2
<1> HIDE DEF t
<1>8. sumsUp(t, s1, n - packets(s[1]))
  BY <1>1, <1>5, <1>6, <1>7 DEF sumsUp
<1> QED
  BY <1>8 DEF s1

LEMMA ReportStep == TypeOK /\ LinkInv /\ ReportInv /\ [Next]_vars => ReportInv'
<1> SUFFICES ASSUME TypeOK, LinkInv, ReportInv, [Next]_vars PROVE ReportInv'
  OBVIOUS
<1>0. evts \in Seq(Events) /\ unreported \in Int /\ Len(evts) \in Nat
  BY DEF TypeOK
<1>1. ASSUME NEW e \in Events, raise(e), unreported' = unreported + packets(e)
      PROVE  ReportInv'
  BY <1>0, <1>1, ReportRaised DEF ReportInv, raise
<1>2. ASSUME NEW e \in Events, raise(e), e.ev # "tx_complete", unreported' = unreported
      PROVE  ReportInv'
  BY <1>0, <1>1, <1>2 DEF packets
<1>3. CASE SdConnect \/ SdDisconnect \/ SdResponse
  <2>1. \A ev \in {"connected", "disconnected", "response"} : [ev |-> ev] \in Events
    BY DEF Events
  <2> QED
    BY <1>2, <1>3, <2>1 DEF SdConnect, SdDisconnect, SdResponse, ghosts
<1>4. ASSUME NEW status, NEW found, SdDiscovered(status, found), status \in {"success", "end", "error"},
             found \in SUBSET setup.services
      PROVE  ReportInv'
  <2> DEFINE e == [ev |-> proc.op, status |-> status, found |-> found, left |-> proc.left - 1]
  <2>1. e \in Events /\ raise(e) /\ e.ev # "tx_complete"
    BY <1>4, DiscoveredEvent DEF SdDiscovered
  <2> HIDE DEF e
  <2> QED
    BY <1>2, <1>4, <2>1 DEF SdDiscovered, ghosts
<1>5. ASSUME NEW n \in 1 .. queued, SdSent(n)
      PROVE  ReportInv'
  <2> DEFINE e == [ev |-> "tx_complete", count |-> n]
  <2>1. n \in 1 .. Capacity
    BY <1>5, BleAssumption DEF TypeOK
  <2>2. e \in Events /\ packets(e) = n
    BY <2>1 DEF Events, packets
  <2> QED
    BY <1>1, <1>5, <2>2 DEF SdSent
<1>6. ASSUME NEW c \in setup.chars, SdWriteValue(c)
      PROVE  ReportInv'
  <2>1. [ev |-> "write_value", char |-> c] \in Events
    BY SetupFacts DEF TypeOK, Events
  <2> QED
    BY <1>2, <1>6, <2>1 DEF SdWriteValue, ghosts
<1>7. ASSUME NEW c \in setup.chars, NEW v \in Cccd, SdWriteCccd(c, v)
      PROVE  ReportInv'
  <2>1. [ev |-> "write_cccd", char |-> c, value |-> v] \in Events
    BY SetupFacts DEF TypeOK, Events
  <2> QED
    BY <1>2, <1>7, <2>1 DEF SdWriteCccd, ghosts
<1>8. ASSUME NEW ev, polls(ev)
      PROVE  ReportInv'
  <2>1. Len(evts) > 0 /\ Head(evts) = evts[1] /\ evts[1].ev = ev /\ evts' = Tail(evts)
    BY <1>0, <1>8, Polled DEF polls
  <2>2. unreported' = unreported - packets(evts[1])
    BY <1>0, <1>8, <2>1 DEF polls, packets
  <2> QED
    BY <1>0, <2>1, <2>2, ReportPolled DEF ReportInv
<1>9. CASE PollDisconnected \/ PollForget \/ \E c \in Chars : PollUnsubscribe(c)
  <2>1. Len(evts) \in Nat /\ 1 \in 1 .. Len(evts) /\ evts[1].ev = "disconnected"
    BY <1>0, <1>9, Handled DEF PollDisconnected, PollForget, PollUnsubscribe
  <2>2. Len(evts) = 1
    BY <2>1 DEF LinkInv
  <2>3. PICK total : sumsUp(total, evts, unreported)
    BY DEF ReportInv
  <2>4. unreported = total[1] /\ total[1] = total[1 - 1] + packets(evts[1]) /\ total[0] = 0
    BY <2>1, <2>2, <2>3 DEF sumsUp
  <2>5. unreported = 0
    BY <2>1, <2>4 DEF packets
  <2>6. CASE PollForget
    <3>1. evts' = <<>> /\ unreported' = 0
      BY <1>0, <2>2, <2>5, <2>6 DEF PollForget, ghosts
    <3>2. sumsUp([k \in 0 .. 0 |-> 0], <<>>, 0)
      BY DEF sumsUp
    <3> QED
      BY <3>1, <3>2 DEF ReportInv
  <2>7. CASE PollDisconnected \/ \E c \in Chars : PollUnsubscribe(c)
    <3>1. evts' = evts /\ unreported' = unreported
      BY <2>5, <2>7 DEF PollDisconnected, PollUnsubscribe, ghosts
    <3> QED
      BY <2>3, <3>1 DEF ReportInv
  <2> QED
    BY <1>9, <2>6, <2>7
<1>10. CASE Poll
  BY <1>8, <1>9, <1>10 DEF Poll, PollTxComplete, PollConnected, PollWriteCccd, PollWriteValue,
     PollServices, PollCharacteristics, PollResponse
<1>11. CASE UNCHANGED <<evts, unreported>>
  BY <1>11 DEF ReportInv
<1>12. CASE Sketch
  BY <1>11, <1>12, SketchFrame DEF ghosts
<1>13. CASE UNCHANGED vars \/ SdConfirmed
  BY <1>11, <1>13 DEF SdConfirmed, vars, ghosts
<1> QED
  BY <1>3, <1>4, <1>5, <1>6, <1>7, <1>9, <1>10, <1>12, <1>13 DEF Next, SoftDevice, SdAnswer

\* No value is turned down for want of a buffer, unless an event was handled in
\* the middle of the call.
RefusedInv ==
    ~raced /\ call.op \in {"test", "take", "send", "returned"} /\ call.kind \in Kinds =>
        "no_tx_packets" \notin call.refused

LEMMA RefusedStep ==
    TypeOK /\ CreditInv /\ EndingInv /\ ReportInv /\ RefusedInv /\ [Next]_vars => RefusedInv'
<1> SUFFICES ASSUME TypeOK, CreditInv, EndingInv, ReportInv, RefusedInv, [Next]_vars, ~raced'
             PROVE  RefusedInv'
  BY DEF RefusedInv
<1>1. CASE UNCHANGED <<call, raced>>
  BY <1>1 DEF RefusedInv
<1>2. CASE SoftDevice
  BY <1>1, <1>2 DEF SoftDevice, SdConnect, SdDisconnect, SdConfirmed, SdAnswer, SdResponse,
     SdDiscovered, SdSent, SdWriteValue, SdWriteCccd, ghosts
<1>3. CASE Poll
  <2>1. ASSUME NEW ev, polls(ev) PROVE call'.op = "idle"
    BY <2>1, PolledIdle
  <2>2. CASE PollDisconnected
    <3>1. call' = Idle
      BY <2>2 DEF PollDisconnected
    <3> QED
      BY <3>1 DEF RefusedInv, Idle
  <2>3. CASE PollForget \/ \E c \in Chars : PollUnsubscribe(c)
    BY <1>1, <2>3 DEF PollForget, PollUnsubscribe, ghosts
  <2>4. CASE ~PollDisconnected /\ ~PollForget /\ ~\E c \in Chars : PollUnsubscribe(c)
    <3>1. call'.op = "idle"
      BY <1>3, <2>1, <2>4 DEF Poll, PollTxComplete, PollConnected, PollWriteCccd,
         PollWriteValue, PollServices, PollCharacteristics, PollResponse
    <3> QED
      BY <3>1 DEF RefusedInv
  <2> QED
    BY <2>2, <2>3, <2>4
<1>4. CASE Sketch
  <2>0. /\ ~raced
        /\ call.op \in {"test", "returned"} => call \in hvxCalls
        /\ call.op = "mark" => call \in requestCalls
        /\ call.op \in {"take", "send"} => call \in hvxCalls \cup requestCalls
        /\ call.op \in {"take", "send"} /\ call.kind \in Kinds => call \in hvxCalls
        /\ call.op \in {"take", "send"} /\ call.kind \notin Kinds => call \in requestCalls
    BY <1>4, SketchFrame, CallFacts DEF ghosts, TypeOK
  <2>1. ASSUME NEW from, NEW c \in setup.chars, SetValue(c, from) PROVE RefusedInv'
    BY <2>1 DEF SetValue, RefusedInv
  <2>2. ASSUME NEW from, NEW i, NEW operation, RequestTest(i, operation, from) PROVE RefusedInv'
    BY <2>2 DEF RequestTest, RefusedInv
  <2>3. CASE HvxUnsubscribed \/ HvxNoBuffer \/ HvxBuffer
    <3>1. call \in hvxCalls /\ call.op = "test"
      BY <2>0, <2>3 DEF HvxUnsubscribed, HvxNoBuffer, HvxBuffer, at
    <3>2. "no_tx_packets" \notin call.refused
      BY <2>0, <3>1 DEF RefusedInv, hvxCalls
    <3>3. call'.refused = call.refused
      BY <2>3, <3>1 DEF HvxUnsubscribed, HvxNoBuffer, HvxBuffer, hvxDone, hvxCalls
    <3> QED
      BY <3>2, <3>3 DEF RefusedInv
  <2>4. CASE TakeBuffer
    BY <2>0, <2>4 DEF TakeBuffer, RefusedInv, hvxCalls, requestCalls, at, Kinds
  <2>5. CASE HvxSend
    <3>1. call \in hvxCalls /\ call.op = "send" /\ call.kind \in Kinds
      BY <2>0, <2>5 DEF HvxSend, at
    <3>2. "no_tx_packets" \notin call.refused
      BY <2>0, <3>1 DEF RefusedInv
    <3>3. link /\ call.kind = "notify" => queued < Capacity
      <4>1. connected
        BY <2>0, <3>1 DEF CreditInv, Kinds
      <4>2. unreported \in Nat
        <5>1. PICK total : sumsUp(total, evts, unreported)
          BY DEF ReportInv
        <5>2. Len(evts) \in Nat /\ unreported = total[Len(evts)] /\ total[0] = 0
              /\ (0 <= Len(evts) => total[0] <= total[Len(evts)])
          BY <5>1 DEF sumsUp, TypeOK
        <5> QED
          BY <5>2 DEF TypeOK
      <4>3. call.kind = "notify" => pending = 1
        BY <3>1 DEF pending
      <4> QED
        BY <2>0, <4>1, <4>2, <4>3, CreditTypes DEF CreditInv
    <3>4. call'.refused = call.refused \/ call'.refused = call.refused \cup {"busy"}
      <4>1. call.kind = "notify" => takesHvx(call.kind, call.on) \/ ~link \/ call.kind \notin cccd[call.on]
        BY <3>3 DEF takesHvx
      <4>2. \A c \in hvxCalls : hvxDone(c).refused = c.refused
        BY DEF hvxDone, hvxCalls
      <4>3. /\ [call EXCEPT !.refused = @ \cup {hvxError(call.kind)}] \in hvxCalls
            /\ [call EXCEPT !.refused = @ \cup {hvxError(call.kind)}].refused = call.refused \cup {hvxError(call.kind)}
        BY <3>1 DEF hvxCalls, hvxError, HvxErrors
      <4>4. CASE call.kind = "notify"
        <5>1. call' = hvxDone(call)
          BY <2>5, <4>1, <4>4 DEF HvxSend
        <5> QED
          BY <3>1, <4>2, <5>1
      <4>5. CASE call.kind = "indicate"
        BY <2>5, <3>1, <4>2, <4>3, <4>5 DEF HvxSend, hvxError
      <4> QED
        BY <3>1, <4>4, <4>5 DEF Kinds
    <3> QED
      BY <3>2, <3>4 DEF RefusedInv
  <2>6. CASE SetValueReturn \/ RequestSend
    BY <2>6 DEF SetValueReturn, RequestSend, RefusedInv, Idle
  <2>7. CASE RequestMark
    <3>1. call \in requestCalls
      BY <2>0, <2>7 DEF RequestMark, at
    <3>2. call'.kind \notin Kinds
      BY <2>7, <3>1 DEF RequestMark, requestCalls, Kinds
    <3> QED
      BY <3>2 DEF RefusedInv
  <2> QED
    BY <1>4, <2>1, <2>2, <2>3, <2>4, <2>5, <2>6, <2>7 DEF Sketch, callStep
<1>5. CASE UNCHANGED vars
  BY <1>1, <1>5 DEF vars, ghosts
<1> QED
  BY <1>2, <1>3, <1>4, <1>5 DEF Next

\* What setValue reports as notified and indicated was turned down neither for
\* want of a buffer nor for another reason, although the result of
\* sd_ble_gatts_hvx is dropped: the count of buffers stands in for it.  Only that
\* an indication is BUSY goes unnoticed.
THEOREM SetValueTruthfulAlways == Spec => []SetValueTruthful
<1>1. Init => ReportInv /\ RefusedInv
  <2>1. sumsUp([k \in 0 .. 0 |-> 0], <<>>, 0)
    BY DEF sumsUp
  <2> QED
    BY <2>1 DEF Init, ReportInv, RefusedInv, Idle
<1>2. TypeOK /\ RefusedInv => SetValueTruthful
  <2> SUFFICES ASSUME TypeOK, RefusedInv, call.op = "returned", ~raced
               PROVE  call.refused \subseteq {"busy"}
    BY DEF SetValueTruthful
  <2>1. call.kind \in Kinds /\ call.refused \subseteq HvxErrors
    BY CallFacts DEF TypeOK, hvxCalls
  <2> QED
    BY <2>1 DEF RefusedInv, HvxErrors
<1> QED
  BY <1>1, <1>2, InitLink, InitSubs, InitDisc, InitCredit, LinkStep, SubsStep, DiscStep, CreditStep,
     EndingStep, ReportStep, RefusedStep, TypeCorrect, PTL DEF Spec

===============================================================================
