----------------------- MODULE ThingSpeakClient_proof -----------------------
(* Proofs about the ThingSpeak client, for any fields and values, any       *)
(* number of calls, and a server and a network that may do anything.        *)
EXTENDS ThingSpeakClient, TLAPS

\* Type correctness in three parts; while a call runs, kind tells which.
FieldsOK ==
    nextWrite \in Update /\ wanted \in Update /\ post \in Update /\ asked \in Update
ControlOK ==
    /\ pc \in {"idle", "connect", "connectIP", "send", "wait"}
    /\ kind \in {"set", "write", "read"} /\ open \in BOOLEAN
    /\ status \in Codes /\ calls \in Nat
    /\ pc # "idle" => kind # "set"
NetworkOK ==
    /\ requests \subseteq [call : Nat, kind : {"write", "read"}, post : Update]
    /\ replies \subseteq [call : Nat, status : Codes]
    /\ channel \subseteq [call : Nat, post : Update]
Types == FieldsOK /\ ControlOK /\ NetworkOK

LEMMA UpdateLemma ==
    /\ Empty \in Update
    /\ \A u \in Update, f \in Fields, v \in Values : [u EXCEPT ![f] = v] \in Update
  BY DEF Empty, Update

LEMMA TypesInit == Init => Types
  <1>1. Init => FieldsOK
    BY UpdateLemma DEF Init, FieldsOK
  <1>2. Init => ControlOK
    <2>1. Init => open \in BOOLEAN /\ status \in Codes
      BY Zenon DEF Init, Codes
    <2> QED
      BY <2>1 DEF Init, ControlOK
  <1>3. Init => NetworkOK
    BY DEF Init, NetworkOK
  <1> QED
    BY <1>1, <1>2, <1>3 DEF Types

\* The sketch's own fields change between calls and when a call begins.
LEMMA FieldsStep == ASSUME FieldsOK, [Next]_vars PROVE FieldsOK'
  <1>1. ASSUME NEW f \in Fields, NEW v \in Values, setField(f, v) PROVE FieldsOK'
    BY <1>1, UpdateLemma, Zenon DEF setField, FieldsOK
  <1>2. ASSUME NEW f \in Fields, NEW v \in Values, writeField(f, v) PROVE FieldsOK'
    BY <1>2, UpdateLemma, Zenon DEF writeField, FieldsOK
  <1>3. CASE writeFields \/ readField
    BY <1>3, UpdateLemma DEF writeFields, readField, FieldsOK
  <1>4. CASE UNCHANGED <<nextWrite, wanted, post, asked>>
    BY <1>4 DEF FieldsOK
  <1> QED
    BY <1>1, <1>2, <1>3, <1>4
       DEF Next, Client, Server, Store, Reject, Report, Lose, Reply, client,
           vars, Refuse, Connect, ConnectAgain, ConnectFails, Send, Abort,
           GetResponse, TimeOut, Return

LEMMA ControlStep == ASSUME Types, [Next]_vars PROVE ControlOK'
  <1> USE DEF Types, ControlOK
  <1>1. CASE \E f \in Fields, v \in Values : setField(f, v)
    BY <1>1 DEF setField, Codes
  <1>2. CASE \E f \in Fields, v \in Values : writeField(f, v)
    BY <1>2 DEF writeField, Begin
  <1>3. CASE writeFields \/ readField
    BY <1>3 DEF writeFields, readField, Begin
  <1>4. CASE Refuse
    BY <1>4 DEF Refuse, Codes
  <1>5. CASE Connect \/ ConnectAgain \/ Send
    BY <1>5 DEF Connect, ConnectAgain, Send
  <1>6. CASE ConnectFails \/ Abort \/ TimeOut
    BY <1>6 DEF ConnectFails, Abort, TimeOut, Return, Codes
  <1>7. CASE GetResponse
    <2>1. PICK r \in replies :
             /\ UNCHANGED <<kind, calls>> /\ pc' = "idle" /\ open' = FALSE
             /\ status' \in {r.status, "ERR_BAD_RESPONSE", "ERR_NOT_INSERTED"}
      BY <1>7 DEF GetResponse, Return
    <2>2. status' \in Codes
      BY <2>1 DEF NetworkOK, Codes
    <2> QED
      BY <2>1, <2>2
  <1>8. CASE UNCHANGED client
    BY <1>8 DEF client
  <1> QED
    BY <1>1, <1>2, <1>3, <1>4, <1>5, <1>6, <1>7, <1>8
       DEF Next, Client, Server, Store, Reject, Report, Lose, Reply, vars

LEMMA NetworkStep == ASSUME Types, [Next]_vars PROVE NetworkOK'
  <1> USE DEF Types, NetworkOK
  <1>1. CASE Send
    <2>1. kind \in {"write", "read"} /\ calls \in Nat /\ post \in Update
      BY <1>1 DEF Send, ControlOK, FieldsOK
    <2> QED
      BY <1>1, <2>1 DEF Send
  <1>2. CASE GetResponse
    BY <1>2 DEF GetResponse
  <1>3. ASSUME NEW r \in requests, NEW s \in Codes, Reply(r, s),
               channel' \subseteq [call : Nat, post : Update]
        PROVE  NetworkOK'
    <2>1. r.call \in Nat
      OBVIOUS
    <2> QED
      BY <1>3, <2>1 DEF Reply
  <1>4. ASSUME NEW r \in requests, Store(r) PROVE NetworkOK'
    BY <1>3, <1>4 DEF Store, Codes
  <1>5. ASSUME NEW r \in requests, Reject(r) \/ Report(r) PROVE NetworkOK'
    BY <1>3, <1>5 DEF Reject, Report, Codes
  <1>6. ASSUME NEW r \in requests, Lose(r) PROVE NetworkOK'
    BY <1>6 DEF Lose
  <1>7. CASE UNCHANGED server
    BY <1>7 DEF server
  <1> QED
    BY <1>1, <1>2, <1>4, <1>5, <1>6, <1>7
       DEF Next, Client, Server, vars, setField, writeField, writeFields,
           readField, Begin, Refuse, Connect, ConnectAgain, ConnectFails, Abort,
           TimeOut

LEMMA AllTypes == Spec => []Types
  BY TypesInit, FieldsStep, ControlStep, NetworkStep, PTL DEF Spec, Types

\* The client's state, the packets and the channel stay well-formed.
THEOREM TypeCorrect == Spec => []TypeOK
  <1>1. Types => TypeOK
    BY DEF Types, FieldsOK, ControlOK, NetworkOK, TypeOK
  <1> QED
    BY <1>1, AllTypes, PTL

-----------------------------------------------------------------------------
\* What is known of the running call, and of the last one.  Nothing of a call
\* exists before Send; then its request is under way, or it is not and the
\* replies tell what became of it.
entry == [call |-> calls, post |-> asked]
arrived == {r \in replies : r.call = calls}

Past ==
    /\ \A r \in requests : r.call <= calls
    /\ \A r \in replies : r.call <= calls
    /\ \A e \in channel : e.call <= calls

Unsent == stored = {} /\ pending = {} /\ arrived = {}

Told(k) ==
    \A r \in arrived :
        /\ r.status \in {"OK_SUCCESS", "ERR_BADAPIKEY", "ERR_NOT_INSERTED"}
        /\ k = "write" /\ r.status = "OK_SUCCESS" => stored = {entry}
        /\ k = "write" /\ r.status = "ERR_BADAPIKEY" => stored = {}
        /\ pending = {}

UnderWay ==
    /\ pending \subseteq {[call |-> calls, kind |-> kind, post |-> asked]}
    /\ pending # {} => stored = {}
    /\ Told(kind)

Final ==
    /\ status = "OK_SUCCESS" => stored = {entry} /\ pending = {}
    /\ status \in NotStored => stored = {} /\ pending = {}

Known ==
    /\ nextWrite = wanted /\ post = asked
    /\ Past
    /\ pc \in {"connect", "connectIP", "send"} => Unsent
    /\ pc = "wait" => UnderWay
    /\ pc = "idle" /\ kind = "write" => Final

LEMMA KnownInit == Init => Known
  BY DEF Init, Known, Past, Final

\* A new call has a new number.
LEMMA BeginKnown ==
    ASSUME Types, Known, NEW k \in {"write", "read"}, Begin(k),
           nextWrite' = wanted', post' = asked'
    PROVE  Known'
  <1>1. calls \in Nat /\ calls' = calls + 1 /\ pc' = "connect"
    BY DEF Types, ControlOK, Begin
  <1>2. requests' = requests /\ replies' = replies /\ channel' = channel
    BY DEF Begin, server
  <1>3. /\ \A r \in requests : r.call \in Nat /\ r.call <= calls
        /\ \A r \in replies : r.call \in Nat /\ r.call <= calls
        /\ \A e \in channel : e.call \in Nat /\ e.call <= calls
    BY DEF Types, NetworkOK, Known, Past
  <1>4. /\ \A r \in requests : r.call <= calls' /\ r.call # calls'
        /\ \A r \in replies : r.call <= calls' /\ r.call # calls'
        /\ \A e \in channel : e.call <= calls' /\ e.call # calls'
    BY <1>1, <1>3
  <1>5. Past'
    BY <1>2, <1>4 DEF Past
  <1>6. Unsent'
    BY <1>2, <1>4 DEF Unsent, stored, pending, arrived
  <1> QED
    BY <1>1, <1>5, <1>6, Zenon DEF Known

\* Steps of the client inside a call.
LEMMA CallKnown ==
    ASSUME Types, Known,
           \/ Connect \/ ConnectAgain \/ ConnectFails \/ Send \/ Abort
           \/ GetResponse \/ TimeOut
    PROVE  Known'
  <1>1. /\ UNCHANGED <<nextWrite, wanted, post, asked, calls, kind, channel>>
        /\ nextWrite' = wanted' /\ post' = asked'
    BY DEF Known, Connect, ConnectAgain, ConnectFails, Send, Abort, GetResponse,
           TimeOut, Return, server
  <1>2. CASE Connect \/ ConnectAgain
    <2>1. UNCHANGED <<requests, replies>> /\ pc' \in {"connectIP", "send"}
          /\ pc \in {"connect", "connectIP"}
      BY <1>2 DEF Connect, ConnectAgain, server
    <2> QED
      BY <1>1, <2>1 DEF Known, Past, Unsent, stored, pending, arrived
  <1>3. CASE ConnectFails \/ Abort
    <2>1. /\ UNCHANGED <<requests, replies>> /\ pc' = "idle"
          /\ pc \in {"connectIP", "send"}
          /\ status' \in {"ERR_CONNECT_FAILED", "ERR_UNEXPECTED_FAIL"}
      BY <1>3 DEF ConnectFails, Abort, Return, server
    <2>2. stored = {} /\ pending = {} /\ status' # "OK_SUCCESS"
      BY <2>1 DEF Known, Unsent
    <2> QED
      BY <1>1, <2>1, <2>2 DEF Known, Past, Final, stored, pending
  <1>4. CASE Send
    <2> DEFINE new == [call |-> calls, kind |-> kind, post |-> post]
    <2>1. /\ requests' = requests \cup {new} /\ replies' = replies
          /\ pc = "send" /\ pc' = "wait"
      BY <1>4 DEF Send
    <2>2. Unsent
      BY <2>1 DEF Known
    <2>3. new.call = calls /\ calls <= calls
      BY DEF Types, ControlOK
    <2>4. Past'
      BY <1>1, <2>1, <2>3 DEF Known, Past
    <2>5. stored' = {} /\ arrived' = {}
      BY <1>1, <2>1, <2>2 DEF Unsent, stored, arrived
    <2>6. pending' = {new}
      BY <1>1, <2>1, <2>2, <2>3 DEF Unsent, pending
    <2>7. UnderWay'
      BY <1>1, <2>5, <2>6 DEF UnderWay, Told, Known
    <2> QED
      BY <1>1, <2>1, <2>4, <2>7 DEF Known
  <1>5. CASE TimeOut
    <2>1. UNCHANGED <<requests, replies>> /\ pc' = "idle" /\ status' = "ERR_TIMEOUT"
      BY <1>5 DEF TimeOut, Return, server
    <2> QED
      BY <1>1, <2>1 DEF Known, Past, Final, NotStored
  <1>6. CASE GetResponse
    <2>1. PICK r \in replies :
             /\ pc = "wait" /\ r.call = calls /\ pc' = "idle"
             /\ requests' = requests /\ replies' = replies \ {r}
             /\ status' \in {r.status, "ERR_BAD_RESPONSE", "ERR_NOT_INSERTED"}
      BY <1>6 DEF GetResponse, Return
    <2>2. UnderWay /\ r \in arrived
      BY <2>1 DEF Known, arrived
    <2>3. /\ r.status \in {"OK_SUCCESS", "ERR_BADAPIKEY", "ERR_NOT_INSERTED"}
          /\ kind = "write" /\ r.status = "OK_SUCCESS" => stored = {entry}
          /\ kind = "write" /\ r.status = "ERR_BADAPIKEY" => stored = {}
          /\ pending = {}
      BY <2>2 DEF UnderWay, Told
    <2>4. stored' = stored /\ pending' = pending /\ entry' = entry
      BY <1>1, <2>1 DEF stored, pending, entry
    <2>5. kind = "write" => Final'
      BY <2>1, <2>3, <2>4 DEF Final, NotStored
    <2>6. Past'
      BY <1>1, <2>1 DEF Known, Past
    <2> QED
      BY <1>1, <2>1, <2>5, <2>6 DEF Known
  <1> QED
    BY <1>2, <1>3, <1>4, <1>5, <1>6

\* The server and the network: what they do to an earlier call does not touch
\* what is known of this one, and they do nothing to one already answered.
LEMMA ServerKnown == ASSUME Types, Known, Server PROVE Known'
  <1>1. PICK r \in requests : Store(r) \/ Reject(r) \/ Report(r) \/ Lose(r)
    BY DEF Server
  <1>2. UNCHANGED client
    BY <1>1 DEF Store, Reject, Report, Lose, Reply
  <1>3. /\ UNCHANGED <<nextWrite, pc, kind, post, status, calls, wanted, asked>>
        /\ requests' = requests \ {r} /\ r.call <= calls
    BY <1>1, <1>2 DEF Store, Reject, Report, Lose, Reply, client, Known, Past
  <1>4. /\ \A p \in replies' : p \in replies \/ p.call = r.call
        /\ \A e \in channel' : e \in channel \/ e.call = r.call
    BY <1>1 DEF Store, Reject, Report, Lose, Reply
  <1>5. Past'
    BY <1>3, <1>4 DEF Known, Past
  <1>6. CASE r.call # calls
    <2>1. stored' = stored /\ pending' = pending
      BY <1>1, <1>3, <1>6 DEF Store, Reject, Report, Lose, Reply, stored, pending
    <2>2. arrived' = arrived
      BY <1>1, <1>3, <1>6 DEF Store, Reject, Report, Lose, Reply, arrived
    <2>3. entry' = entry
      BY <1>3 DEF entry
    <2> QED
      BY <1>3, <1>5, <2>1, <2>2, <2>3
         DEF Known, Unsent, UnderWay, Told, Final
  <1>7. CASE r.call = calls
    <2>1. r \in pending
      BY <1>7 DEF pending
    <2>2. pc \in {"wait", "idle"} /\ ~(pc = "idle" /\ kind = "write" /\ Final /\ status \in NotStored \cup {"OK_SUCCESS"})
      BY <2>1 DEF Types, ControlOK, Known, Unsent, Final
    <2>3. CASE pc = "idle"
      BY <1>3, <1>5, <2>2, <2>3 DEF Known, Final
    <2>4. CASE pc = "wait"
      <3>1. /\ pending = {r} /\ r = [call |-> calls, kind |-> kind, post |-> asked]
            /\ stored = {} /\ arrived = {}
        BY <2>1, <2>4 DEF Known, UnderWay, Told
      <3>2. pending' = {}
        BY <1>3, <3>1 DEF pending
      <3>3. r.kind = kind /\ r.post = asked /\ r.call = calls
        BY <3>1
      <3>4. CASE Store(r)
        <4>1. stored' = {entry}
          BY <1>3, <3>1, <3>3, <3>4 DEF Store, stored, entry
        <4>2. arrived' = {[call |-> calls, status |-> "OK_SUCCESS"]}
          BY <1>3, <3>1, <3>3, <3>4 DEF Store, Reply, arrived
        <4>3. entry' = entry
          BY <1>3 DEF entry
        <4>4. UnderWay'
          BY <3>2, <4>1, <4>2, <4>3 DEF UnderWay, Told
        <4> QED
          BY <1>3, <1>5, <2>4, <4>4 DEF Known
      <3>5. CASE Reject(r)
        <4>1. stored' = {}
          BY <1>3, <3>1, <3>5 DEF Reject, stored
        <4>2. arrived' \subseteq {[call |-> calls, status |-> "ERR_NOT_INSERTED"],
                                  [call |-> calls, status |-> "ERR_BADAPIKEY"]}
          BY <1>3, <3>1, <3>3, <3>5 DEF Reject, Reply, arrived
        <4>3. UnderWay'
          BY <3>2, <4>1, <4>2 DEF UnderWay, Told
        <4> QED
          BY <1>3, <1>5, <2>4, <4>3 DEF Known
      <3>6. CASE Report(r)
        <4>1. stored' = {} /\ kind' # "write"
          BY <1>3, <3>1, <3>3, <3>6 DEF Report, stored
        <4>2. arrived' \subseteq {[call |-> calls, status |-> "OK_SUCCESS"],
                                  [call |-> calls, status |-> "ERR_BADAPIKEY"]}
          BY <1>3, <3>1, <3>3, <3>6 DEF Report, Reply, arrived
        <4>3. UnderWay'
          BY <3>2, <4>1, <4>2 DEF UnderWay, Told
        <4> QED
          BY <1>3, <1>5, <2>4, <4>3 DEF Known
      <3>7. CASE Lose(r)
        <4>1. stored' = {} /\ arrived' = {}
          BY <1>3, <3>1, <3>7 DEF Lose, stored, arrived
        <4>2. UnderWay'
          BY <3>2, <4>1 DEF UnderWay, Told
        <4> QED
          BY <1>3, <1>5, <2>4, <4>2 DEF Known
      <3> QED
        BY <1>1, <3>4, <3>5, <3>6, <3>7
    <2> QED
      BY <2>2, <2>3, <2>4
  <1> QED
    BY <1>6, <1>7

LEMMA KnownStep == ASSUME Types, Known, [Next]_vars PROVE Known'
  <1>1. CASE writeFields
    BY <1>1, BeginKnown DEF writeFields, Known
  <1>2. ASSUME NEW f \in Fields, NEW v \in Values, writeField(f, v) PROVE Known'
    BY <1>2, BeginKnown DEF writeField, Known
  <1>3. CASE readField
    BY <1>3, BeginKnown DEF readField, Known
  <1>4. ASSUME NEW f \in Fields, NEW v \in Values, setField(f, v) PROVE Known'
    <2>1. nextWrite' = wanted' /\ post' = asked' /\ pc' = "idle" /\ kind' = "set"
      BY <1>4 DEF setField, Known
    <2>2. Past'
      BY <1>4 DEF setField, server, Known, Past
    <2> QED
      BY <2>1, <2>2 DEF Known
  <1>5. CASE Refuse
    <2>1. nextWrite' = wanted' /\ post' = asked' /\ pc' = "idle" /\ kind' = "set"
      BY <1>5 DEF Refuse, Known
    <2>2. Past'
      BY <1>5 DEF Refuse, server, Known, Past
    <2> QED
      BY <2>1, <2>2 DEF Known
  <1>6. CASE UNCHANGED vars
    BY <1>6
       DEF vars, client, server, Known, Past, Unsent, UnderWay, Told, Final,
           stored, pending, arrived, entry
  <1> QED
    BY <1>1, <1>2, <1>3, <1>4, <1>5, <1>6, CallKnown, ServerKnown DEF Next, Client

\* The status of a write is true of what the server has stored, for every delay
\* and loss: success means just the fields set, an error that nothing is stored.
THEOREM StatusTold == Spec => []StatusIsTrue
  <1>1. Known => StatusIsTrue
    BY DEF Known, Final, StatusIsTrue, entry
  <1> QED
    BY <1>1, KnownInit, KnownStep, AllTypes, PTL DEF Spec

\* Whatever way a call ends, its connection is closed.
THEOREM ConnectionClosed == Spec => []ClosedWhenIdle
  <1> DEFINE Closed == pc \in {"idle", "connect", "connectIP"} => ~open
  <1>1. Init => Closed
    BY Zenon DEF Init
  <1>2. Closed /\ [Next]_vars => Closed'
    BY DEF Next, Client, Server, vars, client, setField, Refuse, writeFields,
           writeField, readField, Begin, Connect, ConnectAgain, ConnectFails,
           Send, Abort, GetResponse, TimeOut, Return, Store, Reject, Report,
           Lose, Reply
  <1>3. Closed => ClosedWhenIdle
    BY DEF ClosedWhenIdle
  <1> QED
    BY <1>1, <1>2, <1>3, PTL DEF Spec
=============================================================================
