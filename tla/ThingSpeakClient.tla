-------------------------- MODULE ThingSpeakClient --------------------------
(* ThingSpeak.h, the client with which the stations write to and read from  *)
(* a channel: fields buffered for the next writeFields(), one HTTP request  *)
(* over one connection per call, and a server that may be slow, refuse a    *)
(* write, or be cut off at any point.                                       *)
EXTENDS Naturals

CONSTANTS
    Fields,         \* the fields of an update; a position is treated as one
    Values,         \* what a field may be set to
    None,           \* an empty field, and a position that is NAN
    MaxCalls        \* bound: calls that talk to the server

ASSUME ClientAssumption == None \notin Values /\ MaxCalls \in Nat

VARIABLES
    nextWrite,      \* nextWriteField[], nextWriteLatitude, ...
    pc,             \* "idle", "connect", "connectIP", "send" or "wait"
    kind,           \* "write" or "read": which function was called
    post,           \* postMessage, as the values of the fields
    open,           \* the client's connection
    status,         \* what the last call returned
    requests,       \* complete requests on their way to the server
    replies,        \* replies on their way back
    channel,        \* updates stored, with the call they came from
    calls,          \* history: calls made so far
    wanted,         \* history: fields set since the last writeFields()
    asked           \* history: the update the last call is to make

client == <<nextWrite, pc, kind, post, open, status, calls, wanted,
            asked>>
server == <<requests, replies, channel>>
vars == <<client, server>>

Empty == [f \in Fields |-> None]
Update == [Fields -> Values \cup {None}]

Init ==
    /\ nextWrite = Empty /\ wanted = Empty
    /\ post = Empty /\ asked = Empty
    /\ pc = "idle" /\ kind = "read" /\ open = FALSE /\ status = "OK_SUCCESS"
    /\ requests = {} /\ replies = {} /\ channel = {}
    /\ calls = 0

-----------------------------------------------------------------------------
(* The functions a sketch calls.  Field numbers and lengths are in range.   *)

setField(f, v) ==
    /\ pc = "idle"
    /\ nextWrite' = [nextWrite EXCEPT ![f] = v]
    /\ wanted' = [wanted EXCEPT ![f] = v]
    /\ status' = "OK_SUCCESS" /\ kind' = "set"
    /\ UNCHANGED <<pc, post, open, calls, asked, server>>

\* writeFields() without a field set, and a field number out of range.
Refuse ==
    /\ pc = "idle"
    /\ \/ nextWrite = Empty /\ status' = "ERR_SETFIELD_NOT_CALLED"
       \/ status' = "ERR_INVALID_FIELD_NUM"
    /\ kind' = "set"
    /\ UNCHANGED <<nextWrite, pc, post, open, calls, wanted, asked, server>>

Begin(function) ==
    /\ pc = "idle" /\ pc' = "connect"
    /\ calls < MaxCalls /\ calls' = calls + 1
    /\ kind' = function
    /\ UNCHANGED <<open, status, server>>

\* Mutant of writeFields: the buffered fields are not cleared.
writeFieldsKept ==
    /\ nextWrite # Empty
    /\ Begin("write")
    /\ post' = nextWrite
    /\ asked' = wanted /\ wanted' = Empty
    /\ UNCHANGED nextWrite
writeFields ==
    /\ nextWrite # Empty
    /\ Begin("write")
    /\ post' = nextWrite
    /\ nextWrite' = Empty
    /\ asked' = wanted /\ wanted' = Empty

writeField(f, v) ==
    /\ Begin("write")
    /\ post' = [Empty EXCEPT ![f] = v] /\ asked' = post'
    /\ UNCHANGED <<nextWrite, wanted>>

readField ==
    /\ Begin("read")
    /\ post' = Empty /\ asked' = Empty
    /\ UNCHANGED <<nextWrite, wanted>>

-----------------------------------------------------------------------------
(* writeRaw() and readRaw(): connectThingSpeak(), the request, the reply.   *)

Return(s) ==
    /\ pc' = "idle" /\ status' = s
    /\ UNCHANGED <<nextWrite, kind, post, calls, wanted, asked>>

\* First by name, then by the address the library knows.
Connect ==
    /\ pc \in {"connect", "connectIP"} /\ pc' = "send"
    /\ open' = TRUE
    /\ UNCHANGED <<nextWrite, kind, post, status, calls, wanted, asked, server>>

ConnectAgain ==
    /\ pc = "connect" /\ pc' = "connectIP"
    /\ UNCHANGED <<nextWrite, kind, post, open, status, calls, wanted, asked,
                   server>>

ConnectFails ==
    /\ pc = "connectIP"
    /\ Return("ERR_CONNECT_FAILED")
    /\ UNCHANGED <<open, server>>

Send ==
    /\ pc = "send" /\ pc' = "wait"
    /\ requests' = requests \cup {[call |-> calls, kind |-> kind, post |-> post]}
    /\ UNCHANGED <<nextWrite, kind, post, open, status, calls, wanted, asked,
                   replies, channel>>

\* Mutant of Abort: abortWriteRaw() without stop().
AbortOpen ==
    /\ pc = "send"
    /\ Return("ERR_UNEXPECTED_FAIL")
    /\ UNCHANGED <<open, server>>
\* A print() fails before the request is complete: abortWriteRaw(), abortReadRaw().
Abort ==
    /\ pc = "send"
    /\ Return("ERR_UNEXPECTED_FAIL")
    /\ open' = FALSE
    /\ UNCHANGED server

\* getHTTPResponse() finds a reply on this connection, whole, cut off in its
\* head, or cut off behind it: then the number of the entry is read as 0,
\* which writeRaw() takes for an update that was not inserted.
GetResponse ==
    \E r \in replies :
        /\ pc = "wait" /\ r.call = calls
        /\ \/ Return(r.status)
           \/ Return("ERR_BAD_RESPONSE")
           \/ kind = "write" /\ r.status = "OK_SUCCESS" /\ Return("ERR_NOT_INSERTED")
        /\ open' = FALSE
        /\ replies' = replies \ {r}
        /\ UNCHANGED <<requests, channel>>

TimeOut ==
    /\ pc = "wait"
    /\ Return("ERR_TIMEOUT")
    /\ open' = FALSE
    /\ UNCHANGED server

Client ==
    \/ Refuse \/ writeFields \/ readField
    \/ \E f \in Fields, v \in Values : setField(f, v) \/ writeField(f, v)
    \/ Connect \/ ConnectAgain \/ ConnectFails \/ Send \/ Abort
    \/ GetResponse \/ TimeOut

-----------------------------------------------------------------------------
(* The server and the way to it.                                            *)

Reply(r, s) ==
    /\ requests' = requests \ {r}
    /\ replies' = replies \cup {[call |-> r.call, status |-> s]}
    /\ UNCHANGED client

Store(r) ==
    /\ r.kind = "write"
    /\ channel' = channel \cup {[call |-> r.call, post |-> r.post]}
    /\ Reply(r, "OK_SUCCESS")

\* More than one update in 15 s, or a key that does not fit.
Reject(r) ==
    /\ r.kind = "write"
    /\ Reply(r, "ERR_NOT_INSERTED") \/ Reply(r, "ERR_BADAPIKEY")
    /\ UNCHANGED channel

Report(r) ==
    /\ r.kind = "read"
    /\ Reply(r, "OK_SUCCESS") \/ Reply(r, "ERR_BADAPIKEY")
    /\ UNCHANGED channel

Lose(r) ==
    /\ requests' = requests \ {r}
    /\ UNCHANGED <<client, replies, channel>>

Server == \E r \in requests : Store(r) \/ Reject(r) \/ Report(r) \/ Lose(r)

Next == Client \/ Server

Spec == Init /\ [][Next]_vars

-----------------------------------------------------------------------------
Codes == {"OK_SUCCESS", "ERR_BADAPIKEY", "ERR_INVALID_FIELD_NUM",
          "ERR_SETFIELD_NOT_CALLED", "ERR_CONNECT_FAILED", "ERR_UNEXPECTED_FAIL",
          "ERR_BAD_RESPONSE", "ERR_TIMEOUT", "ERR_NOT_INSERTED"}

TypeOK ==
    /\ nextWrite \in Update /\ wanted \in Update
    /\ post \in Update /\ asked \in Update
    /\ pc \in {"idle", "connect", "connectIP", "send", "wait"}
    /\ kind \in {"set", "write", "read"} /\ open \in BOOLEAN
    /\ status \in Codes
    /\ requests \subseteq [call : Nat, kind : {"write", "read"}, post : Update]
    /\ replies \subseteq [call : Nat, status : Codes]
    /\ channel \subseteq [call : Nat, post : Update]
    /\ calls \in Nat

stored == {e \in channel : e.call = calls}
pending == {r \in requests : r.call = calls}
NotStored == {"ERR_CONNECT_FAILED", "ERR_UNEXPECTED_FAIL", "ERR_BADAPIKEY"}

\* The result of a write says what became of it, however late the server is
\* with this request or an earlier one: success means that exactly the fields
\* set for it are stored, none left from an update that failed, and these errors
\* that nothing is and will be.  A time-out and a reply that cannot be read
\* leave it open, and so does ERR_NOT_INSERTED: the update may be stored and
\* only its entry number be missing.
StatusIsTrue ==
    pc = "idle" /\ kind = "write" =>
        /\ status = "OK_SUCCESS" => stored = {[call |-> calls, post |-> asked]}
        /\ status \in NotStored => stored = {} /\ pending = {}

\* Every way out of a call has closed the connection.
ClosedWhenIdle == pc = "idle" => ~open
=============================================================================
