---------------------------- MODULE HidExchange ----------------------------
(***************************************************************************)
(* The exchange of a command and its answer with a USB key                 *)
(* (JubiterHidDevice), one caller at a time, against a key that answers    *)
(* late, is pulled out and plugged in again.                               *)
(*                                                                         *)
(* Packets carry no mark of the command they answer; hidapi keeps them for *)
(* a handle as long as it is open.  Payload is left out: a packet is known *)
(* by its place in its answer.                                             *)
(***************************************************************************)
EXTENDS Naturals, Sequences

CONSTANTS
    MaxCommand,     \* commands sent
    MaxKeepAlive,   \* packets by which the key says it is still at work
    MaxUnplug,      \* times the key is pulled out
    AnswerLength    \* packets an answer may take

ASSUME BoundAssumption ==
    /\ MaxCommand \in Nat /\ MaxKeepAlive \in Nat /\ MaxUnplug \in Nat
    /\ AnswerLength \subseteq Nat \ {0}

VARIABLES
    handle,         \* _handle: NULL, open, or open on a key that was pulled out
    bFirstCmd,      \* whether the channel is still to be initialised
    queue,          \* packets hidapi holds for the handle
    pc,             \* where SendData is
    need, got,      \* packets of the answer, and those read
    ret,            \* what the last SendData returned
    plugged,
    todo, sending,  \* the key: commands to answer, packets to send
    command, kept, unplugged,   \* counted
    quiet           \* whether nothing was under way when the handle was opened

fileVars == <<handle, bFirstCmd, queue>>
callVars == <<pc, need, got, ret, command>>
keyVars == <<plugged, todo, sending, kept, unplugged>>

vars == <<fileVars, callVars, keyVars, quiet>>

\* Command 0 is the one that initialises the channel.
Place == UNION {0 .. n : n \in AnswerLength \cup {1}}
Packet == [command : 0 .. MaxCommand, number : Place, of : Place]
KeepAlive == [command |-> 0, number |-> 0, of |-> 0]

Answer(c, n) == [i \in 1 .. n |-> [command |-> c, number |-> i, of |-> n]]

Unconnected == {"INIT_DEVICE_LIB_ERROR", "CONNECT_DEVICE_ERROR"}
Result == Unconnected \cup {"OK", "TRANSMIT_DEVICE_ERROR", "BUFFER_TOO_SMALL"}

Settled == todo = <<>> /\ sending = <<>>

Init ==
    /\ handle = "null" /\ bFirstCmd = TRUE /\ queue = <<>>
    /\ pc = "idle" /\ need = 0 /\ got = <<>>
    /\ ret = [rv |-> "TRANSMIT_DEVICE_ERROR", answer |-> <<>>] /\ command = 0
    /\ plugged = TRUE /\ todo = <<>> /\ sending = <<>> /\ kept = 0 /\ unplugged = 0
    /\ quiet = TRUE

-----------------------------------------------------------------------------
(***************************************************************************)
(* Connect() and Disconnect().  A connect that cannot open the path sets   *)
(* the handle to null, one that can forgets a handle that was open.  After *)
(* a disconnect the channel is never initialised again.                    *)
(***************************************************************************)
Open ==
    /\ plugged
    /\ handle' = "open" /\ queue' = <<>>
    /\ quiet' = Settled

OpenFails == handle' = "null" /\ queue' = <<>> /\ UNCHANGED quiet

Close == handle' = "null" /\ queue' = <<>> /\ bFirstCmd' = FALSE /\ UNCHANGED quiet

Connect ==
    /\ pc = "idle"
    /\ Open \/ OpenFails
    /\ UNCHANGED <<bFirstCmd, callVars, keyVars>>

Disconnect ==
    /\ pc = "idle"
    /\ Close
    /\ UNCHANGED <<callVars, keyVars>>

-----------------------------------------------------------------------------
Return(rv, answer) ==
    /\ pc' = "idle" /\ need' = 0 /\ got' = <<>>
    /\ ret' = [rv |-> rv, answer |-> answer]
    /\ UNCHANGED command

FailsKeepsHandle ==
    /\ Return("TRANSMIT_DEVICE_ERROR", <<>>)
    /\ UNCHANGED <<fileVars, quiet>>

\* A write or a read that fails, or times out, closes the handle.
Fails ==
    /\ Return("TRANSMIT_DEVICE_ERROR", <<>>)
    /\ Close

\* A call opens the key if it has to.
SendData ==
    /\ pc = "idle" /\ command < MaxCommand
    /\ command' = command + 1
    /\ pc' = IF bFirstCmd THEN "init" ELSE "write"
    /\ IF handle = "null" THEN Open ELSE UNCHANGED <<handle, queue, quiet>>
    /\ UNCHANGED <<bFirstCmd, need, got, ret, keyVars>>

SendDataUnconnected ==
    /\ pc = "idle" /\ handle = "null"
    /\ OpenFails
    /\ \E rv \in Unconnected : Return(rv, <<>>)
    /\ UNCHANGED <<bFirstCmd, keyVars>>

\* The first command of the object is preceded by the initialisation of the channel.
InitChannel ==
    /\ pc = "init"
    /\ bFirstCmd' = FALSE
    /\ handle = "open"
    /\ todo' = Append(todo, 0)
    /\ pc' = "initRead"
    /\ UNCHANGED <<handle, queue, need, got, ret, command, plugged, sending, kept, unplugged, quiet>>

\* hid_read() waits for one packet, without a time limit, and takes any.
InitRead ==
    /\ pc = "initRead" /\ queue # <<>>
    /\ queue' = Tail(queue)
    /\ pc' = "write"
    /\ UNCHANGED <<handle, bFirstCmd, need, got, ret, command, keyVars, quiet>>

InitReadFails ==
    /\ pc = "initRead" /\ handle = "dead"
    /\ Fails
    /\ UNCHANGED keyVars

\* The packets of a command are written in one go: nothing is read between them.  The key
\* gets a command whose last packet is written.
Write ==
    /\ pc = "write" /\ handle = "open"
    /\ todo' = Append(todo, command)
    /\ pc' = "read"
    /\ UNCHANGED <<fileVars, need, got, ret, command, plugged, sending, kept, unplugged, quiet>>

WriteFails ==
    /\ pc \in {"init", "write"}
    /\ Fails
    /\ UNCHANGED keyVars

ReadKeepAlive ==
    /\ pc = "read" /\ queue # <<>> /\ Head(queue) = KeepAlive
    /\ queue' = Tail(queue)
    /\ UNCHANGED <<handle, bFirstCmd, callVars, keyVars, quiet>>

\* Two bytes of the first packet are the length; whatever stands there in another one.
Length(p) == IF p.number = 1 THEN {p.of} ELSE AnswerLength

WholeEarly(n) == Len(got) + 2 >= n
WholeLate(n) == Len(got) >= n
Whole(n) == Len(got) + 1 >= n

\* Nothing but its place tells which packet of an answer a packet is.
Read ==
    /\ pc = "read" /\ queue # <<>> /\ Head(queue) # KeepAlive
    /\ queue' = Tail(queue)
    /\ \E n \in IF got = <<>> THEN Length(Head(queue)) ELSE {need} :
          IF Whole(n)
          THEN Return("OK", Append(got, Head(queue)))
          ELSE /\ need' = n /\ got' = Append(got, Head(queue))
               /\ UNCHANGED <<pc, ret, command>>
    /\ UNCHANGED <<handle, bFirstCmd, keyVars, quiet>>

\* An answer is never longer than the buffer; what is read for one may seem to be.  The
\* handle stays open, with the packets that follow.
ReadTooLong ==
    /\ pc = "read" /\ queue # <<>> /\ Head(queue) # KeepAlive
    /\ got = <<>> /\ Head(queue).number # 1
    /\ queue' = Tail(queue)
    /\ Return("BUFFER_TOO_SMALL", <<>>)
    /\ UNCHANGED <<handle, bFirstCmd, keyVars, quiet>>

\* Twenty minutes without a packet, or an error.
ReadFails ==
    /\ pc = "read" /\ (queue = <<>> \/ handle = "dead")
    /\ Fails
    /\ UNCHANGED keyVars

-----------------------------------------------------------------------------
(***************************************************************************)
(* The key answers its commands in order, whether or not anyone waits.     *)
(***************************************************************************)
Reply ==
    /\ todo # <<>>
    /\ \E n \in IF Head(todo) = 0 THEN {1} ELSE AnswerLength :
          sending' = sending \o Answer(Head(todo), n)
    /\ todo' = Tail(todo)
    /\ UNCHANGED <<fileVars, callVars, plugged, kept, unplugged, quiet>>

Arrives(p) == queue' = IF handle = "open" THEN Append(queue, p) ELSE queue

Transmit ==
    /\ sending # <<>>
    /\ Arrives(Head(sending))
    /\ sending' = Tail(sending)
    /\ UNCHANGED <<handle, bFirstCmd, callVars, plugged, todo, kept, unplugged, quiet>>

StayAlive ==
    /\ todo # <<>> /\ Head(todo) # 0 /\ sending = <<>> /\ kept < MaxKeepAlive
    /\ Arrives(KeepAlive)
    /\ kept' = kept + 1
    /\ UNCHANGED <<handle, bFirstCmd, callVars, plugged, todo, sending, unplugged, quiet>>

Unplug ==
    /\ plugged /\ unplugged < MaxUnplug
    /\ plugged' = FALSE /\ unplugged' = unplugged + 1
    /\ todo' = <<>> /\ sending' = <<>>
    /\ handle' = IF handle = "open" THEN "dead" ELSE handle
    /\ UNCHANGED <<bFirstCmd, queue, callVars, kept, quiet>>

Plug ==
    /\ ~ plugged
    /\ plugged' = TRUE
    /\ UNCHANGED <<fileVars, callVars, todo, sending, kept, unplugged, quiet>>

InCall ==
    \/ SendData \/ SendDataUnconnected
    \/ InitChannel \/ InitRead \/ InitReadFails
    \/ Write \/ WriteFails
    \/ ReadKeepAlive \/ Read \/ ReadTooLong \/ ReadFails

Key == Reply \/ Transmit \/ StayAlive \/ Unplug \/ Plug

Next == Connect \/ Disconnect \/ InCall \/ Key

Spec == Init /\ [][Next]_vars
-----------------------------------------------------------------------------
\* Every variable keeps to the values the code can give it; what is read of an answer is
\* less than its length.
TypeOK ==
    /\ handle \in {"null", "open", "dead"} /\ bFirstCmd \in BOOLEAN
    /\ queue \in Seq(Packet)
    /\ pc \in {"idle", "init", "initRead", "write", "read"}
    /\ need \in AnswerLength \cup {0} /\ got \in Seq(Packet)
    /\ got # <<>> => Len(got) < need
    /\ ret \in [rv : Result, answer : Seq(Packet)] /\ command \in 0 .. MaxCommand
    /\ plugged \in BOOLEAN /\ todo \in Seq(0 .. MaxCommand) /\ sending \in Seq(Packet)
    /\ kept \in 0 .. MaxKeepAlive /\ unplugged \in 0 .. MaxUnplug
    /\ quiet \in BOOLEAN

Returns(rv) == pc # "idle" /\ pc' = "idle" /\ ret'.rv = rv

\* On a handle that was opened with nothing under way, whatever was given up, timed out or
\* pulled out before, SendData returns with JUBR_OK only the whole answer to its own
\* command: every failure of a write or a read closes the handle, and what it held is gone.
OwnAnswer ==
    [][quiet /\ Returns("OK") => ret'.answer = Answer(command, Len(ret'.answer))]_vars

\* No call on such a handle takes the middle of an answer for its beginning and reads a
\* length the caller's buffer cannot hold.
NeverTooSmall == [][quiet => ~ Returns("BUFFER_TOO_SMALL")]_vars

\* A SendData that succeeds on such a handle leaves nothing of its answer behind, in the key
\* or in hidapi, for the next command to find.
SuccessSettles == [][quiet /\ Returns("OK") => Settled /\ queue' = <<>>]_vars
=============================================================================
