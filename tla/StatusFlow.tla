----------------------------- MODULE StatusFlow -----------------------------
(***************************************************************************)
(* How commands reach the update handler and how its statuses reach the CM *)
(* (umclient.go, and sendEvent, Registered, sendStatus, onStateChanged of  *)
(* updatehandler.go).  Three goroutines take part:                         *)
(*   receiver  the one of createConnection: connects, calls Registered()   *)
(*             and then carries commands to the handler                    *)
(*   worker    the one sendEvent starts for a transition                   *)
(*   sender    the one of processMessages: takes statuses from the channel *)
(* They share the FSM with its event mutex, the lock of the handler, and a *)
(* channel for one status.  The stream to the CM may break at any time,    *)
(* and the process may end at any time.                                    *)
(*                                                                         *)
(* A status is the update state it carries.  What the callbacks of a       *)
(* transition do is the subject of UpdateHandler.  Close() is left out:    *)
(* the process exits right after it.                                       *)
(***************************************************************************)
EXTENDS UpdateEvents, Sequences, Naturals

CONSTANTS
    ChannelSize,  \* statusChannelSize
    MaxInFlight   \* bound on the messages on the stream, each way

ASSUME FlowAssumption ==
    /\ ChannelSize \in Nat \ {0}
    /\ MaxInFlight \in Nat \ {0}

VARIABLES
    fsm,        \* the current state of the FSM
    held,       \* handler.state.UpdateState
    saved,      \* the update state in the database
    worker,     \* where the transition is
    event,      \* the command it carries out, or "none"
    receiver,   \* where the receiver is
    command,    \* the command it hands to the FSM, or "none"
    snapshot,   \* the status Registered() has built, or "none"
    channel,    \* handler.statusChannel
    sender,     \* the status the sender is about to send, or "none"
    link,       \* whether the stream is "up" or "down"
    up,         \* statuses on their way to the CM
    down,       \* commands on their way from the CM
    known,      \* the last status the CM got on this connection, or "none"
    asked,      \* the CM has sent a command since
    patient,    \* whether the CM answers a status with at most one command
    overtaken   \* history: the last status put into the channel was out of date

handler == <<fsm, held, saved, worker, event>>
client  == <<receiver, command, snapshot, channel, sender, overtaken>>
stream  == <<link, up, down, known, asked, patient>>
vars == <<handler, client, stream>>

Statuses == States \cup {"none"}

Init ==
    /\ fsm = "idle"
    /\ held = "idle"
    /\ saved = "idle"
    /\ worker = "none"
    /\ event = "none"
    /\ receiver = "connect"
    /\ command = "none"
    /\ snapshot = "none"
    /\ channel = <<>>
    /\ sender = "none"
    /\ link = "down"
    /\ up = <<>>
    /\ down = <<>>
    /\ known = "none"
    /\ asked = FALSE
    /\ patient \in BOOLEAN
    /\ overtaken = FALSE

-----------------------------------------------------------------------------
(***************************************************************************)
(* The receiver.  register() replaces the stream; Registered() builds a    *)
(* status under the lock of the handler, which it keeps until the channel  *)
(* has taken the status.                                                   *)
(***************************************************************************)
\* Mutant of AfterRegister: a client that reconnects does not report its state.
NothingToReport == "receive"

AfterRegister == "registered"

Register ==
    /\ receiver = "connect"
    /\ link' = "up"
    /\ receiver' = AfterRegister
    /\ UNCHANGED <<handler, command, snapshot, channel, sender, overtaken, up, down, known,
                   asked, patient>>

LockFree == worker # "work" /\ receiver # "report"

Registered ==
    /\ receiver = "registered"
    /\ LockFree
    /\ snapshot' = held
    /\ receiver' = "report"
    /\ UNCHANGED <<handler, command, channel, sender, overtaken, stream>>

\* Mutant of Put: one more status than the channel holds.
PutBeyond(status) ==
    /\ Len(channel) <= ChannelSize
    /\ channel' = Append(channel, status)
    /\ overtaken' = (status # held)

\* Mutant of Put: a status that finds the channel full is dropped.
PutIfRoom(status) ==
    /\ channel' = IF Len(channel) < ChannelSize THEN Append(channel, status) ELSE channel
    /\ overtaken' = (status # held)

Put(status) ==
    /\ Len(channel) < ChannelSize
    /\ channel' = Append(channel, status)
    /\ overtaken' = (status # held)

Report ==
    /\ receiver = "report"
    /\ Put(snapshot)
    /\ snapshot' = "none"
    /\ receiver' = "receive"
    /\ UNCHANGED <<handler, command, sender, stream>>

(***************************************************************************)
(* processGRPCMessages and sendEvent.  The first check does not wait for a *)
(* transition under way, and sees the state it is going to; the event then *)
(* waits for it, and is checked again.  A command that is refused is only  *)
(* logged.                                                                 *)
(***************************************************************************)
Can(e) == worker # "begin" /\ fsm \in Transitions[e].from

Receive ==
    /\ receiver = "receive"
    /\ down # <<>>
    /\ down' = Tail(down)
    /\ IF Can(Head(down))
       THEN command' = Head(down) /\ receiver' = "command"
       ELSE UNCHANGED <<command, receiver>>
    /\ UNCHANGED <<handler, snapshot, channel, sender, overtaken, link, up, known,
                   asked, patient>>

\* Mutant of EventMutexFree: the event does not wait for the end of the transition.
OnlyNotBegun == worker # "begin"

EventMutexFree == worker = "none"

Event ==
    /\ receiver = "command"
    /\ EventMutexFree
    /\ IF fsm \in Transitions[command].from
       THEN event' = command /\ worker' = "begin"
       ELSE UNCHANGED <<event, worker>>
    /\ command' = "none"
    /\ receiver' = "receive"
    /\ UNCHANGED <<fsm, held, saved, snapshot, channel, sender, overtaken, stream>>

\* The messages that arrived before the stream broke are read first.
ConnectionLost ==
    /\ receiver = "receive"
    /\ link = "down"
    /\ down = <<>>
    /\ receiver' = "connect"
    /\ UNCHANGED <<handler, command, snapshot, channel, sender, overtaken, stream>>

-----------------------------------------------------------------------------
(***************************************************************************)
(* The worker.  The callback of the event runs under the lock of the       *)
(* handler; onStateChanged, which follows it, does not.                    *)
(***************************************************************************)
Transition ==
    /\ worker = "begin"
    /\ fsm' = Transitions[event].to
    /\ worker' = "lock"
    /\ UNCHANGED <<held, saved, event, client, stream>>

Lock ==
    /\ worker = "lock"
    /\ LockFree
    /\ worker' = "work"
    /\ UNCHANGED <<fsm, held, saved, event, client, stream>>

Callback ==
    /\ worker = "work"
    /\ fsm' \in {fsm} \cup (IF StopOnError(event) THEN {"failed"} ELSE {})
    /\ worker' = "worked"
    /\ UNCHANGED <<held, saved, event, client, stream>>

OnStateChanged ==
    /\ worker = "worked"
    /\ held' = fsm
    /\ worker' = "changed"
    /\ UNCHANGED <<fsm, saved, event, client, stream>>

SaveState ==
    /\ worker = "changed"
    /\ saved' = held
    /\ worker' = "saved"
    /\ UNCHANGED <<fsm, held, event, client, stream>>

SaveStateFails ==
    /\ worker = "changed"
    /\ held' = "failed"
    /\ fsm' = "failed"
    /\ worker' = "saved"
    /\ UNCHANGED <<saved, event, client, stream>>

\* Only the worker changes held, so the status it builds is never out of date.
SendStatus ==
    /\ worker = "saved"
    /\ Put(held)
    /\ worker' = "none"
    /\ event' = "none"
    /\ UNCHANGED <<fsm, held, saved, receiver, command, snapshot, sender, stream>>

-----------------------------------------------------------------------------
(***************************************************************************)
(* The sender.  A status for a stream that is broken is dropped.           *)
(***************************************************************************)
Take ==
    /\ sender = "none"
    /\ channel # <<>>
    /\ sender' = Head(channel)
    /\ channel' = Tail(channel)
    /\ UNCHANGED <<handler, receiver, command, snapshot, overtaken, stream>>

\* Mutant of Deliver: a status is kept until there is a connection.
KeepUntilConnected ==
    /\ link = "up"
    /\ Len(up) < MaxInFlight
    /\ up' = Append(up, sender)

Deliver ==
    \/ link = "down" /\ UNCHANGED up
    \/ link = "up" /\ Len(up) < MaxInFlight /\ up' = Append(up, sender)

Send ==
    /\ sender # "none"
    /\ Deliver
    /\ sender' = "none"
    /\ UNCHANGED <<handler, receiver, command, snapshot, channel, overtaken, link, down, known,
                   asked, patient>>

-----------------------------------------------------------------------------
(***************************************************************************)
(* The CM takes statuses, and sends commands: a patient one those the last *)
(* status allows, one for each status; an impatient one any, at any time.  *)
(***************************************************************************)
CMStatus ==
    /\ up # <<>>
    /\ known' = Head(up)
    /\ up' = Tail(up)
    /\ asked' = FALSE
    /\ UNCHANGED <<handler, client, link, down, patient>>

CMCommand(e) ==
    /\ link = "up"
    /\ Len(down) < MaxInFlight
    /\ patient => known # "none" /\ known \in Transitions[e].from /\ ~asked
    /\ down' = Append(down, e)
    /\ asked' = TRUE
    /\ UNCHANGED <<handler, client, link, up, known, patient>>

(***************************************************************************)
(* The stream breaks, or is closed because the certificate has changed.    *)
(* Some of the commands on it may have arrived.                            *)
(***************************************************************************)
Break ==
    /\ link = "up"
    /\ link' = "down"
    /\ up' = <<>>
    /\ \E n \in 0 .. Len(down) : down' = SubSeq(down, 1, n)
    /\ known' = "none"
    /\ asked' = FALSE
    /\ UNCHANGED <<handler, client, patient>>

(***************************************************************************)
(* The process ends, most often by the reboot in the middle of an update,  *)
(* and starts again from the database.                                     *)
(***************************************************************************)
Crash ==
    /\ fsm' = saved
    /\ held' = saved
    /\ worker' = "none"
    /\ event' = "none"
    /\ receiver' = "connect"
    /\ command' = "none"
    /\ snapshot' = "none"
    /\ channel' = <<>>
    /\ sender' = "none"
    /\ overtaken' = FALSE
    /\ link' = "down"
    /\ up' = <<>>
    /\ down' = <<>>
    /\ known' = "none"
    /\ asked' = FALSE
    /\ UNCHANGED <<saved, patient>>

-----------------------------------------------------------------------------
Receiver == Registered \/ Report \/ Receive \/ Event \/ ConnectionLost

Worker ==
    Transition \/ Lock \/ Callback \/ OnStateChanged \/ SaveState \/ SaveStateFails \/ SendStatus

Sender == Take \/ Send

Next ==
    \/ Receiver
    \/ Register
    \/ Worker
    \/ Sender
    \/ CMStatus
    \/ \E e \in Events : CMCommand(e)
    \/ Break
    \/ Crash

Spec == Init /\ [][Next]_vars

(***************************************************************************)
(* The goroutines run; one that waits for the lock or the channel gets its *)
(* turn in the end, since Go queues the waiting ones (hence SF).  The CM   *)
(* reads its stream.  Nothing says that a connection is ever made, or that *)
(* the CM sends anything.                                                  *)
(***************************************************************************)
FairSpec ==
    /\ Spec
    /\ SF_vars(Receiver)
    /\ SF_vars(Worker)
    /\ WF_vars(Sender)
    /\ WF_vars(CMStatus)

-----------------------------------------------------------------------------
\* Every variable has its type; who holds a status or a command is where it uses it.
TypeOK ==
    /\ fsm \in States /\ held \in States /\ saved \in States
    /\ worker \in {"none", "begin", "lock", "work", "worked", "changed", "saved"}
    /\ event \in Events \cup {"none"}
    /\ event = "none" <=> worker = "none"
    /\ receiver \in {"connect", "registered", "report", "receive", "command"}
    /\ command \in Events \cup {"none"}
    /\ command = "none" <=> receiver # "command"
    /\ snapshot \in Statuses
    /\ snapshot = "none" <=> receiver # "report"
    /\ channel \in Seq(States) /\ Len(channel) <= ChannelSize
    /\ sender \in Statuses
    /\ link \in {"up", "down"}
    /\ up \in Seq(States) /\ Len(up) <= MaxInFlight
    /\ down \in Seq(Events) /\ Len(down) <= MaxInFlight
    /\ known \in Statuses
    /\ asked \in BOOLEAN
    /\ patient \in BOOLEAN
    /\ overtaken \in BOOLEAN

\* A transition is over for the cycle when its result has been persisted or given up.
Cycle == INSTANCE UpdateCycle WITH
    current <- held,
    event   <- IF worker = "saved" THEN "none" ELSE event

(***************************************************************************)
(* Seen from the CM, commands are carried out one at a time and judged by  *)
(* the state the one before ended in, though the FSM shows the new state   *)
(* from the beginning of a transition on (sendEvent, the event mutex).     *)
(***************************************************************************)
ImplementsCycle == Cycle!Spec

(***************************************************************************)
(* Nothing moves until the CM sends a command or the connection breaks.    *)
(***************************************************************************)
AtRest ==
    /\ link = "up" /\ receiver = "receive"
    /\ worker = "none" /\ sender = "none"
    /\ channel = <<>> /\ up = <<>> /\ down = <<>>

(***************************************************************************)
(* When all is at rest the CM knows the state the handler is in, whatever  *)
(* connections were lost and statuses dropped on the way (createConnection *)
(* calls Registered() after every connection).                             *)
(***************************************************************************)
StatusNotified == AtRest => known = held

\* The one exception: a status that was overtaken on its way to the channel.
CMKnowsState == StatusNotified \/ overtaken

(***************************************************************************)
(* A command of a patient CM is never left without an answer: a command    *)
(* the handler refuses without a word is one it has overtaken with another *)
(* status (sendEvent logs the refusal and sends nothing).                  *)
(***************************************************************************)
NobodyWaits == AtRest /\ patient => ~asked \/ overtaken

(***************************************************************************)
(* Every transition ends, connected or not: neither the lock of the        *)
(* handler nor the channel can hold it up for ever.                        *)
(***************************************************************************)
TransitionEnds == worker # "none" ~> worker = "none"

(***************************************************************************)
(* If the connection holds in the end and no more commands come, the CM    *)
(* gets to know the state and keeps it, unless it was overtaken.           *)
(***************************************************************************)
StatusDelivered ==
    <>[](link = "up" /\ down = <<>>) => <>[](known = held \/ overtaken)
=============================================================================
