-------------------------- MODULE StatusFlowProofs --------------------------
(***************************************************************************)
(* Theorems about StatusFlow, for any size of the channel, any number of   *)
(* messages in flight, and a CM that is patient or not.                    *)
(***************************************************************************)
EXTENDS StatusFlow, SequenceTheorems, TLAPS

\* The channels carry what they are for, and no more than they hold.
LEMMA AppendBounded ==
    ASSUME NEW S, NEW s \in Seq(S), NEW x \in S, NEW n \in Nat, Len(s) < n
    PROVE  Append(s, x) \in Seq(S) /\ Len(Append(s, x)) <= n
BY AppendProperties

\* A shorter sequence is within the bound.
LEMMA TailBounded ==
    ASSUME NEW S, NEW s \in Seq(S), s # <<>>, NEW n \in Nat, Len(s) <= n
    PROVE  Tail(s) \in Seq(S) /\ Len(Tail(s)) <= n /\ Head(s) \in S
BY HeadTailProperties

\* So is the empty one.
LEMMA EmptyBounded ==
    ASSUME NEW S, NEW n \in Nat
    PROVE  <<>> \in Seq(S) /\ Len(<<>>) <= n
BY EmptySeq

\* "none" is neither a state nor a command.
LEMMA NoneIsNone ==
    /\ "none" \notin States
    /\ "none" \notin Events
    /\ \A e \in Events : Transitions[e].to \in States
BY DEF States, Events, Transitions

(***************************************************************************)
(* Every variable has its type: a status or a command is held exactly      *)
(* where it is used, and neither the channel nor the stream overflows.     *)
(***************************************************************************)
THEOREM FlowTypeCorrect == Spec => []TypeOK
<1>1. Init => TypeOK
  <2> SUFFICES ASSUME Init PROVE TypeOK
    OBVIOUS
  <2>1. /\ channel \in Seq(States) /\ Len(channel) <= ChannelSize
        /\ up \in Seq(States) /\ Len(up) <= MaxInFlight
        /\ down \in Seq(Events) /\ Len(down) <= MaxInFlight
    BY EmptyBounded, FlowAssumption DEF Init
  <2> QED
    BY <2>1, NoneIsNone DEF Init, TypeOK, States, Statuses
<1>2. ASSUME TypeOK, [Next]_vars PROVE TypeOK'
  <2> USE <1>2, NoneIsNone, FlowAssumption
  <2>1. ASSUME Register PROVE TypeOK'
    BY <2>1 DEF Register, AfterRegister, handler, TypeOK
  <2>2. ASSUME Registered PROVE TypeOK'
    BY <2>2 DEF Registered, handler, stream, TypeOK, Statuses
  <2>3. ASSUME Report PROVE TypeOK'
    <3>1. snapshot \in States
      BY <2>3 DEF Report, TypeOK, Statuses
    <3>2. channel' \in Seq(States) /\ Len(channel') <= ChannelSize
      BY <2>3, <3>1, AppendBounded DEF Report, Put, TypeOK
    <3> QED
      BY <2>3, <3>2 DEF Report, Put, handler, stream, TypeOK, Statuses
  <2>4. ASSUME Receive PROVE TypeOK'
    <3>1. down' \in Seq(Events) /\ Len(down') <= MaxInFlight /\ Head(down) \in Events
      BY <2>4, TailBounded DEF Receive, TypeOK
    <3> QED
      BY <2>4, <3>1 DEF Receive, handler, TypeOK
  <2>5. ASSUME Event PROVE TypeOK'
    BY <2>5 DEF Event, EventMutexFree, stream, TypeOK
  <2>6. ASSUME ConnectionLost PROVE TypeOK'
    BY <2>6 DEF ConnectionLost, handler, stream, TypeOK
  <2>7. ASSUME Transition \/ Lock \/ Callback PROVE TypeOK'
    BY <2>7 DEF Transition, Lock, Callback, client, stream, TypeOK, States
  <2>8. ASSUME OnStateChanged \/ SaveState \/ SaveStateFails PROVE TypeOK'
    BY <2>8 DEF OnStateChanged, SaveState, SaveStateFails, client, stream, TypeOK, States
  <2>9. ASSUME SendStatus PROVE TypeOK'
    <3>1. channel' \in Seq(States) /\ Len(channel') <= ChannelSize
      BY <2>9, AppendBounded DEF SendStatus, Put, TypeOK
    <3> QED
      BY <2>9, <3>1 DEF SendStatus, Put, stream, TypeOK
  <2>10. ASSUME Take PROVE TypeOK'
    <3>1. channel' \in Seq(States) /\ Len(channel') <= ChannelSize /\ Head(channel) \in States
      BY <2>10, TailBounded DEF Take, TypeOK
    <3> QED
      BY <2>10, <3>1 DEF Take, handler, stream, TypeOK, Statuses
  <2>11. ASSUME Send PROVE TypeOK'
    <3>1. sender \in States
      BY <2>11 DEF Send, TypeOK, Statuses
    <3>2. up' \in Seq(States) /\ Len(up') <= MaxInFlight
      <4>1. up \in Seq(States) /\ Len(up) <= MaxInFlight
        BY DEF TypeOK
      <4>2. CASE UNCHANGED up
        BY <4>1, <4>2
      <4>3. CASE Len(up) < MaxInFlight /\ up' = Append(up, sender)
        BY <3>1, <4>1, <4>3, AppendBounded
      <4> QED
        BY <2>11, <4>2, <4>3 DEF Send, Deliver
    <3> QED
      BY <2>11, <3>2 DEF Send, handler, TypeOK, Statuses
  <2>12. ASSUME CMStatus PROVE TypeOK'
    <3>1. up' \in Seq(States) /\ Len(up') <= MaxInFlight /\ Head(up) \in States
      BY <2>12, TailBounded DEF CMStatus, TypeOK
    <3> QED
      BY <2>12, <3>1 DEF CMStatus, handler, client, TypeOK, Statuses
  <2>13. ASSUME NEW e \in Events, CMCommand(e) PROVE TypeOK'
    <3>1. down' \in Seq(Events) /\ Len(down') <= MaxInFlight
      BY <2>13, AppendBounded DEF CMCommand, TypeOK
    <3> QED
      BY <2>13, <3>1 DEF CMCommand, handler, client, TypeOK
  <2>14. ASSUME Break PROVE TypeOK'
    <3>1. PICK n \in 0 .. Len(down) : down' = SubSeq(down, 1, n)
      BY <2>14 DEF Break
    <3>2. down' \in Seq(Events) /\ Len(down') <= MaxInFlight
      <4>1. down \in Seq(Events) /\ Len(down) \in Nat /\ Len(down) <= MaxInFlight
        BY DEF TypeOK
      <4>2. \A i \in 1 .. n : down[i] \in Events
        BY <4>1
      <4>3. SubSeq(down, 1, n) \in Seq(Events) /\ Len(SubSeq(down, 1, n)) = n
        BY <4>1, <4>2
      <4> QED
        BY <3>1, <4>1, <4>3
    <3>3. up' \in Seq(States) /\ Len(up') <= MaxInFlight
      BY <2>14, EmptyBounded DEF Break
    <3> QED
      BY <2>14, <3>2, <3>3 DEF Break, handler, client, TypeOK, Statuses
  <2>15. ASSUME Crash PROVE TypeOK'
    <3>1. /\ channel' \in Seq(States) /\ Len(channel') <= ChannelSize
          /\ up' \in Seq(States) /\ Len(up') <= MaxInFlight
          /\ down' \in Seq(Events) /\ Len(down') <= MaxInFlight
      BY <2>15, EmptyBounded DEF Crash
    <3> QED
      BY <2>15, <3>1 DEF Crash, TypeOK, Statuses
  <2>16. CASE UNCHANGED vars
    BY <2>16 DEF vars, handler, client, stream, TypeOK
  <2> QED
    BY <2>1, <2>2, <2>3, <2>4, <2>5, <2>6, <2>7, <2>8, <2>9, <2>10, <2>11, <2>12, <2>13,
       <2>14, <2>15, <2>16 DEF Next, Receiver, Worker, Sender
<1> QED
  BY <1>1, <1>2, PTL DEF Spec

-----------------------------------------------------------------------------
(***************************************************************************)
(* Where the FSM is ahead of the handler: from the beginning of a          *)
(* transition until onStateChanged has copied its state.                   *)
(***************************************************************************)
FlowInv ==
    /\ worker \in {"none", "begin", "changed", "saved"} => fsm = held
    /\ worker \in {"lock", "work"} => fsm = Transitions[event].to
    /\ worker = "worked" => fsm \in Results(event)
    /\ worker = "changed" => held \in Results(event)

\* Every step keeps FlowInv, and is a step of the cycle or a stutter.
LEMMA FlowStep ==
    ASSUME TypeOK, FlowInv, [Next]_vars
    PROVE  FlowInv' /\ [Cycle!Next]_(Cycle!vars)
<1> USE NoneIsNone
<1>1. ASSUME Event PROVE FlowInv' /\ [Cycle!Next]_(Cycle!vars)
  <2>1. CASE fsm \in Transitions[command].from
    <3>1. command \in Events /\ worker = "none" /\ event = "none" /\ fsm = held
      BY <1>1 DEF Event, EventMutexFree, TypeOK, FlowInv
    <3>2. FlowInv'
      BY <1>1, <2>1, <3>1 DEF Event, FlowInv
    <3>3. Cycle!Begin(command)
      BY <1>1, <2>1, <3>1 DEF Event, Cycle!Begin, Cycle!Transitions, Transitions
    <3>4. Cycle!Next
      BY <3>1, <3>3 DEF Cycle!Next, Cycle!Events, Cycle!Transitions, Events, Transitions
    <3> QED
      BY <3>2, <3>4
  <2>2. CASE fsm \notin Transitions[command].from
    BY <1>1, <2>2 DEF Event, FlowInv, Cycle!vars
  <2> QED
    BY <2>1, <2>2
<1>2. ASSUME Transition \/ Lock \/ Callback PROVE FlowInv' /\ UNCHANGED Cycle!vars
  BY <1>2 DEF Transition, Lock, Callback, FlowInv, Results, Cycle!vars
<1>3. ASSUME OnStateChanged PROVE FlowInv' /\ Cycle!Next
  <2>1. event \in Events /\ fsm \in Results(event) /\ fsm \in States
    BY <1>3 DEF OnStateChanged, TypeOK, FlowInv
  <2>2. Cycle!Reach(fsm)
    BY <1>3, <2>1 DEF OnStateChanged, Cycle!Reach, Cycle!Results, Cycle!Transitions,
                      Cycle!StopOnError, Results, Transitions, StopOnError
  <2>3. Cycle!Next
    BY <2>1, <2>2 DEF Cycle!Next, Cycle!States, States
  <2> QED
    BY <1>3, <2>1, <2>3 DEF OnStateChanged, FlowInv
<1>4. ASSUME SaveState PROVE FlowInv' /\ Cycle!Next
  <2>1. event \in Events /\ held \in Results(event) /\ held \in States
    BY <1>4 DEF SaveState, TypeOK, FlowInv
  <2>2. Cycle!End(held)
    BY <1>4, <2>1 DEF SaveState, Cycle!End, Cycle!Results, Cycle!Transitions,
                      Cycle!StopOnError, Results, Transitions, StopOnError
  <2>3. Cycle!Next
    BY <2>1, <2>2 DEF Cycle!Next, Cycle!States, States
  <2> QED
    BY <1>4, <2>3 DEF SaveState, FlowInv
<1>5. ASSUME SaveStateFails PROVE FlowInv' /\ Cycle!Next
  <2>1. Cycle!EndUnsaved
    BY <1>5 DEF SaveStateFails, TypeOK, Cycle!EndUnsaved
  <2> QED
    BY <1>5, <2>1 DEF SaveStateFails, FlowInv, Cycle!Next
<1>6. ASSUME SendStatus PROVE FlowInv' /\ UNCHANGED Cycle!vars
  BY <1>6 DEF SendStatus, FlowInv, Cycle!vars
<1>7. ASSUME Crash PROVE FlowInv' /\ Cycle!Next
  BY <1>7 DEF Crash, FlowInv, Cycle!Next, Cycle!Crash
<1>8. ASSUME UNCHANGED handler PROVE FlowInv' /\ UNCHANGED Cycle!vars
  BY <1>8 DEF handler, FlowInv, Cycle!vars
<1>9. Next => \/ Event \/ Transition \/ Lock \/ Callback \/ OnStateChanged \/ SaveState
              \/ SaveStateFails \/ SendStatus \/ Crash \/ UNCHANGED handler
  BY DEF Next, Receiver, Worker, Sender, Register, Registered, Report, Receive,
         ConnectionLost, Take, Send, CMStatus, CMCommand, Break
<1> QED
  BY <1>1, <1>2, <1>3, <1>4, <1>5, <1>6, <1>7, <1>8, <1>9 DEF vars

\* FlowInv is an invariant.
LEMMA FlowInvAlways == Spec => []FlowInv
<1>1. Init => FlowInv
  BY DEF Init, FlowInv
<1>2. TypeOK /\ FlowInv /\ [Next]_vars => FlowInv'
  BY FlowStep
<1> QED
  BY <1>1, <1>2, FlowTypeCorrect, PTL DEF Spec

(***************************************************************************)
(* With all its goroutines, locks, channels and broken connections the     *)
(* handler still looks like the cycle of commands to the CM.               *)
(***************************************************************************)
THEOREM FlowImplementsCycle == Spec => ImplementsCycle
<1>1. Init => Cycle!Init
  BY DEF Init, Cycle!Init
<1>2. TypeOK /\ FlowInv /\ [Next]_vars => [Cycle!Next]_(Cycle!vars)
  BY FlowStep
<1> QED
  BY <1>1, <1>2, FlowTypeCorrect, FlowInvAlways, PTL DEF Spec, ImplementsCycle, Cycle!Spec

-----------------------------------------------------------------------------
(***************************************************************************)
(* The newest status on its way to the CM, or the one it has.              *)
(***************************************************************************)
OnItsWay == channel # <<>> \/ sender # "none" \/ up # <<>>

Newest ==
    IF channel # <<>> THEN channel[Len(channel)]
    ELSE IF sender # "none" THEN sender
    ELSE IF up # <<>> THEN up[Len(up)]
    ELSE known

\* A status will be put into the channel before all is at rest.
Owed == worker \in {"changed", "saved"} \/ receiver \in {"connect", "registered", "report"}

(***************************************************************************)
(* As long as the connection holds and no status is owed, the newest one   *)
(* is the state of the handler, or it was overtaken.                       *)
(***************************************************************************)
NewestInv == link = "up" => Newest = held \/ overtaken \/ Owed

\* What a status does to the newest one at each place on its way.
LEMMA NewestPut ==
    ASSUME TypeOK, NEW status, Put(status)
    PROVE  /\ channel' # <<>>
           /\ Newest' = status
           /\ overtaken' = (status # held)
<1>1. channel \in Seq(States) /\ channel' = Append(channel, status)
  BY DEF Put, TypeOK
<1>2. Len(channel') = Len(channel) + 1 /\ channel'[Len(channel) + 1] = status /\ channel' # <<>>
  BY <1>1
<1> QED
  BY <1>2 DEF Put, Newest

\* Taking the first message leaves the last one where it is.
LEMMA LastOfTail ==
    ASSUME NEW S, NEW s \in Seq(S), s # <<>>
    PROVE  /\ Tail(s) = <<>> => s[Len(s)] = Head(s)
           /\ Tail(s) # <<>> => Tail(s)[Len(Tail(s))] = s[Len(s)]
<1>1. Len(s) \in Nat \ {0} /\ Len(Tail(s)) = Len(s) - 1
  BY HeadTailProperties, EmptySeq
<1>2. \A i \in 1 .. Len(Tail(s)) : Tail(s)[i] = s[i + 1]
  BY HeadTailProperties, <1>1
<1>3. CASE Tail(s) = <<>>
  BY <1>1, <1>3
<1>4. CASE Tail(s) # <<>>
  <2>1. Tail(s) \in Seq(S)
    BY HeadTailProperties
  <2>2. Len(Tail(s)) # 0
    <3>1. \A t \in Seq(S) : Len(t) = 0 => t = <<>>
      BY EmptySeq
    <3> QED
      BY <1>4, <2>1, <3>1
  <2> QED
    BY <1>1, <1>2, <1>4, <2>2
<1> QED
  BY <1>3, <1>4

(***************************************************************************)
(* NewestInv is an invariant.                                              *)
(***************************************************************************)
LEMMA NewestInvAlways == Spec => []NewestInv
<1>1. Init => NewestInv
  BY DEF Init, NewestInv
<1>2. TypeOK /\ NewestInv /\ [Next]_vars => NewestInv'
  <2> SUFFICES ASSUME TypeOK, NewestInv, [Next]_vars PROVE NewestInv'
    OBVIOUS
  <2> USE DEF NewestInv
  <2>1. ASSUME UNCHANGED <<channel, sender, up, known, held, overtaken, link>>, Owed => Owed'
        PROVE  NewestInv'
    BY <2>1 DEF Newest
  <2>2. ASSUME Register \/ Registered \/ ConnectionLost \/ OnStateChanged \/ SaveState \/ SaveStateFails
        PROVE  NewestInv'
    BY <2>2 DEF Register, AfterRegister, Registered, ConnectionLost, OnStateChanged, SaveState,
                SaveStateFails, Owed
  <2>3. ASSUME Receive \/ Event \/ Transition \/ Lock \/ Callback \/ \E e \in Events : CMCommand(e)
        PROVE  NewestInv'
    <3>1. UNCHANGED <<channel, sender, up, known, held, overtaken, link>>
      BY <2>3 DEF Receive, Event, Transition, Lock, Callback, CMCommand, handler, client, stream
    <3>2. /\ UNCHANGED worker \/ worker \in {"none", "begin", "lock", "work"}
          /\ UNCHANGED receiver \/ receiver \in {"receive", "command"}
      BY <2>3 DEF Receive, Event, EventMutexFree, Transition, Lock, Callback, CMCommand,
                  handler, client
    <3> QED
      BY <2>1, <3>1, <3>2 DEF Owed
  <2>4. ASSUME Report PROVE NewestInv'
    <3>1. Newest' = snapshot /\ overtaken' = (snapshot # held) /\ held' = held
      BY <2>4, NewestPut DEF Report, handler
    <3> QED
      BY <3>1
  <2>5. ASSUME SendStatus PROVE NewestInv'
    <3>1. Newest' = held /\ held' = held
      BY <2>5, NewestPut DEF SendStatus
    <3> QED
      BY <3>1
  <2>6. ASSUME Take PROVE NewestInv'
    <3>1. Newest' = Newest
      <4>1. channel \in Seq(States) /\ channel # <<>> /\ channel' = Tail(channel)
            /\ sender' = Head(channel) /\ Head(channel) \in States
        BY <2>6, TailBounded DEF Take, TypeOK
      <4>2. sender' # "none"
        BY <4>1, NoneIsNone
      <4> QED
        BY <4>1, <4>2, LastOfTail DEF Newest
    <3> QED
      BY <2>6, <3>1 DEF Take, handler, stream, Owed
  <2>7. ASSUME Send PROVE NewestInv'
    <3>1. CASE link = "down"
      BY <2>7, <3>1 DEF Send
    <3>2. CASE link # "down"
      <4>1. up \in Seq(States) /\ sender \in States /\ sender # "none"
        BY <2>7 DEF Send, TypeOK, Statuses
      <4>2. up' = Append(up, sender) /\ sender' = "none" /\ UNCHANGED <<channel, known, held, overtaken, link, worker, receiver>>
        BY <2>7, <3>2 DEF Send, Deliver, handler
      <4>3. up' # <<>> /\ up'[Len(up')] = sender
        BY <4>1, <4>2
      <4>4. Newest' = Newest
        BY <4>1, <4>2, <4>3 DEF Newest
      <4> QED
        BY <4>2, <4>4 DEF Owed
    <3> QED
      BY <3>1, <3>2
  <2>8. ASSUME CMStatus PROVE NewestInv'
    <3>1. Newest' = Newest
      <4>1. up \in Seq(States) /\ up # <<>> /\ up' = Tail(up) /\ known' = Head(up)
            /\ UNCHANGED <<channel, sender>>
        BY <2>8 DEF CMStatus, TypeOK, client
      <4> QED
        BY <4>1, LastOfTail DEF Newest
    <3> QED
      BY <2>8, <3>1 DEF CMStatus, handler, client, Owed
  <2>9. ASSUME Break \/ Crash PROVE NewestInv'
    BY <2>9 DEF Break, Crash
  <2>10. CASE UNCHANGED vars
    BY <2>1, <2>10 DEF vars, handler, client, stream, Owed
  <2> QED
    BY <2>2, <2>3, <2>4, <2>5, <2>6, <2>7, <2>8, <2>9, <2>10 DEF Next, Receiver, Worker, Sender
<1> QED
  BY <1>1, <1>2, FlowTypeCorrect, PTL DEF Spec

(***************************************************************************)
(* When all is at rest the CM knows the state of the handler, unless a     *)
(* status was overtaken on its way to the channel (createConnection,       *)
(* Registered).                                                            *)
(***************************************************************************)
THEOREM CMKnowsStateAlways == Spec => []CMKnowsState
<1>1. NewestInv => CMKnowsState
  BY DEF NewestInv, CMKnowsState, StatusNotified, AtRest, Newest, Owed
<1> QED
  BY <1>1, NewestInvAlways, PTL

-----------------------------------------------------------------------------
(***************************************************************************)
(* A command a patient CM waits for an answer to is on its way, fits the   *)
(* state the CM knows, and once it has arrived is followed by a status.    *)
(***************************************************************************)
AnswerInv ==
    /\ asked => link = "up"
    /\ patient /\ asked =>
        /\ down # <<>> => known \in Transitions[down[Len(down)]].from
        /\ down = <<>> /\ receiver = "command" => known \in Transitions[command].from
        /\ down = <<>> /\ receiver # "command" =>
                OnItsWay \/ overtaken \/ worker # "none" \/ Owed

\* A command that fits the state the CM knows is only refused if the CM is about to learn another.
LEMMA RefusedIsAnswered ==
    ASSUME FlowInv, NewestInv, link = "up", NEW e, known \in Transitions[e].from,
           ~Can(e) \/ (worker = "none" /\ fsm \notin Transitions[e].from)
    PROVE  OnItsWay \/ overtaken \/ worker # "none" \/ Owed
<1> SUFFICES ASSUME worker = "none", ~Owed, ~overtaken PROVE OnItsWay
  OBVIOUS
<1>1. fsm \notin Transitions[e].from /\ fsm = held
  BY DEF Can, FlowInv
<1>2. Newest = held /\ held # known
  BY <1>1 DEF NewestInv
<1> QED
  BY <1>2 DEF Newest, OnItsWay

(***************************************************************************)
(* AnswerInv is an invariant.                                              *)
(***************************************************************************)
LEMMA AnswerInvAlways == Spec => []AnswerInv
<1>1. Init => AnswerInv
  BY DEF Init, AnswerInv
<1>2. TypeOK /\ FlowInv /\ NewestInv /\ AnswerInv /\ [Next]_vars => AnswerInv'
  <2> SUFFICES ASSUME TypeOK, FlowInv, NewestInv, AnswerInv, [Next]_vars PROVE AnswerInv'
    OBVIOUS
  <2>0. down \in Seq(Events)
    BY DEF TypeOK
  <2>1. ASSUME UNCHANGED <<link, asked, patient, known, down, command, receiver>>,
               (OnItsWay \/ overtaken \/ worker # "none" \/ Owed) =>
               (OnItsWay \/ overtaken \/ worker # "none" \/ Owed)'
        PROVE  AnswerInv'
    BY <2>1 DEF AnswerInv
  <2>2. ASSUME Register \/ Registered \/ ConnectionLost PROVE AnswerInv'
    <3>1. /\ Owed' /\ receiver' # "command" /\ receiver # "command"
          /\ asked' => asked
          /\ link' = link \/ link' = "up"
          /\ UNCHANGED <<patient, known, down>>
      BY <2>2 DEF Register, AfterRegister, Registered, ConnectionLost, handler, client, stream, Owed
    <3> QED
      BY <3>1 DEF AnswerInv
  <2>3. ASSUME Report PROVE AnswerInv'
    <3>1. /\ channel' # <<>> /\ receiver # "command" /\ receiver' # "command"
          /\ UNCHANGED <<link, asked, patient, known, down>>
      BY <2>3, NewestPut DEF Report, handler, stream
    <3> QED
      BY <3>1 DEF AnswerInv, OnItsWay
  <2>4. ASSUME Receive PROVE AnswerInv'
    <3>1. /\ down # <<>> /\ down' = Tail(down) /\ receiver = "receive"
          /\ UNCHANGED <<link, asked, patient, known, worker, channel, sender, up, overtaken>>
          /\ \/ command' = Head(down) /\ receiver' = "command"
             \/ receiver' = "receive" /\ ~Can(Head(down))
      BY <2>4 DEF Receive, handler
    <3>2. CASE ~(patient /\ asked)
      BY <3>1, <3>2 DEF AnswerInv
    <3>3. CASE patient /\ asked
      <4>1. link = "up" /\ known \in Transitions[down[Len(down)]].from
        BY <3>1, <3>3 DEF AnswerInv
      <4>2. down' # <<>> => down'[Len(down')] = down[Len(down)]
        BY <2>0, <3>1, LastOfTail
      <4>3. down' = <<>> => known \in Transitions[Head(down)].from
        BY <2>0, <3>1, <4>1, LastOfTail
      <4>4. down' = <<>> /\ receiver' = "receive" => (OnItsWay \/ overtaken \/ worker # "none" \/ Owed)
        BY <3>1, <4>1, <4>3, RefusedIsAnswered
      <4>5. (OnItsWay \/ overtaken \/ worker # "none") => (OnItsWay \/ overtaken \/ worker # "none")'
        BY <3>1 DEF OnItsWay
      <4>6. receiver' = "receive" => (Owed => Owed')
        BY <3>1 DEF Owed
      <4> QED
        BY <3>1, <4>1, <4>2, <4>3, <4>4, <4>5, <4>6 DEF AnswerInv
    <3> QED
      BY <3>2, <3>3
  <2>5. ASSUME Event PROVE AnswerInv'
    <3>1. /\ receiver = "command" /\ receiver' = "receive" /\ worker = "none"
          /\ UNCHANGED <<link, asked, patient, known, down, channel, sender, up, overtaken>>
          /\ \/ worker' = "begin"
             \/ worker' = worker /\ fsm \notin Transitions[command].from
      BY <2>5 DEF Event, EventMutexFree, stream
    <3>2. CASE ~(patient /\ asked)
      BY <3>1, <3>2 DEF AnswerInv
    <3>3. CASE patient /\ asked
      <4>1. link = "up" /\ (down = <<>> => known \in Transitions[command].from)
        BY <3>1, <3>3 DEF AnswerInv
      <4>2. down = <<>> /\ worker' = worker => (OnItsWay \/ overtaken \/ worker # "none" \/ Owed)
        BY <3>1, <4>1, RefusedIsAnswered
      <4>3. ~Owed
        BY <3>1 DEF Owed
      <4> QED
        BY <3>1, <4>1, <4>2, <4>3 DEF AnswerInv, OnItsWay
    <3> QED
      BY <3>2, <3>3
  <2>6. ASSUME Transition \/ Lock \/ Callback \/ OnStateChanged \/ SaveState \/ SaveStateFails
        PROVE  AnswerInv'
    <3>1. UNCHANGED <<client, stream>> /\ worker' # "none"
      BY <2>6 DEF Transition, Lock, Callback, OnStateChanged, SaveState, SaveStateFails
    <3> QED
      BY <2>1, <3>1 DEF client, stream
  <2>7. ASSUME SendStatus PROVE AnswerInv'
    <3>1. channel' # <<>> /\ UNCHANGED <<receiver, command, stream>>
      BY <2>7, NewestPut DEF SendStatus
    <3> QED
      BY <2>1, <3>1 DEF stream, OnItsWay
  <2>8. ASSUME Take PROVE AnswerInv'
    <3>1. sender' # "none" /\ UNCHANGED <<receiver, command, stream>>
      BY <2>8, TailBounded, NoneIsNone DEF Take, TypeOK
    <3> QED
      BY <2>1, <3>1 DEF stream, OnItsWay
  <2>9. ASSUME Send PROVE AnswerInv'
    <3>1. CASE link = "down"
      BY <2>9, <3>1 DEF Send, AnswerInv
    <3>2. CASE link # "down"
      <4>1. up \in Seq(States) /\ up' = Append(up, sender)
            /\ UNCHANGED <<link, asked, patient, known, down, command, receiver>>
        BY <2>9, <3>2 DEF Send, Deliver, TypeOK
      <4>2. up' # <<>>
        BY <4>1
      <4> QED
        BY <2>1, <4>1, <4>2 DEF OnItsWay
    <3> QED
      BY <3>1, <3>2
  <2>10. ASSUME CMStatus \/ Break \/ Crash PROVE AnswerInv'
    BY <2>10 DEF CMStatus, Break, Crash, AnswerInv
  <2>11. ASSUME NEW e \in Events, CMCommand(e) PROVE AnswerInv'
    <3>1. /\ link' = "up" /\ down' = Append(down, e) /\ known' = known /\ patient' = patient
          /\ patient => known \in Transitions[e].from
      BY <2>11 DEF CMCommand
    <3>2. down' # <<>> /\ down'[Len(down')] = e
      BY <2>0, <3>1
    <3> QED
      BY <3>1, <3>2 DEF AnswerInv
  <2>12. CASE UNCHANGED vars
    BY <2>1, <2>12 DEF vars, handler, client, stream, OnItsWay, Owed
  <2> QED
    BY <2>2, <2>3, <2>4, <2>5, <2>6, <2>7, <2>8, <2>9, <2>10, <2>11, <2>12
    DEF Next, Receiver, Worker, Sender
<1> QED
  BY <1>1, <1>2, FlowTypeCorrect, FlowInvAlways, NewestInvAlways, PTL DEF Spec

(***************************************************************************)
(* No command of a patient CM is left without an answer, unless a status   *)
(* was overtaken (sendEvent).                                              *)
(***************************************************************************)
THEOREM NobodyWaitsAlways == Spec => []NobodyWaits
<1>1. AnswerInv => NobodyWaits
  BY DEF AnswerInv, NobodyWaits, AtRest, OnItsWay, Owed
<1> QED
  BY <1>1, AnswerInvAlways, PTL

=============================================================================
