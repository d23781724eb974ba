------------------------- MODULE Stm32ServiceProofs -------------------------
(***************************************************************************)
(* Theorems about Stm32Service for any capacities and any number of        *)
(* commands, frames and sessions.                                          *)
(***************************************************************************)
EXTENDS Stm32Service, SequenceTheorems, FiniteSetTheorems, TLAPS

\* The serial thread: it has a command in hand from taking it until it is
\* answered, and once the port is gone no command waits.
Holding == {"write", "sent", "unknown"}

PortOK ==
  /\ serial.pc \in {"read", "frames"} \cup Holding => serial.open
  /\ online => serial.open /\ serial.pc # "done"
  /\ serial.open => serial.session > 0
  /\ ~serial.open /\ serial.pc # "done" => commands = <<>>
  /\ serial.hand = NoCommand <=> serial.pc \notin Holding

\* The MQTT thread: once the connection is gone no command waits either.
ConnectionOK ==
  /\ mqtt.pc \in {"receive", "messages", "reading", "event", "pop"} => mqtt.connected
  /\ mqtt.connected => mqtt.session > 0
  /\ ~mqtt.connected /\ mqtt.pc # "done" => commands = <<>>

\* Commands are numbered as they come.
NumbersOK ==
  /\ written \in 0..Len(answers)
  /\ serial.hand.n <= Len(answers)
  /\ \A i \in DOMAIN commands : commands[i].n <= Len(answers)

CommandsOK ==
  /\ TypeOK /\ PortOK /\ ConnectionOK /\ NumbersOK
  /\ CommandsAreNeverReplayed
  /\ ExactlyOneAnswer

\* An event that is about to be popped has been published.
EventsOK ==
  /\ TypeOK
  /\ mqtt.pc = "pop" => mqtt.event \in delivered
  /\ NoEventIsSkipped

-----------------------------------------------------------------------------
\* event() called count times: nothing that waited or is new goes untraced.
LEMMA RaiseProperties ==
  ASSUME events \in Seq(1..nextEvent), nextEvent \in Nat, NEW count \in Nat, Raise(count)
  PROVE  /\ nextEvent' \in Nat /\ nextEvent <= nextEvent'
         /\ events' \in Seq(1..nextEvent') /\ Len(events') <= EventCapacity
         /\ displaced \subseteq displaced'
         /\ \A e \in 1..nextEvent' :
              e > nextEvent \/ (\E i \in DOMAIN events : events[i] = e) =>
                e \in displaced' \cup {events'[i] : i \in DOMAIN events'}
<1> DEFINE new == [i \in 1..count |-> nextEvent + i]
           all == events \o new
           excess == IF Len(all) > EventCapacity THEN Len(all) - EventCapacity ELSE 0
<1>1. nextEvent' = nextEvent + count
  BY DEF Raise
<1>2. new \in Seq(1..nextEvent') /\ Len(new) = count
  BY <1>1
<1>3. events \in Seq(1..nextEvent')
  BY <1>1, SeqMonotonic
<1>4. Len(events) \in Nat /\ DOMAIN events = 1..Len(events)
  BY LenProperties
<1>5. /\ all \in Seq(1..nextEvent') /\ Len(all) = Len(events) + count
      /\ \A i \in 1..Len(events) : all[i] = events[i]
      /\ \A i \in 1..count : all[Len(events) + i] = nextEvent + i
  <2>1. /\ all \in Seq(1..nextEvent') /\ Len(all) = Len(events) + Len(new)
        /\ \A i \in 1..Len(events) + Len(new) :
             all[i] = IF i <= Len(events) THEN events[i] ELSE new[i - Len(events)]
    BY <1>2, <1>3, ConcatProperties
  <2>2. \A i \in 1..count : all[Len(events) + i] = new[i]
    <3> HIDE DEF all, new
    <3> QED BY <2>1, <1>2, <1>4
  <2>3. \A i \in 1..Len(events) : all[i] = events[i]
    <3> HIDE DEF all, new
    <3> QED BY <2>1, <1>2, <1>4
  <2> QED
    BY <2>1, <2>2, <2>3, <1>2
<1>6. /\ events' = SubSeq(all, excess + 1, Len(all))
      /\ displaced' = displaced \cup {all[i] : i \in 1..excess}
  BY DEF Raise
<1> HIDE DEF new, all
<1>7. excess \in 0..Len(all) /\ Len(all) \in Nat /\ Len(all) - excess <= EventCapacity
  BY <1>4, <1>5, Stm32Assumption
<1> HIDE DEF excess
<1>8. /\ events' \in Seq(1..nextEvent')
      /\ Len(events') = Len(all) - excess
      /\ \A i \in 1..Len(all) - excess : events'[i] = all[excess + i]
  <2>1. \A i \in (excess + 1)..Len(all) : all[i] \in 1..nextEvent'
    <3>1. \A i \in 1..Len(all) : all[i] \in 1..nextEvent'
      BY <1>5, ElementOfSeq
    <3> QED
      BY <3>1, <1>7
  <2>2. /\ events' \in Seq(1..nextEvent')
        /\ Len(events') = IF excess + 1 <= Len(all) THEN Len(all) - (excess + 1) + 1 ELSE 0
        /\ \A i \in 1..Len(all) - (excess + 1) + 1 : events'[i] = all[(excess + 1) + i - 1]
    BY <2>1, <1>6, <1>7, SubSeqProperties
  <2> QED
    BY <2>2, <1>7
<1>9. ASSUME NEW j \in 1..Len(all)
      PROVE  all[j] \in displaced' \cup {events'[i] : i \in DOMAIN events'}
  <2>1. CASE j <= excess
    BY <2>1, <1>6
  <2>2. CASE j > excess
    <3>1. j - excess \in 1..Len(all) - excess /\ events'[j - excess] = all[j]
      BY <2>2, <1>7, <1>8
    <3>2. j - excess \in DOMAIN events'
      BY <3>1, <1>8, LenProperties
    <3> QED
      BY <3>1, <3>2
  <2> QED
    BY <2>1, <2>2, <1>7
<1>10. ASSUME NEW e \in 1..nextEvent', e > nextEvent
       PROVE  \E j \in 1..Len(all) : all[j] = e
  <2>1. e - nextEvent \in 1..count
    BY <1>1, <1>10
  <2>2. all[Len(events) + (e - nextEvent)] = nextEvent + (e - nextEvent)
    BY <2>1, <1>5
  <2>3. Len(events) + (e - nextEvent) \in 1..Len(all) /\ nextEvent + (e - nextEvent) = e
    BY <2>1, <1>1, <1>4, <1>5
  <2> QED
    BY <2>2, <2>3
<1>11. \A i \in DOMAIN events : \E j \in 1..Len(all) : all[j] = events[i]
  BY <1>4, <1>5
<1>12. ASSUME NEW e \in 1..nextEvent',
              e > nextEvent \/ (\E i \in DOMAIN events : events[i] = e)
       PROVE  e \in displaced' \cup {events'[i] : i \in DOMAIN events'}
  <2>1. PICK j \in 1..Len(all) : all[j] = e
    BY <1>10, <1>11, <1>12
  <2> QED
    BY <2>1, <1>9
<1>13. nextEvent' \in Nat /\ nextEvent <= nextEvent' /\ Len(events') <= EventCapacity
  BY <1>1, <1>7, <1>8
<1> QED
  BY <1>6, <1>8, <1>12, <1>13

LEMMA NumbersAreFinite ==
  ASSUME TypeOK
  PROVE  Numbers(commands) \subseteq 1..MaxCommands /\ Cardinality(Numbers(commands)) \in Nat
<1>1. \A i \in DOMAIN commands : commands[i] \in Command
  BY ElementOfSeq, LenProperties DEF TypeOK
<1>2. Numbers(commands) \in SUBSET (1..MaxCommands)
  BY <1>1 DEF Numbers, Command
<1>3. IsFiniteSet(1..MaxCommands)
  BY FS_Interval, Stm32Assumption
<1> QED
  BY <1>2, <1>3, FS_Subset, FS_CardinalityType

LEMMA OneIsFinite == \A n : Cardinality({n}) \in Nat
<1> TAKE n
<1>1. Cardinality({n}) = 1
  BY FS_Singleton
<1> QED
  BY <1>1

\* result() for some commands: they count one result more, nothing else changes.
LEMMA AnswerProperties ==
  ASSUME TypeOK, NEW ns, Cardinality(ns) \in Nat, Answer(ns)
  PROVE  /\ answers' \in Seq(Nat) /\ Len(answers') = Len(answers)
         /\ DOMAIN answers' = DOMAIN answers
         /\ \A n \in DOMAIN answers :
              answers'[n] = IF n \in ns THEN answers[n] + 1 ELSE answers[n]
         /\ Raise(Cardinality(ns))
<1>1. /\ Len(answers) \in Nat /\ DOMAIN answers = 1..Len(answers)
      /\ \A n \in DOMAIN answers : answers[n] \in Nat
  BY LenProperties, ElementOfSeq DEF TypeOK
<1>2. answers' = [n \in 1..Len(answers) |-> IF n \in ns THEN answers[n] + 1 ELSE answers[n]]
  BY <1>1 DEF Answer
<1>3. answers' \in [1..Len(answers) -> Nat]
  BY <1>1, <1>2
<1>4. answers' \in Seq(Nat) /\ Len(answers') = Len(answers)
  BY <1>1, <1>3
<1> QED
  BY <1>1, <1>2, <1>4 DEF Answer

-----------------------------------------------------------------------------
LEMMA StartsOK == Init => CommandsOK /\ EventsOK
<1> SUFFICES ASSUME Init PROVE CommandsOK /\ EventsOK
  OBVIOUS
<1>1. /\ <<>> \in Seq(Command) /\ <<>> \in Seq(Nat) /\ <<>> \in Seq(1..nextEvent)
      /\ Len(commands) = 0 /\ Len(events) = 0 /\ Len(answers) = 0
      /\ DOMAIN commands = {} /\ DOMAIN answers = {}
  BY EmptySeq DEF Init
<1>2. TypeOK
  <2>1. MaxSessions \in Nat /\ MaxFrames \in Nat /\ MaxCommands \in Nat
    BY Stm32Assumption
  <2>2. serial \in SerialState /\ mqtt \in MqttState
    BY <2>1 DEF Init, SerialState, MqttState
  <2>3. samples \in 0..MaxFrames /\ sample \in [gen : 0..samples, fresh : BOOLEAN]
    BY <2>1 DEF Init, NoSample
  <2>4. /\ commands \in Seq(Command) /\ events \in Seq(1..nextEvent) /\ answers \in Seq(Nat)
        /\ Len(commands) <= CommandCapacity /\ Len(events) <= EventCapacity
        /\ Len(answers) <= MaxCommands
    <3>1. Len(commands) = 0 /\ Len(events) = 0 /\ Len(answers) = 0
      BY <1>1
    <3>2. 0 <= CommandCapacity /\ 0 <= EventCapacity /\ 0 <= MaxCommands
      BY Stm32Assumption
    <3>3. commands \in Seq(Command) /\ events \in Seq(1..nextEvent) /\ answers \in Seq(Nat)
      BY <1>1 DEF Init
    <3> QED
      BY <3>1, <3>2, <3>3
  <2>5. /\ online \in BOOLEAN /\ stop \in BOOLEAN
        /\ nextEvent \in Nat /\ acks \in 0..MaxFrames
    <3>1. online = FALSE /\ stop = FALSE /\ nextEvent = 0 /\ acks = 0
      BY DEF Init
    <3>2. online \in BOOLEAN /\ stop \in BOOLEAN
      BY <3>1
    <3>3. 0 \in Nat /\ 0 \in 0..MaxFrames
      BY <2>1
    <3> QED
      BY <3>1, <3>2, <3>3
  <2> QED
    BY <2>2, <2>3, <2>4, <2>5 DEF TypeOK
<1>3. PortOK /\ ConnectionOK /\ NumbersOK
  BY <1>1 DEF Init, PortOK, ConnectionOK, NumbersOK, Holding, NoCommand
<1>4. CommandsAreNeverReplayed /\ ExactlyOneAnswer
  BY <1>1 DEF Init, CommandsAreNeverReplayed, ExactlyOneAnswer
<1>5. EventsOK
  BY <1>2 DEF Init, EventsOK, NoEventIsSkipped
<1> QED
  BY <1>2, <1>3, <1>4, <1>5 DEF CommandsOK

\* Events and results change no other type; the MQTT thread's event stays valid.
LEMMA RaiseKeepsTypes ==
  ASSUME TypeOK, NEW count \in Nat, Raise(count), UNCHANGED <<mqtt, samples>>
  PROVE  /\ nextEvent' \in Nat
         /\ events' \in Seq(1..nextEvent') /\ Len(events') <= EventCapacity
         /\ mqtt' \in MqttState' /\ samples' \in 0..MaxFrames
<1>1. /\ nextEvent' \in Nat /\ nextEvent <= nextEvent' /\ nextEvent \in Nat
      /\ events' \in Seq(1..nextEvent') /\ Len(events') <= EventCapacity
  BY RaiseProperties DEF TypeOK
<1>2. mqtt' \in MqttState'
  BY <1>1 DEF TypeOK, MqttState
<1> QED
  BY <1>1, <1>2 DEF TypeOK

LEMMA AnswersKeepTypes ==
  ASSUME TypeOK, NEW ns, Cardinality(ns) \in Nat, Answer(ns),
         UNCHANGED <<mqtt, samples, stop, acks>>,
         serial' \in SerialState, online' \in BOOLEAN,
         sample' \in [gen : 0..samples, fresh : BOOLEAN],
         commands' \in Seq(Command), Len(commands') <= CommandCapacity
  PROVE  TypeOK'
<1>1. answers' \in Seq(Nat) /\ Len(answers') = Len(answers) /\ Raise(Cardinality(ns))
  BY AnswerProperties
<1>2. /\ nextEvent' \in Nat
      /\ events' \in Seq(1..nextEvent') /\ Len(events') <= EventCapacity
      /\ mqtt' \in MqttState' /\ samples' \in 0..MaxFrames
  BY <1>1, RaiseKeepsTypes
<1>3. serial' \in SerialState'
  BY DEF SerialState
<1>4. stop' \in BOOLEAN /\ acks' \in 0..MaxFrames /\ Len(answers') <= MaxCommands
  BY <1>1 DEF TypeOK
<1> QED
  BY <1>1, <1>2, <1>3, <1>4 DEF TypeOK

SerialStep ==
  \/ SerialOpen \/ SerialRead \/ RecordSample \/ RecordAck
  \/ TakeCommand \/ TakeNothing \/ WriteCommand \/ AnswerWrite
  \/ SerialCaught \/ SerialEnd

MqttStep ==
  \/ MqttConnect \/ MqttReceive \/ Enqueue \/ Reject \/ MqttPick
  \/ PublishReading \/ PublishEvent \/ PopEvent \/ MqttCaught \/ MqttEnd

LEMMA SerialKeepsTypes == TypeOK /\ SerialStep => TypeOK'
<1> SUFFICES ASSUME TypeOK, SerialStep PROVE TypeOK'
  OBVIOUS
<1> USE DEF Serial, eventVars, historyVars, NoSample, SerialState, MqttState
<1>0. /\ MaxSessions \in Nat /\ MaxFrames \in Nat
      /\ serial \in SerialState /\ online \in BOOLEAN /\ samples \in 0..MaxFrames
      /\ sample \in [gen : 0..samples, fresh : BOOLEAN]
  BY Stm32Assumption DEF TypeOK
<1>1. CASE SerialOpen
  <2>0. serial.session < MaxSessions => serial.session + 1 \in 0..MaxSessions
    BY <1>0
  <2>1. serial' \in SerialState
    BY <1>0, <1>1, <2>0 DEF SerialOpen
  <2>2. online' \in BOOLEAN /\ (sample' = NoSample \/ sample' = sample)
    BY <1>0, <1>1 DEF SerialOpen
  <2>3. NoSample \in [gen : 0..samples, fresh : BOOLEAN]
    BY <1>0
  <2> QED
    BY <1>0, <1>1, <2>1, <2>2, <2>3 DEF SerialOpen, TypeOK
<1>2. CASE SerialRead
  BY <1>2 DEF SerialRead, TypeOK
<1>3. CASE RecordSample
  BY <1>0, <1>3 DEF RecordSample, TypeOK
<1>4. CASE RecordAck
  <2>1. Raise(1) /\ acks' \in 0..MaxFrames
    BY <1>0, <1>4 DEF RecordAck, TypeOK
  <2> QED
    BY <1>4, <2>1, RaiseKeepsTypes DEF RecordAck, TypeOK
<1>5. CASE TakeCommand
  <2>1. /\ Head(commands) \in Command /\ commands' \in Seq(Command)
        /\ Len(commands') = Len(commands) - 1 /\ Len(commands) \in Nat
    BY <1>5, HeadTailProperties, LenProperties DEF TakeCommand, TypeOK
  <2>2. Len(commands') <= CommandCapacity
    BY <2>1, Stm32Assumption DEF TypeOK
  <2>3. CASE Online
    BY <1>5, <2>1, <2>2, <2>3 DEF TakeCommand, TypeOK
  <2>4. CASE ~Online
    <3>1. Answer({Head(commands).n}) /\ Cardinality({Head(commands).n}) = 1
      BY <1>5, <2>4, FS_Singleton DEF TakeCommand
    <3>2. serial' \in SerialState
      BY <1>5, <2>4 DEF TakeCommand, TypeOK
    <3>3. UNCHANGED <<mqtt, online, sample, samples, stop, acks>>
      BY <1>5 DEF TakeCommand
    <3>4. online' \in BOOLEAN /\ sample' \in [gen : 0..samples, fresh : BOOLEAN]
      BY <3>3 DEF TypeOK
    <3> QED
      BY <2>1, <2>2, <3>1, <3>2, <3>3, <3>4, AnswersKeepTypes
  <2> QED
    BY <2>3, <2>4
<1>6. CASE TakeNothing
  BY <1>6 DEF TakeNothing, TypeOK
<1>7. CASE WriteCommand
  BY <1>7 DEF WriteCommand, TypeOK
<1>8. CASE AnswerWrite
  <2>1. Answer({serial.hand.n}) /\ Cardinality({serial.hand.n}) = 1
    BY <1>8, FS_Singleton DEF AnswerWrite
  <2>2. serial' \in SerialState
    BY <1>8 DEF AnswerWrite, TypeOK
  <2>3. UNCHANGED <<mqtt, online, sample, samples, commands, stop, acks>>
    BY <1>8 DEF AnswerWrite
  <2>4. /\ online' \in BOOLEAN /\ sample' \in [gen : 0..samples, fresh : BOOLEAN]
        /\ commands' \in Seq(Command) /\ Len(commands') <= CommandCapacity
    BY <2>3 DEF TypeOK
  <2> QED
    BY <2>1, <2>2, <2>3, <2>4, AnswersKeepTypes
<1>9. CASE SerialCaught
  <2>1. Answer(Numbers(commands)) /\ Cardinality(Numbers(commands)) \in Nat
    BY <1>9, NumbersAreFinite DEF SerialCaught, RejectAll
  <2>2. serial' \in SerialState
    BY <1>0, <1>9 DEF SerialCaught
  <2>3. UNCHANGED <<mqtt, samples, stop, acks>>
    BY <1>9 DEF SerialCaught
  <2>4. online' \in BOOLEAN /\ sample' \in [gen : 0..samples, fresh : BOOLEAN]
    <3>1. online' = FALSE /\ sample' = [gen |-> 0, fresh |-> FALSE] /\ 0 \in 0..samples
      BY <1>0, <1>9 DEF SerialCaught
    <3> QED
      BY <3>1
  <2>5. commands' \in Seq(Command) /\ Len(commands') <= CommandCapacity
    <3>1. commands' = <<>>
      BY <1>9 DEF SerialCaught, RejectAll
    <3>2. <<>> \in Seq(Command) /\ Len(<<>>) = 0 /\ 0 <= CommandCapacity
      BY EmptySeq, Stm32Assumption
    <3> QED
      BY <3>1, <3>2
  <2> QED
    BY <2>1, <2>2, <2>3, <2>4, <2>5, AnswersKeepTypes
<1>10. CASE SerialEnd
  BY <1>10 DEF SerialEnd, TypeOK
<1> QED
  BY <1>1, <1>2, <1>3, <1>4, <1>5, <1>6, <1>7, <1>8, <1>9, <1>10 DEF SerialStep

LEMMA MqttKeepsTypes ==
  TypeOK /\ PortOK /\ ConnectionOK /\ MqttStep => TypeOK'
<1> SUFFICES ASSUME TypeOK, PortOK, ConnectionOK, MqttStep PROVE TypeOK'
  OBVIOUS
<1> USE DEF Mqtt, Thrown, eventVars, historyVars, SerialState, MqttState
<1>0. /\ MaxSessions \in Nat /\ MaxFrames \in Nat /\ MaxCommands \in Nat
      /\ mqtt \in MqttState /\ serial \in SerialState
      /\ samples \in 0..MaxFrames /\ nextEvent \in Nat
      /\ sample \in [gen : 0..samples, fresh : BOOLEAN]
  BY Stm32Assumption DEF TypeOK
<1>1. CASE MqttConnect
  <2>0. /\ mqtt.session < MaxSessions => mqtt.session + 1 \in 0..MaxSessions
        /\ 0 \in 0..samples
    BY <1>0
  <2>1. mqtt' \in MqttState
    BY <1>0, <1>1, <2>0 DEF MqttConnect
  <2> QED
    BY <1>1, <2>1 DEF MqttConnect, TypeOK
<1>2. CASE MqttReceive
  BY <1>2 DEF MqttReceive, TypeOK
<1>3. CASE Enqueue
  <2> DEFINE c == [n |-> Len(answers'), serial |-> serial.session, mqtt |-> mqtt.session]
  <2>1. /\ answers' = Append(answers, 0) /\ Len(answers) < MaxCommands
        /\ commands' = Append(commands, c) /\ Len(commands) < CommandCapacity
    BY <1>3 DEF Enqueue
  <2>2. answers' \in Seq(Nat) /\ Len(answers') = Len(answers) + 1 /\ Len(answers) \in Nat
    BY <2>1, AppendProperties, LenProperties DEF TypeOK
  <2>3. serial.session \in 1..MaxSessions /\ mqtt.session \in 1..MaxSessions
    BY <1>0, <1>3 DEF Enqueue, Online, PortOK, ConnectionOK, TypeOK
  <2>4. c \in Command
    BY <1>0, <2>1, <2>2, <2>3 DEF Command
  <2> HIDE DEF c
  <2>5. commands' \in Seq(Command) /\ Len(commands') = Len(commands) + 1 /\ Len(commands) \in Nat
    BY <2>1, <2>4, AppendProperties, LenProperties DEF TypeOK
  <2>6. Len(commands') <= CommandCapacity /\ Len(answers') <= MaxCommands
    BY <1>0, <2>1, <2>2, <2>5, Stm32Assumption
  <2>7. UNCHANGED <<serial, mqtt, online, sample, samples, stop, events, nextEvent, acks>>
    BY <1>3 DEF Enqueue
  <2> QED
    BY <2>2, <2>5, <2>6, <2>7 DEF TypeOK
<1>4. CASE Reject
  <2>1. answers' = Append(answers, 1) /\ Len(answers) < MaxCommands /\ Raise(1)
    BY <1>4 DEF Reject
  <2>2. answers' \in Seq(Nat) /\ Len(answers') = Len(answers) + 1 /\ Len(answers) \in Nat
    BY <2>1, AppendProperties, LenProperties DEF TypeOK
  <2>3. Len(answers') <= MaxCommands
    BY <1>0, <2>1, <2>2
  <2>4. UNCHANGED <<serial, mqtt, online, sample, samples, commands, stop, acks>>
    BY <1>4 DEF Reject
  <2>5. /\ nextEvent' \in Nat
        /\ events' \in Seq(1..nextEvent') /\ Len(events') <= EventCapacity
        /\ mqtt' \in MqttState' /\ samples' \in 0..MaxFrames
    BY <2>1, <2>4, RaiseKeepsTypes
  <2> QED
    BY <2>2, <2>3, <2>4, <2>5 DEF TypeOK
<1>5. CASE MqttPick
  <2>1. events # <<>> => Head(events) \in 1..nextEvent
    BY HeadTailProperties DEF TypeOK
  <2>2. mqtt' \in MqttState
    <3> DEFINE reading == IF Online /\ sample.gen # mqtt.published THEN sample.gen ELSE 0
               event == IF events = <<>> THEN 0 ELSE Head(events)
    <3>1. reading \in 0..samples /\ event \in 0..nextEvent
      BY <1>0, <2>1
    <3>2. \/ mqtt' = [mqtt EXCEPT !.pc = "reading", !.reading = reading, !.event = event]
          \/ mqtt' = [mqtt EXCEPT !.pc = "caught"]
      BY <1>5 DEF MqttPick
    <3> HIDE DEF reading, event
    <3> QED
      BY <1>0, <3>1, <3>2
  <2> QED
    BY <1>5, <2>2 DEF MqttPick, TypeOK
<1>6. CASE PublishReading
  BY <1>6 DEF PublishReading, TypeOK
<1>7. CASE PublishEvent
  BY <1>7 DEF PublishEvent, TypeOK
<1>8. CASE PopEvent
  <2>1. events' \in Seq(1..nextEvent) /\ Len(events') <= EventCapacity
    <3>1. CASE events' = events
      BY <3>1 DEF TypeOK
    <3>2. CASE events # <<>> /\ events' = Tail(events)
      <4>1. /\ events' \in Seq(1..nextEvent) /\ Len(events') = Len(events) - 1
            /\ Len(events) \in Nat
        BY <3>2, HeadTailProperties, LenProperties DEF TypeOK
      <4> QED
        BY <4>1, Stm32Assumption DEF TypeOK
    <3> QED
      BY <1>8, <3>1, <3>2 DEF PopEvent
  <2>2. mqtt' \in MqttState'
    BY <1>8 DEF PopEvent, TypeOK
  <2> QED
    BY <1>8, <2>1, <2>2 DEF PopEvent, TypeOK
<1>9. CASE MqttCaught
  <2>1. Answer(Numbers(commands)) /\ Cardinality(Numbers(commands)) \in Nat /\ commands' = <<>>
    BY <1>9, NumbersAreFinite DEF MqttCaught, RejectAll
  <2>2. answers' \in Seq(Nat) /\ Len(answers') = Len(answers) /\ Raise(Cardinality(Numbers(commands)))
    BY <2>1, AnswerProperties
  <2>3. /\ nextEvent' \in Nat /\ nextEvent <= nextEvent' /\ nextEvent \in Nat
        /\ events' \in Seq(1..nextEvent') /\ Len(events') <= EventCapacity
    BY <2>1, <2>2, RaiseProperties DEF TypeOK
  <2>4. mqtt' \in MqttState'
    <3>1. 0..nextEvent \subseteq 0..nextEvent'
      BY <2>3
    <3>2. mqtt' = [mqtt EXCEPT !.pc = "caught"] \/ mqtt' = [mqtt EXCEPT !.pc = "top", !.connected = FALSE]
      BY <1>9 DEF MqttCaught
    <3>3. samples' = samples
      BY <1>9 DEF MqttCaught
    <3> QED
      BY <1>0, <3>1, <3>2, <3>3
  <2>5. <<>> \in Seq(Command) /\ Len(<<>>) = 0 /\ 0 <= CommandCapacity
    BY EmptySeq, Stm32Assumption
  <2>6. UNCHANGED <<serial, online, sample, samples, stop, acks>>
    BY <1>9 DEF MqttCaught
  <2>7. Len(answers') <= MaxCommands
    BY <2>2 DEF TypeOK
  <2>8. commands' \in Seq(Command) /\ Len(commands') <= CommandCapacity
    BY <2>1, <2>5
  <2> QED
    BY <2>2, <2>3, <2>4, <2>6, <2>7, <2>8 DEF TypeOK
<1>10. CASE MqttEnd
  BY <1>10 DEF MqttEnd, TypeOK
<1> QED
  BY <1>1, <1>2, <1>3, <1>4, <1>5, <1>6, <1>7, <1>8, <1>9, <1>10 DEF MqttStep

LEMMA OthersKeepTypes == TypeOK /\ (SampleAges \/ RequestStop \/ UNCHANGED vars) => TypeOK'
<1> USE DEF eventVars, historyVars, SerialState, MqttState, TypeOK
<1>1. TypeOK /\ SampleAges => TypeOK'
  BY DEF SampleAges
<1>2. TypeOK /\ RequestStop => TypeOK'
  BY DEF RequestStop
<1>3. TypeOK /\ UNCHANGED vars => TypeOK'
  BY DEF vars
<1> QED
  BY <1>1, <1>2, <1>3

-----------------------------------------------------------------------------
\* What the two ends of the queue do to the commands in it.
LEMMA CommandsAreTyped ==
  ASSUME TypeOK
  PROVE  /\ Len(commands) \in Nat /\ DOMAIN commands = 1..Len(commands)
         /\ \A i \in DOMAIN commands : commands[i] \in Command /\ commands[i].n \in Nat \ {0}
         /\ Len(answers) \in Nat /\ DOMAIN answers = 1..Len(answers)
         /\ \A n \in DOMAIN answers : answers[n] \in Nat
         /\ serial.hand.n \in Nat /\ NoCommand.n = 0
<1>1. /\ Len(commands) \in Nat /\ DOMAIN commands = 1..Len(commands)
      /\ \A i \in DOMAIN commands : commands[i] \in Command
  BY ElementOfSeq, LenProperties DEF TypeOK
<1>2. \A c \in Command : c.n \in Nat \ {0}
  BY Stm32Assumption DEF Command
<1>3. NoCommand.n = 0
  BY DEF NoCommand
<1>4. serial.hand.n \in Nat
  BY <1>2, <1>3 DEF TypeOK, SerialState
<1>5. /\ Len(answers) \in Nat /\ DOMAIN answers = 1..Len(answers)
      /\ \A n \in DOMAIN answers : answers[n] \in Nat
  BY LenProperties, ElementOfSeq DEF TypeOK
<1> QED
  BY <1>1, <1>2, <1>3, <1>4, <1>5

LEMMA OldestLeaves ==
  ASSUME TypeOK, commands # <<>>, commands' = Tail(commands)
  PROVE  /\ Len(commands) >= 1 /\ Head(commands) = commands[1]
         /\ DOMAIN commands' = 1..Len(commands) - 1
         /\ \A i \in DOMAIN commands' : i + 1 \in 2..Len(commands) /\ commands'[i] = commands[i + 1]
         /\ Numbers(commands) = {Head(commands).n} \cup Numbers(commands)'
<1>1. /\ Len(commands) \in Nat /\ DOMAIN commands = 1..Len(commands)
      /\ commands \in Seq(Command)
  BY CommandsAreTyped DEF TypeOK
<1>2. /\ Head(commands) \in Command /\ commands' \in Seq(Command)
      /\ Len(commands') = Len(commands) - 1
      /\ \A i \in 1..Len(Tail(commands)) : Tail(commands)[i] = commands[i + 1]
  BY <1>1, HeadTailProperties
<1>3. Len(commands) >= 1 /\ Head(commands) = commands[1]
  <2>1. Len(commands) # 0
    BY <1>1, EmptySeq
  <2>2. Head(commands) = commands[1]
    BY <1>1
  <2> QED
    BY <2>1, <2>2, <1>1
<1>4. DOMAIN commands' = 1..Len(commands) - 1
  BY <1>2, LenProperties
<1>5. \A i \in DOMAIN commands' : i + 1 \in 2..Len(commands) /\ commands'[i] = commands[i + 1]
  BY <1>1, <1>2, <1>4
<1>6. \A i \in 1..Len(commands) : i = 1 \/ (i - 1 \in DOMAIN commands' /\ commands'[i - 1] = commands[i])
  <2> SUFFICES ASSUME NEW i \in 1..Len(commands), i # 1
               PROVE  i - 1 \in DOMAIN commands' /\ commands'[i - 1] = commands[i]
    OBVIOUS
  <2>1. i - 1 \in DOMAIN commands' /\ (i - 1) + 1 = i
    BY <1>1, <1>4
  <2> QED
    BY <2>1, <1>5
<1>7. Numbers(commands)' = {commands'[i].n : i \in DOMAIN commands'}
  BY DEF Numbers
<1>8. Numbers(commands) = {commands[i].n : i \in 1..Len(commands)}
  BY <1>1 DEF Numbers
<1>9. 1 \in 1..Len(commands) /\ \A i \in 2..Len(commands) : i \in 1..Len(commands)
  BY <1>1, <1>3
<1>10. Numbers(commands)' \subseteq Numbers(commands)
  BY <1>5, <1>7, <1>8, <1>9
<1>11. Head(commands).n \in Numbers(commands)
  BY <1>3, <1>8, <1>9
<1>12. ASSUME NEW i \in 1..Len(commands)
       PROVE  commands[i].n \in {Head(commands).n} \cup Numbers(commands)'
  BY <1>3, <1>6, <1>7
<1>13. Numbers(commands) = {Head(commands).n} \cup Numbers(commands)'
  BY <1>8, <1>10, <1>11, <1>12
<1> QED
  BY <1>3, <1>4, <1>5, <1>13

LEMMA NewestJoins ==
  ASSUME TypeOK, NEW c, commands' = Append(commands, c)
  PROVE  /\ DOMAIN commands' = 1..Len(commands) + 1
         /\ \A i \in DOMAIN commands : i \in DOMAIN commands' /\ commands'[i] = commands[i]
         /\ commands'[Len(commands) + 1] = c
         /\ Numbers(commands)' = Numbers(commands) \cup {c.n}
<1>1. /\ Len(commands) \in Nat /\ DOMAIN commands = 1..Len(commands)
      /\ commands \in Seq(Command \cup {c})
  <2>1. commands \in Seq(Command) /\ Command \subseteq Command \cup {c}
    BY DEF TypeOK
  <2> QED
    BY <2>1, CommandsAreTyped, SeqMonotonic
<1>2. /\ Len(commands') = Len(commands) + 1 /\ commands' \in Seq(Command \cup {c})
      /\ \A i \in 1..Len(commands) : commands'[i] = commands[i]
      /\ commands'[Len(commands) + 1] = c
  BY <1>1, AppendProperties
<1>3. DOMAIN commands' = 1..Len(commands) + 1
  BY <1>2, LenProperties
<1>4. DOMAIN commands' = DOMAIN commands \cup {Len(commands) + 1}
  BY <1>1, <1>3
<1>5. Numbers(commands)' = {commands'[i].n : i \in DOMAIN commands'}
  BY DEF Numbers
<1>6. Numbers(commands) = {commands[i].n : i \in DOMAIN commands}
  BY DEF Numbers
<1>7. \A i \in DOMAIN commands : i \in DOMAIN commands' /\ commands'[i] = commands[i]
  BY <1>1, <1>2, <1>4
<1> QED
  BY <1>2, <1>3, <1>4, <1>5, <1>6, <1>7

LEMMA NothingWaits ==
  commands' = <<>> => DOMAIN commands' = {} /\ Numbers(commands)' = {}
<1> SUFFICES ASSUME commands' = <<>> PROVE DOMAIN commands' = {} /\ Numbers(commands)' = {}
  OBVIOUS
<1>1. <<>> \in Seq({}) /\ Len(<<>>) = 0
  BY EmptySeq
<1>2. DOMAIN <<>> = 1..0
  BY <1>1, LenProperties
<1>3. DOMAIN commands' = {}
  BY <1>2
<1> QED
  BY <1>3 DEF Numbers

\* The ways a step treats the queue: nothing joins but by Enqueue.
LEMMA QueueSteps ==
  ASSUME TypeOK, Next
  PROVE  \/ commands' = commands
         \/ commands' = <<>>
         \/ commands # <<>> /\ commands' = Tail(commands) /\ TakeCommand
         \/ Enqueue
  BY DEF Next, SerialOpen, SerialRead, RecordSample, RecordAck, TakeCommand, TakeNothing,
         WriteCommand, AnswerWrite, SerialCaught, SerialEnd, MqttConnect, MqttReceive, Reject,
         MqttPick, PublishReading, PublishEvent, PopEvent, MqttCaught, MqttEnd, SampleAges,
         RequestStop, RejectAll, vars

-----------------------------------------------------------------------------
\* The port: no command waits once it is gone, and one is in hand only while
\* it is written and answered.
LEMMA PortKept == TypeOK /\ PortOK /\ Next => PortOK'
<1> SUFFICES ASSUME TypeOK, PortOK, Next PROVE PortOK'
  OBVIOUS
<1>0. /\ serial \in SerialState /\ serial.session \in Nat
      /\ \A c \in Command : c # NoCommand
  <2>1. \A c \in Command : c # NoCommand
    BY Stm32Assumption DEF Command, NoCommand
  <2> QED
    BY <2>1, Stm32Assumption DEF TypeOK, SerialState
<1> USE DEF Serial, SerialState, PortOK, Holding
<1>1. CASE SerialOpen
  <2>1. serial.session + 1 > 0
    BY <1>0
  <2>2. serial.pc = "top" /\ ~serial.open /\ commands' = commands /\ serial'.hand = serial.hand
    BY <1>0, <1>1 DEF SerialOpen
  <2>3. \/ serial'.pc = "read" /\ serial'.open /\ serial'.session = serial.session + 1
        \/ serial'.pc = "caught" /\ serial'.open = serial.open /\ online' = online
    BY <1>0, <1>1 DEF SerialOpen
  <2> QED
    BY <2>1, <2>2, <2>3
<1>2. CASE SerialRead
  BY <1>0, <1>2 DEF SerialRead
<1>3. CASE RecordSample \/ RecordAck
  BY <1>3 DEF RecordSample, RecordAck
<1>4. CASE TakeCommand
  <2>1. Head(commands) \in Command
    BY <1>4, HeadTailProperties DEF TakeCommand, TypeOK
  <2> QED
    BY <1>0, <1>4, <2>1 DEF TakeCommand
<1>5. CASE TakeNothing
  BY <1>0, <1>5 DEF TakeNothing
<1>6. CASE WriteCommand
  BY <1>0, <1>6 DEF WriteCommand
<1>7. CASE AnswerWrite
  <2>1. /\ serial.pc \in Holding /\ serial'.pc \in {"top", "caught"} /\ serial'.hand = NoCommand
        /\ serial'.open = serial.open /\ serial'.session = serial.session
        /\ online' = online /\ commands' = commands
    BY <1>0, <1>7 DEF AnswerWrite
  <2> QED
    BY <2>1
<1>8. CASE SerialCaught
  <2>1. /\ serial.pc = "caught" /\ serial'.pc = "top" /\ ~serial'.open
        /\ serial'.hand = serial.hand /\ online' = FALSE /\ commands' = <<>>
    BY <1>0, <1>8 DEF SerialCaught, RejectAll
  <2> QED
    BY <2>1
<1>9. CASE SerialEnd
  BY <1>0, <1>9 DEF SerialEnd
<1>10. CASE Enqueue
  BY <1>10 DEF Enqueue, Online
<1>11. CASE /\ UNCHANGED <<serial, online>>
            /\ commands' = commands \/ commands' = <<>>
  BY <1>11
<1>12. CASE MqttStep /\ ~Enqueue
  BY <1>11, <1>12 DEF MqttStep, MqttConnect, MqttReceive, Reject, MqttPick, PublishReading,
         PublishEvent, PopEvent, MqttCaught, MqttEnd, RejectAll
<1>13. CASE SampleAges \/ RequestStop \/ UNCHANGED vars
  BY <1>11, <1>13 DEF SampleAges, RequestStop, vars
<1> QED
  BY <1>1, <1>2, <1>3, <1>4, <1>5, <1>6, <1>7, <1>8, <1>9, <1>10, <1>12, <1>13
  DEF Next, MqttStep

\* The connection: no command waits once it is gone.
LEMMA ConnectionKept == TypeOK /\ ConnectionOK /\ Next => ConnectionOK'
<1> SUFFICES ASSUME TypeOK, ConnectionOK, Next PROVE ConnectionOK'
  OBVIOUS
<1>0. mqtt \in MqttState /\ mqtt.session \in Nat
  BY Stm32Assumption DEF TypeOK, MqttState
<1> USE DEF Mqtt, Thrown, MqttState, ConnectionOK
<1>1. CASE MqttConnect
  <2>1. mqtt.session + 1 > 0
    BY <1>0
  <2> QED
    BY <1>0, <1>1, <2>1 DEF MqttConnect
<1>2. CASE MqttReceive
  BY <1>0, <1>2 DEF MqttReceive
<1>3. CASE Enqueue
  BY <1>3 DEF Enqueue
<1>4. CASE MqttPick
  BY <1>0, <1>4 DEF MqttPick
<1>5. CASE PublishReading \/ PublishEvent \/ PopEvent
  BY <1>0, <1>5 DEF PublishReading, PublishEvent, PopEvent
<1>6. CASE MqttCaught
  BY <1>0, <1>6 DEF MqttCaught, RejectAll
<1>7. CASE MqttEnd
  BY <1>0, <1>7 DEF MqttEnd
<1>8. CASE mqtt' = mqtt /\ (commands = <<>> => commands' = <<>>)
  BY <1>8
<1>9. CASE Reject \/ SampleAges \/ RequestStop \/ UNCHANGED vars
  BY <1>8, <1>9 DEF Reject, SampleAges, RequestStop, vars
<1>10. CASE SerialStep
  BY <1>8, <1>10 DEF SerialStep, SerialOpen, SerialRead, RecordSample, RecordAck, TakeCommand,
         TakeNothing, WriteCommand, AnswerWrite, SerialCaught, SerialEnd, RejectAll
<1> QED
  BY <1>1, <1>2, <1>3, <1>4, <1>5, <1>6, <1>7, <1>9, <1>10 DEF Next, SerialStep

-----------------------------------------------------------------------------
\* A step as the commands see it: it leaves them alone, ...
KeepsCommands ==
  /\ UNCHANGED <<commands, answers, written>> /\ serial'.hand = serial.hand
  /\ commands # <<>> => serial'.session = serial.session /\ mqtt'.session = mqtt.session
  /\ serial'.pc = "write" => serial.pc = "write" /\ serial'.session = serial.session

\* ... takes the oldest, to write it or because it is too late for it, ...
TakesCommand ==
  /\ commands # <<>> /\ commands' = Tail(commands)
  /\ serial.hand = NoCommand /\ UNCHANGED written
  /\ serial'.session = serial.session /\ mqtt'.session = mqtt.session
  /\ \/ serial'.hand = Head(commands) /\ UNCHANGED answers
     \/ serial'.hand = NoCommand /\ serial'.pc = "top" /\ Answer({Head(commands).n})

\* ... writes the one in hand, answers it, ...
WritesCommand ==
  /\ UNCHANGED <<commands, answers>> /\ serial'.hand = serial.hand
  /\ serial.pc = "write" /\ serial'.pc # "write"
  /\ written' = serial.hand.n
  /\ serial'.session = serial.session /\ mqtt'.session = mqtt.session

AnswersCommand ==
  /\ UNCHANGED <<commands, written>>
  /\ serial'.hand = NoCommand /\ serial'.pc # "write" /\ Answer({serial.hand.n})
  /\ serial'.session = serial.session /\ mqtt'.session = mqtt.session

\* ... rejects all that wait, ...
RejectsCommands ==
  /\ commands' = <<>> /\ Answer(Numbers(commands)) /\ UNCHANGED written
  /\ serial'.hand = serial.hand
  /\ serial'.pc = "write" => serial.pc = "write" /\ serial'.session = serial.session

\* ... or brings a new one, which is queued or rejected.
BringsCommand ==
  /\ UNCHANGED <<serial, mqtt, written>>
  /\ \/ /\ answers' = Append(answers, 0)
        /\ commands' = Append(commands, [n |-> Len(answers'), serial |-> serial.session,
                                         mqtt |-> mqtt.session])
     \/ answers' = Append(answers, 1) /\ UNCHANGED commands

LEMMA CommandSteps ==
  ASSUME TypeOK, PortOK, ConnectionOK, Next
  PROVE  \/ KeepsCommands \/ TakesCommand \/ WritesCommand \/ AnswersCommand
         \/ RejectsCommands \/ BringsCommand
<1>0. serial \in SerialState /\ mqtt \in MqttState
  BY DEF TypeOK
<1>0a. ~serial.open /\ serial.pc # "done" => commands = <<>>
  BY DEF PortOK
<1>0b. ~mqtt.connected /\ mqtt.pc # "done" => commands = <<>>
  BY DEF ConnectionOK
<1>0c. serial.hand = NoCommand <=> serial.pc \notin Holding
  BY DEF PortOK
<1> USE DEF Serial, SerialState, Mqtt, MqttState, Thrown, historyVars
<1>1. SerialOpen => KeepsCommands
  BY <1>0, <1>0a DEF SerialOpen, KeepsCommands
<1>2. SerialRead \/ TakeNothing \/ SerialEnd => KeepsCommands
  BY <1>0 DEF SerialRead, TakeNothing, SerialEnd, KeepsCommands
<1>3. RecordSample \/ RecordAck => KeepsCommands
  BY DEF RecordSample, RecordAck, KeepsCommands
<1>4. TakeCommand => TakesCommand
  <2> SUFFICES ASSUME TakeCommand PROVE TakesCommand
    OBVIOUS
  <2>1. /\ commands # <<>> /\ commands' = Tail(commands) /\ serial.hand = NoCommand
        /\ UNCHANGED written /\ mqtt' = mqtt
    BY <1>0c DEF TakeCommand, Holding
  <2>2. \/ serial'.hand = Head(commands) /\ UNCHANGED answers
        \/ serial'.hand = serial.hand /\ serial'.pc = "top" /\ Answer({Head(commands).n})
    BY <1>0 DEF TakeCommand
  <2>3. serial'.session = serial.session
    BY <1>0 DEF TakeCommand
  <2> QED
    BY <2>1, <2>2, <2>3 DEF TakesCommand
<1>5. WriteCommand => WritesCommand
  BY <1>0 DEF WriteCommand, WritesCommand
<1>6. AnswerWrite => AnswersCommand
  <2> SUFFICES ASSUME AnswerWrite PROVE AnswersCommand
    OBVIOUS
  <2>1. /\ serial'.hand = NoCommand /\ serial'.pc # "write" /\ serial'.session = serial.session
        /\ Answer({serial.hand.n}) /\ UNCHANGED <<commands, mqtt, written>>
    BY <1>0 DEF AnswerWrite
  <2> QED
    BY <2>1 DEF AnswersCommand
<1>7. SerialCaught => RejectsCommands
  <2> SUFFICES ASSUME SerialCaught PROVE RejectsCommands
    OBVIOUS
  <2>1. /\ serial'.hand = serial.hand /\ serial'.pc = "top"
        /\ RejectAll /\ UNCHANGED <<mqtt, written>>
    BY <1>0 DEF SerialCaught
  <2> QED
    BY <2>1 DEF RejectsCommands, RejectAll
<1>8. MqttCaught => RejectsCommands
  BY DEF MqttCaught, RejectsCommands, RejectAll
<1>9. MqttConnect => KeepsCommands
  BY <1>0, <1>0b DEF MqttConnect, KeepsCommands
<1>10. MqttReceive \/ MqttPick \/ PublishReading \/ MqttEnd => KeepsCommands
  BY <1>0 DEF MqttReceive, MqttPick, PublishReading, MqttEnd, KeepsCommands
<1>11. PublishEvent \/ PopEvent => KeepsCommands
  BY <1>0 DEF PublishEvent, PopEvent, KeepsCommands
<1>12. Enqueue \/ Reject => BringsCommand
  BY DEF Enqueue, Reject, BringsCommand
<1>13. SampleAges \/ RequestStop \/ UNCHANGED vars => KeepsCommands
  BY DEF SampleAges, RequestStop, vars, KeepsCommands
<1> QED
  BY <1>1, <1>2, <1>3, <1>4, <1>5, <1>6, <1>7, <1>8, <1>9, <1>10, <1>11, <1>12, <1>13 DEF Next

\* What CommandsOK says of the numbers, with the types they have.
LEMMA OrderFacts ==
  ASSUME CommandsOK
  PROVE  /\ Len(commands) \in Nat /\ DOMAIN commands = 1..Len(commands)
         /\ Len(answers) \in Nat /\ DOMAIN answers = 1..Len(answers)
         /\ written \in 0..Len(answers)
         /\ serial.hand.n \in 0..Len(answers) /\ NoCommand.n = 0
         /\ \A i \in DOMAIN commands :
              /\ commands[i].n \in 1..Len(answers)
              /\ commands[i].n > written /\ commands[i].n > serial.hand.n
              /\ \A j \in 1..(i - 1) : commands[j].n < commands[i].n
         /\ Cardinality(Numbers(commands)) \in Nat /\ \A n : Cardinality({n}) \in Nat
<1>1. /\ Len(commands) \in Nat /\ DOMAIN commands = 1..Len(commands)
      /\ \A i \in DOMAIN commands : commands[i].n \in Nat \ {0}
      /\ Len(answers) \in Nat /\ DOMAIN answers = 1..Len(answers)
      /\ serial.hand.n \in Nat /\ NoCommand.n = 0
  BY CommandsAreTyped DEF CommandsOK
<1>2. /\ written \in 0..Len(answers) /\ serial.hand.n <= Len(answers)
      /\ \A i \in DOMAIN commands : commands[i].n <= Len(answers)
  BY DEF CommandsOK, NumbersOK
<1>3. \A i \in DOMAIN commands :
        /\ commands[i].n > written /\ commands[i].n > serial.hand.n
        /\ \A j \in 1..(i - 1) : commands[j].n < commands[i].n
  BY DEF CommandsOK, CommandsAreNeverReplayed
<1>4. Cardinality(Numbers(commands)) \in Nat /\ \A n : Cardinality({n}) \in Nat
  <2>1. Cardinality(Numbers(commands)) \in Nat
    BY NumbersAreFinite DEF CommandsOK
  <2> QED
    BY <2>1, OneIsFinite
<1>5. \A i \in DOMAIN commands : commands[i].n \in 1..Len(answers)
  BY <1>1, <1>2
<1>6. serial.hand.n \in 0..Len(answers)
  BY <1>1, <1>2
<1> QED
  BY <1>1, <1>2, <1>3, <1>4, <1>5, <1>6

LEMMA AnswersStayInPlace ==
  ASSUME CommandsOK, KeepsCommands \/ TakesCommand \/ WritesCommand \/ AnswersCommand
                     \/ RejectsCommands
  PROVE  Len(answers') = Len(answers)
<1>1. UNCHANGED answers \/ \E ns : Answer(ns) /\ Cardinality(ns) \in Nat
  BY OrderFacts
  DEF KeepsCommands, TakesCommand, WritesCommand, AnswersCommand, RejectsCommands
<1> QED
  BY <1>1, AnswerProperties DEF CommandsOK

LEMMA NumbersKept == CommandsOK /\ Next => NumbersOK'
<1> SUFFICES ASSUME CommandsOK, Next PROVE NumbersOK'
  OBVIOUS
<1>0. /\ Len(commands) \in Nat /\ DOMAIN commands = 1..Len(commands)
      /\ Len(answers) \in Nat /\ written \in 0..Len(answers)
      /\ serial.hand.n \in 0..Len(answers) /\ NoCommand.n = 0
      /\ \A i \in DOMAIN commands : commands[i].n \in 1..Len(answers)
  BY OrderFacts
<1>1. ASSUME KeepsCommands \/ WritesCommand \/ AnswersCommand PROVE NumbersOK'
  <2>1. Len(answers') = Len(answers)
    BY <1>1, AnswersStayInPlace
  <2>2. /\ commands' = commands /\ (written' = written \/ written' = serial.hand.n)
        /\ serial'.hand = serial.hand \/ serial'.hand = NoCommand
    BY <1>1 DEF KeepsCommands, WritesCommand, AnswersCommand
  <2>3. serial'.hand.n \in 0..Len(answers) /\ written' \in 0..Len(answers)
    BY <1>0, <2>2
  <2>4. \A i \in DOMAIN commands' : commands'[i].n <= Len(answers')
    BY <1>0, <2>1, <2>2
  <2> QED
    BY <1>0, <2>1, <2>3, <2>4 DEF NumbersOK
<1>2. ASSUME TakesCommand PROVE NumbersOK'
  <2>1. Len(answers') = Len(answers)
    BY <1>2, AnswersStayInPlace
  <2>2. /\ Len(commands) >= 1 /\ Head(commands) = commands[1] /\ written' = written
        /\ \A i \in DOMAIN commands' : i + 1 \in 2..Len(commands) /\ commands'[i] = commands[i + 1]
        /\ serial'.hand = Head(commands) \/ serial'.hand = NoCommand
    BY <1>2, OldestLeaves DEF TakesCommand, CommandsOK
  <2>3. \A i \in DOMAIN commands' : commands'[i].n \in 1..Len(answers)
    <3>1. \A i \in 2..Len(commands) : i \in DOMAIN commands
      BY <1>0
    <3> QED
      BY <1>0, <2>2, <3>1
  <2>4. serial'.hand.n \in 0..Len(answers)
    <3>1. 1 \in DOMAIN commands
      BY <1>0, <2>2
    <3>2. commands[1].n \in 1..Len(answers)
      BY <1>0, <3>1
    <3> QED
      BY <1>0, <2>2, <3>2
  <2> QED
    BY <1>0, <2>1, <2>2, <2>3, <2>4 DEF NumbersOK
<1>3. ASSUME RejectsCommands PROVE NumbersOK'
  <2>1. Len(answers') = Len(answers)
    BY <1>3, AnswersStayInPlace
  <2>2. DOMAIN commands' = {} /\ written' = written /\ serial'.hand = serial.hand
    BY <1>3, NothingWaits DEF RejectsCommands
  <2> QED
    BY <1>0, <2>1, <2>2 DEF NumbersOK
<1>4. ASSUME BringsCommand PROVE NumbersOK'
  <2>1. /\ Len(answers') = Len(answers) + 1 /\ written' = written /\ serial' = serial
    BY <1>4, AppendProperties DEF BringsCommand, CommandsOK, TypeOK
  <2>2. \A i \in DOMAIN commands' : commands'[i].n <= Len(answers')
    <3>1. CASE commands' = commands
      BY <1>0, <2>1, <3>1
    <3>2. CASE commands' # commands
      <4> DEFINE c == [n |-> Len(answers'), serial |-> serial.session, mqtt |-> mqtt.session]
      <4>1. commands' = Append(commands, c) /\ c.n = Len(answers')
        BY <1>4, <3>2 DEF BringsCommand
      <4> HIDE DEF c
      <4>2. /\ DOMAIN commands' = 1..Len(commands) + 1
            /\ \A i \in DOMAIN commands : commands'[i] = commands[i]
            /\ commands'[Len(commands) + 1] = c
        BY <4>1, NewestJoins DEF CommandsOK
      <4>3. DOMAIN commands' = DOMAIN commands \cup {Len(commands) + 1}
        BY <1>0, <4>2
      <4> QED
        BY <1>0, <2>1, <4>1, <4>2, <4>3
    <3> QED
      BY <3>1, <3>2
  <2> QED
    BY <1>0, <2>1, <2>2 DEF NumbersOK
<1> QED
  BY <1>1, <1>2, <1>3, <1>4, CommandSteps DEF CommandsOK

\* CommandsAreNeverReplayed: the sessions change only over an empty queue, and
\* what is taken is older than what stays.
LEMMA ReplayKept == CommandsOK /\ Next => CommandsAreNeverReplayed'
<1> SUFFICES ASSUME CommandsOK, Next PROVE CommandsAreNeverReplayed'
  OBVIOUS
<1>0. /\ Len(commands) \in Nat /\ DOMAIN commands = 1..Len(commands)
      /\ Len(answers) \in Nat /\ written \in 0..Len(answers)
      /\ serial.hand.n \in 0..Len(answers) /\ NoCommand.n = 0
      /\ \A i \in DOMAIN commands :
           /\ commands[i].n \in 1..Len(answers)
           /\ commands[i].n > written /\ commands[i].n > serial.hand.n
           /\ \A j \in 1..(i - 1) : commands[j].n < commands[i].n
  BY OrderFacts
<1>0a. \A i \in DOMAIN commands :
         commands[i].mqtt = mqtt.session /\ commands[i].serial = serial.session
  BY DEF CommandsOK, CommandsAreNeverReplayed
<1>0b. serial.pc = "write" => serial.hand.serial = serial.session /\ serial.hand.n > written
  BY DEF CommandsOK, CommandsAreNeverReplayed
<1>1. ASSUME KeepsCommands PROVE CommandsAreNeverReplayed'
  <2>1. commands # <<>> \/ DOMAIN commands = {}
    BY EmptySeq, LenProperties
  <2>2. /\ commands' = commands /\ written' = written /\ serial'.hand = serial.hand
        /\ \A i \in DOMAIN commands : serial'.session = serial.session /\ mqtt'.session = mqtt.session
        /\ serial'.pc = "write" => serial.pc = "write" /\ serial'.session = serial.session
    BY <1>1, <2>1 DEF KeepsCommands
  <2> QED
    BY <1>0, <1>0a, <1>0b, <2>2 DEF CommandsAreNeverReplayed
<1>2. ASSUME TakesCommand PROVE CommandsAreNeverReplayed'
  <2>1. /\ Len(commands) >= 1 /\ Head(commands) = commands[1] /\ written' = written
        /\ DOMAIN commands' = 1..Len(commands) - 1
        /\ \A i \in DOMAIN commands' : i + 1 \in 2..Len(commands) /\ commands'[i] = commands[i + 1]
        /\ serial'.session = serial.session /\ mqtt'.session = mqtt.session
        /\ \/ serial'.hand = commands[1]
           \/ serial'.hand = NoCommand /\ serial'.pc = "top"
    BY <1>2, OldestLeaves DEF TakesCommand, CommandsOK
  <2>2. 1 \in DOMAIN commands /\ \A i \in 2..Len(commands) : i \in DOMAIN commands
    BY <1>0, <2>1
  <2>3. serial'.pc = "write" => serial'.hand.serial = serial'.session /\ serial'.hand.n > written'
    BY <1>0, <1>0a, <2>1, <2>2
  <2>4. ASSUME NEW i \in DOMAIN commands'
        PROVE  /\ commands'[i].mqtt = mqtt'.session
               /\ commands'[i].serial = serial'.session
               /\ commands'[i].n > written'
               /\ commands'[i].n > serial'.hand.n
               /\ \A j \in 1..(i - 1) : commands'[j].n < commands'[i].n
    <3>1. /\ i \in Nat \ {0} /\ i + 1 \in DOMAIN commands /\ commands'[i] = commands[i + 1]
      BY <1>0, <2>1, <2>2
    <3>2. commands'[i].mqtt = mqtt'.session /\ commands'[i].serial = serial'.session
      BY <1>0a, <2>1, <3>1
    <3>3. commands'[i].n > written'
      BY <1>0, <2>1, <3>1
    <3>4. commands[1].n < commands[i + 1].n
      <4>1. 1 \in 1..((i + 1) - 1)
        BY <3>1
      <4> QED
        BY <1>0, <3>1, <4>1
    <3>5. commands'[i].n > serial'.hand.n
      <4>1. commands'[i].n \in Nat \ {0} /\ commands[1].n \in Nat
        BY <1>0, <2>2, <3>1
      <4> QED
        BY <1>0, <2>1, <3>1, <3>4, <4>1
    <3>6. ASSUME NEW j \in 1..(i - 1) PROVE commands'[j].n < commands'[i].n
      <4>1. j \in DOMAIN commands' /\ j + 1 \in 1..((i + 1) - 1)
        BY <1>0, <2>1, <3>1
      <4>2. commands'[j] = commands[j + 1]
        BY <2>1, <4>1
      <4> QED
        BY <1>0, <3>1, <4>1, <4>2
    <3> QED
      BY <3>2, <3>3, <3>5, <3>6
  <2> QED
    BY <2>3, <2>4 DEF CommandsAreNeverReplayed
<1>3. ASSUME WritesCommand PROVE CommandsAreNeverReplayed'
  <2>1. /\ commands' = commands /\ written' = serial.hand.n /\ serial'.hand = serial.hand
        /\ serial'.pc # "write"
        /\ serial'.session = serial.session /\ mqtt'.session = mqtt.session
    BY <1>3 DEF WritesCommand
  <2> QED
    BY <1>0, <1>0a, <2>1 DEF CommandsAreNeverReplayed
<1>4. ASSUME AnswersCommand PROVE CommandsAreNeverReplayed'
  <2>1. /\ commands' = commands /\ written' = written /\ serial'.hand = NoCommand
        /\ serial'.pc # "write"
        /\ serial'.session = serial.session /\ mqtt'.session = mqtt.session
    BY <1>4 DEF AnswersCommand
  <2>2. \A i \in DOMAIN commands : commands[i].n > serial'.hand.n
    BY <1>0, <2>1
  <2> QED
    BY <1>0, <1>0a, <2>1, <2>2 DEF CommandsAreNeverReplayed
<1>5. ASSUME RejectsCommands PROVE CommandsAreNeverReplayed'
  <2>1. DOMAIN commands' = {}
    BY <1>5, NothingWaits DEF RejectsCommands
  <2>2. /\ serial'.pc = "write" => serial.pc = "write" /\ serial'.session = serial.session
        /\ serial'.hand = serial.hand /\ written' = written
    BY <1>5 DEF RejectsCommands
  <2> QED
    BY <1>0b, <2>1, <2>2 DEF CommandsAreNeverReplayed
<1>6. ASSUME BringsCommand PROVE CommandsAreNeverReplayed'
  <2>1. UNCHANGED <<serial, mqtt, written>>
    BY <1>6 DEF BringsCommand
  <2>2. CASE commands' = commands
    BY <1>0, <1>0a, <1>0b, <2>1, <2>2 DEF CommandsAreNeverReplayed
  <2>3. CASE commands' # commands
    <3> DEFINE c == [n |-> Len(answers'), serial |-> serial.session, mqtt |-> mqtt.session]
    <3>1. answers' = Append(answers, 0) /\ commands' = Append(commands, c)
      BY <1>6, <2>3 DEF BringsCommand
    <3>2. c.n = Len(answers') /\ c.serial = serial.session /\ c.mqtt = mqtt.session
      OBVIOUS
    <3> HIDE DEF c
    <3>3. Len(answers') = Len(answers) + 1
      BY <3>1, AppendProperties DEF CommandsOK, TypeOK
    <3>4. /\ DOMAIN commands' = 1..Len(commands) + 1
          /\ \A i \in DOMAIN commands : commands'[i] = commands[i]
          /\ commands'[Len(commands) + 1] = c
      BY <3>1, NewestJoins DEF CommandsOK
    <3>5. DOMAIN commands' = DOMAIN commands \cup {Len(commands) + 1}
      BY <1>0, <3>4
    <3>6. ASSUME NEW i \in DOMAIN commands'
          PROVE  /\ commands'[i].mqtt = mqtt.session
                 /\ commands'[i].serial = serial.session
                 /\ commands'[i].n > written
                 /\ commands'[i].n > serial.hand.n
                 /\ \A j \in 1..(i - 1) : commands'[j].n < commands'[i].n
      <4>1. CASE i \in DOMAIN commands
        <5>1. \A j \in 1..(i - 1) : j \in DOMAIN commands
          BY <1>0, <4>1
        <5> QED
          BY <1>0, <1>0a, <3>4, <4>1, <5>1
      <4>2. CASE i = Len(commands) + 1
        <5>1. commands'[i] = c
          BY <3>4, <4>2
        <5>2. \A j \in 1..(i - 1) : j \in DOMAIN commands
          BY <1>0, <4>2
        <5>3. \A j \in 1..(i - 1) : commands'[j].n \in 1..Len(answers)
          BY <1>0, <3>4, <5>2
        <5> QED
          BY <1>0, <3>2, <3>3, <5>1, <5>3
      <4> QED
        BY <3>5, <4>1, <4>2
    <3> QED
      BY <1>0b, <2>1, <3>6 DEF CommandsAreNeverReplayed
  <2> QED
    BY <2>2, <2>3
<1> QED
  BY <1>1, <1>2, <1>3, <1>4, <1>5, <1>6, CommandSteps DEF CommandsOK

\* ExactlyOneAnswer: a command is answered as it leaves the queue or the hand, and
\* no other has its number.
LEMMA AnswersKept == CommandsOK /\ Next => ExactlyOneAnswer'
<1> SUFFICES ASSUME CommandsOK, Next PROVE ExactlyOneAnswer'
  OBVIOUS
<1>0. /\ Len(commands) \in Nat /\ DOMAIN commands = 1..Len(commands)
      /\ Len(answers) \in Nat /\ DOMAIN answers = 1..Len(answers)
      /\ serial.hand.n \in 0..Len(answers) /\ NoCommand.n = 0
      /\ \A i \in DOMAIN commands :
           /\ commands[i].n \in 1..Len(answers) /\ commands[i].n > serial.hand.n
           /\ \A j \in 1..(i - 1) : commands[j].n < commands[i].n
  BY OrderFacts
<1>0a. \A n \in DOMAIN answers :
         IF n \in Numbers(commands) \cup {serial.hand.n} THEN answers[n] = 0 ELSE answers[n] = 1
  BY DEF CommandsOK, ExactlyOneAnswer
<1>0b. serial.hand.n \notin Numbers(commands) /\ Numbers(commands) \subseteq 1..Len(answers)
  BY <1>0 DEF Numbers
<1>0c. ASSUME NEW ns, Cardinality(ns) \in Nat, Answer(ns)
       PROVE  /\ DOMAIN answers' = DOMAIN answers
              /\ \A n \in DOMAIN answers :
                   answers'[n] = IF n \in ns THEN answers[n] + 1 ELSE answers[n]
  BY <1>0c, AnswerProperties DEF CommandsOK
<1>1. ASSUME KeepsCommands \/ WritesCommand PROVE ExactlyOneAnswer'
  <2>1. UNCHANGED <<commands, answers>> /\ serial'.hand = serial.hand
    BY <1>1 DEF KeepsCommands, WritesCommand
  <2>2. Numbers(commands)' = Numbers(commands)
    BY <2>1 DEF Numbers
  <2> QED
    BY <1>0a, <2>1, <2>2 DEF ExactlyOneAnswer
<1>2. ASSUME TakesCommand PROVE ExactlyOneAnswer'
  <2>1. /\ Len(commands) >= 1 /\ Head(commands) = commands[1]
        /\ DOMAIN commands' = 1..Len(commands) - 1
        /\ \A i \in DOMAIN commands' : i + 1 \in 2..Len(commands) /\ commands'[i] = commands[i + 1]
        /\ Numbers(commands) = {Head(commands).n} \cup Numbers(commands)'
    BY <1>2, OldestLeaves DEF TakesCommand, CommandsOK
  <2>2. Head(commands).n \notin Numbers(commands)'
    <3>1. ASSUME NEW i \in DOMAIN commands' PROVE commands'[i].n # commands[1].n
      <4>1. /\ i + 1 \in DOMAIN commands /\ commands'[i] = commands[i + 1]
            /\ 1 \in 1..((i + 1) - 1) /\ 1 \in DOMAIN commands
        BY <1>0, <2>1
      <4>2. commands[1].n < commands[i + 1].n /\ commands[1].n \in Nat /\ commands[i + 1].n \in Nat
        BY <1>0, <4>1
      <4> QED
        BY <4>1, <4>2
    <3> QED
      BY <2>1, <3>1 DEF Numbers
  <2>3. 0 \notin DOMAIN answers /\ serial.hand.n = 0
    BY <1>0, <1>2 DEF TakesCommand
  <2>4. CASE serial'.hand = Head(commands) /\ UNCHANGED answers
    BY <1>0a, <2>1, <2>3, <2>4 DEF ExactlyOneAnswer
  <2>5. CASE serial'.hand = NoCommand /\ Answer({Head(commands).n})
    <3>1. /\ DOMAIN answers' = DOMAIN answers
          /\ \A n \in DOMAIN answers :
               answers'[n] = IF n = Head(commands).n THEN answers[n] + 1 ELSE answers[n]
      <4>1. Cardinality({Head(commands).n}) \in Nat
        BY OrderFacts
      <4> QED
        BY <1>0c, <2>5, <4>1
    <3>2. ASSUME NEW n \in DOMAIN answers'
          PROVE  IF n \in Numbers(commands)' \cup {serial'.hand.n}
                 THEN answers'[n] = 0 ELSE answers'[n] = 1
      <4>1. CASE n = Head(commands).n
        <5>1. answers[n] = 0 /\ answers'[n] = answers[n] + 1
          BY <1>0a, <2>1, <3>1, <4>1
        <5>2. n \notin Numbers(commands)' \cup {serial'.hand.n}
          BY <1>0, <2>2, <2>3, <2>5, <3>1, <4>1
        <5> QED
          BY <5>1, <5>2
      <4>2. CASE n # Head(commands).n
        BY <1>0, <1>0a, <2>1, <2>3, <2>5, <3>1, <4>2
      <4> QED
        BY <4>1, <4>2
    <3> QED
      BY <3>2 DEF ExactlyOneAnswer
  <2> QED
    BY <1>2, <2>4, <2>5 DEF TakesCommand
<1>3. ASSUME AnswersCommand PROVE ExactlyOneAnswer'
  <2>1. commands' = commands /\ serial'.hand = NoCommand /\ Answer({serial.hand.n})
    BY <1>3 DEF AnswersCommand
  <2>2. /\ DOMAIN answers' = DOMAIN answers
        /\ \A n \in DOMAIN answers :
             answers'[n] = IF n = serial.hand.n THEN answers[n] + 1 ELSE answers[n]
    <3>1. Cardinality({serial.hand.n}) \in Nat
      BY OrderFacts
    <3> QED
      BY <1>0c, <2>1, <3>1
  <2>3. Numbers(commands)' = Numbers(commands) /\ 0 \notin DOMAIN answers
    BY <1>0, <2>1 DEF Numbers
  <2>4. ASSUME NEW n \in DOMAIN answers'
        PROVE  IF n \in Numbers(commands)' \cup {serial'.hand.n}
               THEN answers'[n] = 0 ELSE answers'[n] = 1
    <3>1. CASE n = serial.hand.n
      <4>1. answers[n] = 0 /\ answers'[n] = answers[n] + 1
        BY <1>0a, <2>2, <3>1
      <4>2. n \notin Numbers(commands)' \cup {serial'.hand.n}
        BY <1>0, <1>0b, <2>1, <2>2, <2>3, <3>1
      <4> QED
        BY <4>1, <4>2
    <3>2. CASE n # serial.hand.n
      BY <1>0, <1>0a, <2>1, <2>2, <2>3, <3>2
    <3> QED
      BY <3>1, <3>2
  <2> QED
    BY <2>4 DEF ExactlyOneAnswer
<1>4. ASSUME RejectsCommands PROVE ExactlyOneAnswer'
  <2>1. Numbers(commands)' = {} /\ serial'.hand = serial.hand /\ Answer(Numbers(commands))
    BY <1>4, NothingWaits DEF RejectsCommands
  <2>2. /\ DOMAIN answers' = DOMAIN answers
        /\ \A n \in DOMAIN answers :
             answers'[n] = IF n \in Numbers(commands) THEN answers[n] + 1 ELSE answers[n]
    <3>1. Cardinality(Numbers(commands)) \in Nat
      BY OrderFacts
    <3> QED
      BY <1>0c, <2>1, <3>1
  <2>3. ASSUME NEW n \in DOMAIN answers'
        PROVE  IF n \in Numbers(commands)' \cup {serial'.hand.n}
               THEN answers'[n] = 0 ELSE answers'[n] = 1
    <3>1. CASE n \in Numbers(commands)
      <4>1. answers[n] = 0 /\ answers'[n] = answers[n] + 1
        BY <1>0a, <2>2, <3>1
      <4> QED
        BY <1>0b, <2>1, <3>1, <4>1
    <3>2. CASE n \notin Numbers(commands)
      BY <1>0a, <2>1, <2>2, <3>2
    <3> QED
      BY <3>1, <3>2
  <2> QED
    BY <2>3 DEF ExactlyOneAnswer
<1>5. ASSUME BringsCommand PROVE ExactlyOneAnswer'
  <2> DEFINE c == [n |-> Len(answers'), serial |-> serial.session, mqtt |-> mqtt.session]
  <2>1. /\ serial' = serial
        /\ \/ answers' = Append(answers, 0) /\ commands' = Append(commands, c)
           \/ answers' = Append(answers, 1) /\ commands' = commands
    BY <1>5 DEF BringsCommand
  <2>2. c.n = Len(answers')
    OBVIOUS
  <2> HIDE DEF c
  <2>3. /\ Len(answers') = Len(answers) + 1 /\ answers' \in Seq(Nat)
        /\ \A n \in 1..Len(answers) : answers'[n] = answers[n]
        /\ \/ /\ answers'[Len(answers) + 1] = 0
              /\ commands' = Append(commands, c)
           \/ /\ answers'[Len(answers) + 1] = 1
              /\ commands' = commands
    <3>1. answers \in Seq(Nat)
      BY DEF CommandsOK, TypeOK
    <3>2. ASSUME NEW count \in Nat, answers' = Append(answers, count)
          PROVE  /\ Len(answers') = Len(answers) + 1 /\ answers' \in Seq(Nat)
                 /\ \A n \in 1..Len(answers) : answers'[n] = answers[n]
                 /\ answers'[Len(answers) + 1] = count
      BY <3>1, <3>2, AppendProperties
    <3> QED
      BY <2>1, <3>2
  <2>4. DOMAIN answers' = DOMAIN answers \cup {Len(answers) + 1}
    <3>1. DOMAIN answers' = 1..Len(answers) + 1
      BY <2>3, LenProperties
    <3> QED
      BY <1>0, <3>1
  <2>5. Len(answers) + 1 \notin Numbers(commands) \cup {serial.hand.n}
    BY <1>0, <1>0b
  <2>6. Len(answers) + 1 \notin DOMAIN answers
    BY <1>0
  <2>7. CASE commands' = Append(commands, c) /\ answers'[Len(answers) + 1] = 0
    <3>1. Numbers(commands)' = Numbers(commands) \cup {Len(answers) + 1}
      BY <2>2, <2>3, <2>7, NewestJoins DEF CommandsOK
    <3> QED
      BY <1>0, <1>0a, <2>1, <2>3, <2>4, <2>6, <2>7, <3>1 DEF ExactlyOneAnswer
  <2>8. CASE commands' = commands /\ answers'[Len(answers) + 1] = 1
    <3>1. Numbers(commands)' = Numbers(commands)
      BY <2>8 DEF Numbers
    <3> QED
      BY <1>0, <1>0a, <2>1, <2>3, <2>4, <2>5, <2>8, <3>1 DEF ExactlyOneAnswer
  <2> QED
    BY <2>3, <2>7, <2>8
<1> QED
  BY <1>1, <1>2, <1>3, <1>4, <1>5, CommandSteps DEF CommandsOK

-----------------------------------------------------------------------------
\* The events: what a result raises is new, what publishing removes was published.
LEMMA EventsKept == EventsOK /\ TypeOK' /\ Next => EventsOK'
<1> SUFFICES ASSUME EventsOK, TypeOK', Next PROVE EventsOK'
  OBVIOUS
<1>0. /\ TypeOK /\ nextEvent \in Nat /\ mqtt \in MqttState
      /\ mqtt.pc = "pop" => mqtt.event \in delivered
      /\ \A e \in 1..nextEvent :
           e \in delivered \cup displaced \cup {events[i] : i \in DOMAIN events}
  BY DEF EventsOK, TypeOK, NoEventIsSkipped
<1> USE DEF Mqtt, Thrown, MqttState, historyVars, eventVars
<1>1. delivered \subseteq delivered' /\ (mqtt'.pc = "pop" => mqtt'.event \in delivered')
  <2>1. CASE PublishEvent
    BY <1>0, <2>1 DEF PublishEvent
  <2>2. ASSUME delivered' = delivered, mqtt' = mqtt \/ mqtt'.pc # "pop"
        PROVE  delivered \subseteq delivered' /\ (mqtt'.pc = "pop" => mqtt'.event \in delivered')
    BY <1>0, <2>2
  <2>3. CASE SerialStep \/ Enqueue \/ Reject \/ SampleAges \/ RequestStop \/ UNCHANGED vars
    <3>1. delivered' = delivered /\ mqtt' = mqtt
      BY <2>3 DEF SerialStep, SerialOpen, SerialRead, RecordSample, RecordAck, TakeCommand,
             TakeNothing, WriteCommand, AnswerWrite, SerialCaught, SerialEnd, Enqueue, Reject,
             SampleAges, RequestStop, vars
    <3> QED
      BY <2>2, <3>1
  <2>4. CASE MqttConnect \/ MqttReceive \/ MqttPick \/ PublishReading \/ PopEvent
             \/ MqttCaught \/ MqttEnd
    <3>1. delivered' = delivered
      BY <2>4 DEF MqttConnect, MqttReceive, MqttPick, PublishReading, PopEvent, MqttCaught, MqttEnd
    <3>2. mqtt'.pc # "pop"
      BY <1>0, <2>4
      DEF MqttConnect, MqttReceive, MqttPick, PublishReading, PopEvent, MqttCaught, MqttEnd
    <3> QED
      BY <2>2, <3>1, <3>2
  <2> QED
    BY <2>1, <2>3, <2>4 DEF Next, SerialStep
<1>2. CASE \E count \in Nat : Raise(count)
  <2>1. PICK count \in Nat : Raise(count)
    BY <1>2
  <2>2. /\ displaced \subseteq displaced' /\ nextEvent' \in Nat
        /\ \A e \in 1..nextEvent' :
             e > nextEvent \/ (\E i \in DOMAIN events : events[i] = e) =>
               e \in displaced' \cup {events'[i] : i \in DOMAIN events'}
    BY <1>0, <2>1, RaiseProperties DEF TypeOK
  <2>3. ASSUME NEW e \in 1..nextEvent'
        PROVE  e \in delivered' \cup displaced' \cup {events'[i] : i \in DOMAIN events'}
    <3>1. e > nextEvent \/ e \in 1..nextEvent
      BY <1>0, <2>2
    <3> QED
      BY <1>0, <1>1, <2>2, <3>1
  <2> QED
    BY <1>1, <2>3 DEF EventsOK, NoEventIsSkipped
<1>3. CASE PopEvent
  <2>1. UNCHANGED <<nextEvent, displaced, delivered>> /\ mqtt.pc = "pop"
    BY <1>3 DEF PopEvent
  <2>2. CASE events' = events
    BY <1>0, <1>1, <2>1, <2>2 DEF EventsOK, NoEventIsSkipped
  <2>3. CASE events # <<>> /\ Head(events) = mqtt.event /\ events' = Tail(events)
    <3>1. /\ Len(events) \in Nat /\ DOMAIN events = 1..Len(events)
          /\ events \in Seq(1..nextEvent)
      BY <1>0, LenProperties DEF TypeOK
    <3>2. /\ Len(events') = Len(events) - 1 /\ events' \in Seq(1..nextEvent)
          /\ \A i \in 1..Len(Tail(events)) : Tail(events)[i] = events[i + 1]
          /\ Head(events) = events[1]
      BY <2>3, <3>1, HeadTailProperties
    <3>3. DOMAIN events' = 1..Len(events) - 1
      BY <3>2, LenProperties
    <3>4. ASSUME NEW i \in DOMAIN events
          PROVE  events[i] \in delivered \/ \E j \in DOMAIN events' : events'[j] = events[i]
      <4>1. CASE i = 1
        BY <1>0, <2>1, <2>3, <3>2, <4>1
      <4>2. CASE i # 1
        <5>1. i - 1 \in 1..Len(Tail(events)) /\ i - 1 \in DOMAIN events' /\ (i - 1) + 1 = i
          BY <2>3, <3>1, <3>2, <3>3, <4>2
        <5>2. events'[i - 1] = events[i]
          BY <2>3, <3>2, <5>1
        <5> QED
          BY <5>1, <5>2
      <4> QED
        BY <4>1, <4>2
    <3> QED
      BY <1>0, <1>1, <2>1, <3>4 DEF EventsOK, NoEventIsSkipped
  <2> QED
    BY <1>3, <2>2, <2>3 DEF PopEvent
<1>4. CASE UNCHANGED <<events, nextEvent, displaced>>
  BY <1>0, <1>1, <1>4 DEF EventsOK, NoEventIsSkipped
<1>5. CASE \E ns : Answer(ns) /\ Cardinality(ns) \in Nat
  BY <1>2, <1>5 DEF Answer
<1>6. Cardinality(Numbers(commands)) \in Nat /\ \A n : Cardinality({n}) \in Nat
  <2>1. Cardinality(Numbers(commands)) \in Nat
    BY <1>0, NumbersAreFinite
  <2> QED
    BY <2>1, OneIsFinite
<1>7. CASE TakeCommand \/ AnswerWrite \/ SerialCaught \/ MqttCaught
  BY <1>4, <1>5, <1>6, <1>7 DEF TakeCommand, AnswerWrite, SerialCaught, MqttCaught, RejectAll
<1>8. CASE RecordAck \/ Reject
  <2>1. Raise(1) /\ 1 \in Nat
    BY <1>8 DEF RecordAck, Reject
  <2> QED
    BY <1>2, <2>1
<1> QED
  BY <1>3, <1>4, <1>7, <1>8
  DEF Next, SerialOpen, SerialRead, RecordSample, TakeNothing, WriteCommand, SerialEnd,
      MqttConnect, MqttReceive, Enqueue, MqttPick, PublishReading, PublishEvent, MqttEnd,
      SampleAges, RequestStop, vars

-----------------------------------------------------------------------------
LEMMA TypesKept == TypeOK /\ PortOK /\ ConnectionOK /\ Next => TypeOK'
  BY SerialKeepsTypes, MqttKeepsTypes, OthersKeepTypes DEF Next, SerialStep, MqttStep

LEMMA AllKept == (CommandsOK /\ EventsOK) /\ [Next]_vars => (CommandsOK /\ EventsOK)'
<1> SUFFICES ASSUME CommandsOK, EventsOK, [Next]_vars PROVE (CommandsOK /\ EventsOK)'
  OBVIOUS
<1>1. CASE Next
  <2>1. TypeOK' /\ PortOK' /\ ConnectionOK'
    BY <1>1, TypesKept, PortKept, ConnectionKept DEF CommandsOK
  <2>2. NumbersOK' /\ CommandsAreNeverReplayed' /\ ExactlyOneAnswer'
    BY <1>1, NumbersKept, ReplayKept, AnswersKept
  <2>3. EventsOK'
    BY <1>1, <2>1, EventsKept
  <2> QED
    BY <2>1, <2>2, <2>3 DEF CommandsOK
<1>2. CASE UNCHANGED vars
  BY <1>2
  DEF vars, CommandsOK, EventsOK, TypeOK, SerialState, MqttState, PortOK, ConnectionOK, NumbersOK,
      CommandsAreNeverReplayed, ExactlyOneAnswer, NoEventIsSkipped, Numbers
<1> QED
  BY <1>1, <1>2

LEMMA Stm32Invariants == Spec => [](CommandsOK /\ EventsOK)
  BY StartsOK, AllKept, PTL DEF Spec

\* Type correctness: what waits for the board, what is in hand and what waits for
\* the broker are of their types and within the two capacities.
THEOREM Stm32TypeCorrect == Spec => []TypeOK
<1>1. CommandsOK /\ EventsOK => TypeOK
  BY DEF CommandsOK
<1> QED
  BY <1>1, Stm32Invariants, PTL

\* Every command the broker brought is answered once, whatever happens to it and
\* whichever thread ends it; none is answered while it may still be written.
THEOREM CommandsAnsweredOnce == Spec => []ExactlyOneAnswer
<1>1. CommandsOK /\ EventsOK => ExactlyOneAnswer
  BY DEF CommandsOK
<1> QED
  BY <1>1, Stm32Invariants, PTL

\* No command outlives the connection or the port session it was accepted in, and
\* none is written twice or after a younger one.
THEOREM NothingReplayed == Spec => []CommandsAreNeverReplayed
<1>1. CommandsOK /\ EventsOK => CommandsAreNeverReplayed
  BY DEF CommandsOK
<1> QED
  BY <1>1, Stm32Invariants, PTL

\* Every event raised was published, displaced at the limit, or still waits.
THEOREM NoEventLost == Spec => []NoEventIsSkipped
<1>1. CommandsOK /\ EventsOK => NoEventIsSkipped
  BY DEF EventsOK
<1> QED
  BY <1>1, Stm32Invariants, PTL

=============================================================================
