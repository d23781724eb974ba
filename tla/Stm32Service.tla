---------------------------- MODULE Stm32Service ----------------------------
(***************************************************************************)
(* stm32::Stm32Service (src/stm32/stm32_service.cpp): one thread owns the  *)
(* serial port, one the MQTT connection; they share the last sample, the   *)
(* queue of commands to the board and the queue of events to the broker    *)
(* under one mutex.  A critical section, or a call on the port or the      *)
(* client, is one step.  The board, the broker and the clocks (deadline of *)
(* a sample, status period) are choices.  The state is that of one start() *)
(* to the end of both threads.                                             *)
(***************************************************************************)
EXTENDS Naturals, Sequences, FiniteSets

CONSTANTS CommandCapacity, \* 16
          EventCapacity,   \* 32
          MaxCommands,     \* bound: commands the broker delivers
          MaxFrames,       \* bound: samples, and likewise ACKs, of the board
          MaxSessions      \* bound: successful opens, and likewise connects

VARIABLES serial,    \* serial_loop: pc, session, open port, command in hand
          mqtt,      \* mqtt_loop: pc, session, connection, what it publishes
          online,    \* serial_connected_
          sample,    \* sample_: its generation and whether it is fresh
          samples,   \* sample_generation_
          commands,  \* commands_
          events,    \* events_: ids, oldest first
          nextEvent, \* next_event_
          stop,      \* stop_
          answers,   \* history: results made for the n-th command
          written,   \* history: the last command given to the port
          delivered, \* history: events whose publish succeeded
          displaced, \* history: events dropped at the limit
          acks       \* history: ACK frames so far

vars == <<serial, mqtt, online, sample, samples, commands, events, nextEvent,
          stop, answers, written, delivered, displaced, acks>>

ASSUME Stm32Assumption ==
  /\ CommandCapacity \in Nat \ {0} /\ EventCapacity \in Nat \ {0}
  /\ MaxCommands \in Nat /\ MaxFrames \in Nat /\ MaxSessions \in Nat

NoCommand == [n |-> 0, serial |-> 0, mqtt |-> 0]
NoSample  == [gen |-> 0, fresh |-> FALSE]

Init ==
  /\ serial = [pc |-> "top", session |-> 0, open |-> FALSE, hand |-> NoCommand]
  /\ mqtt = [pc |-> "top", session |-> 0, connected |-> FALSE,
             published |-> 0, reading |-> 0, event |-> 0]
  /\ online = FALSE /\ sample = NoSample /\ samples = 0
  /\ commands = <<>> /\ events = <<>> /\ nextEvent = 0
  /\ stop = FALSE
  /\ answers = <<>> /\ written = 0 /\ delivered = {} /\ displaced = {} /\ acks = 0

eventVars   == <<events, nextEvent, displaced>>
historyVars == <<answers, written, delivered, acks>>

\* online_locked
Online == online /\ sample.gen > 0 /\ sample.fresh

\* event(), count times over: past the limit the oldest events go.
Raise(count) ==
  LET all == events \o [i \in 1..count |-> nextEvent + i]
      excess == IF Len(all) > EventCapacity THEN Len(all) - EventCapacity ELSE 0
  IN /\ nextEvent' = nextEvent + count
     /\ events' = SubSeq(all, excess + 1, Len(all))
     /\ displaced' = displaced \cup {all[i] : i \in 1..excess}

\* result() for each of the commands numbered in ns.
Answer(ns) ==
  /\ answers' = [n \in DOMAIN answers |-> IF n \in ns THEN answers[n] + 1 ELSE answers[n]]
  /\ Raise(Cardinality(ns))

Numbers(queue) == {queue[i].n : i \in DOMAIN queue}

\* Both exception handlers: every command still queued is answered and gone.
RejectAll == Answer(Numbers(commands)) /\ commands' = <<>>

-----------------------------------------------------------------------------
\* serial_loop

Serial(from, update) == serial.pc = from /\ serial' = update

SerialOpen ==
  /\ ~stop /\ ~serial.open
  /\ \/ /\ serial.session < MaxSessions
        /\ Serial("top", [serial EXCEPT !.pc = "read", !.open = TRUE, !.session = @ + 1])
        /\ online' = TRUE /\ sample' = NoSample
     \/ Serial("top", [serial EXCEPT !.pc = "caught"]) /\ UNCHANGED <<online, sample>>
  /\ UNCHANGED <<mqtt, samples, commands, stop, eventVars, historyVars>>

\* read() of the open port: bytes, none, or the port is gone.
SerialRead ==
  /\ \/ Serial("read", [serial EXCEPT !.pc = "frames"])
     \/ Serial("read", [serial EXCEPT !.pc = "caught"])
     \/ ~stop /\ serial.open /\ Serial("top", [serial EXCEPT !.pc = "read"])
  /\ UNCHANGED <<mqtt, online, sample, samples, commands, stop, eventVars, historyVars>>

RecordSample ==
  /\ samples < MaxFrames
  /\ Serial("frames", serial)
  /\ samples' = samples + 1
  /\ sample' = [gen |-> samples', fresh |-> TRUE]
  /\ UNCHANGED <<mqtt, online, commands, stop, eventVars, historyVars>>

RecordAck ==
  /\ acks < MaxFrames
  /\ Serial("frames", serial)
  /\ acks' = acks + 1
  /\ Raise(1)
  /\ UNCHANGED <<mqtt, online, sample, samples, commands, stop, answers, written, delivered>>

\* The oldest command leaves the queue; it is rejected if the sample aged.
TakeCommand ==
  /\ commands # <<>>
  /\ LET c == Head(commands)
     IN IF Online
        THEN /\ Serial("frames", [serial EXCEPT !.pc = "write", !.hand = c])
             /\ UNCHANGED <<eventVars, answers>>
        ELSE Serial("frames", [serial EXCEPT !.pc = "top"]) /\ Answer({c.n})
  /\ commands' = Tail(commands)
  /\ UNCHANGED <<mqtt, online, sample, samples, stop, written, delivered, acks>>

TakeNothing ==
  /\ commands = <<>>
  /\ Serial("frames", [serial EXCEPT !.pc = "top"])
  /\ UNCHANGED <<mqtt, online, sample, samples, commands, stop, eventVars, historyVars>>

\* write() succeeds, or fails with any part of the frame on the wire.
WriteCommand ==
  /\ \/ Serial("write", [serial EXCEPT !.pc = "sent"])
     \/ Serial("write", [serial EXCEPT !.pc = "unknown"])
  /\ written' = serial.hand.n
  /\ UNCHANGED <<mqtt, online, sample, samples, commands, stop, eventVars,
                 answers, delivered, acks>>

\* Mutant: what could not be written is queued again.
AnswerWrite_Retries ==
  /\ \/ Serial("sent", [serial EXCEPT !.pc = "top", !.hand = NoCommand])
        /\ UNCHANGED commands
     \/ Serial("unknown", [serial EXCEPT !.pc = "caught", !.hand = NoCommand])
        /\ commands' = <<serial.hand>> \o commands
  /\ Answer({serial.hand.n})
  /\ UNCHANGED <<mqtt, online, sample, samples, stop, written, delivered, acks>>

AnswerWrite ==
  /\ \/ Serial("sent", [serial EXCEPT !.pc = "top", !.hand = NoCommand])
     \/ Serial("unknown", [serial EXCEPT !.pc = "caught", !.hand = NoCommand])
  /\ Answer({serial.hand.n})
  /\ UNCHANGED <<mqtt, online, sample, samples, commands, stop, written, delivered, acks>>

SerialCaught ==
  /\ Serial("caught", [serial EXCEPT !.pc = "top", !.open = FALSE])
  /\ online' = FALSE /\ sample' = NoSample
  /\ RejectAll
  /\ UNCHANGED <<mqtt, samples, stop, written, delivered, acks>>

SerialEnd ==
  /\ stop
  /\ Serial("top", [serial EXCEPT !.pc = "done", !.open = FALSE])
  /\ online' = FALSE
  /\ UNCHANGED <<mqtt, sample, samples, commands, stop, eventVars, historyVars>>

-----------------------------------------------------------------------------
\* mqtt_loop

Mqtt(from, update) == mqtt.pc = from /\ mqtt' = update
Thrown(from) == Mqtt(from, [mqtt EXCEPT !.pc = "caught"])

\* connect and subscribe, unless still connected; clean session.
MqttConnect ==
  /\ ~stop
  /\ \/ mqtt.connected /\ Mqtt("top", [mqtt EXCEPT !.pc = "receive"])
     \/ /\ ~mqtt.connected /\ mqtt.session < MaxSessions
        /\ Mqtt("top", [mqtt EXCEPT !.pc = "receive", !.connected = TRUE,
                                    !.session = @ + 1, !.published = 0])
     \/ ~mqtt.connected /\ Thrown("top")
  /\ UNCHANGED <<serial, online, sample, samples, commands, stop, eventVars, historyVars>>

MqttReceive ==
  /\ Mqtt("receive", [mqtt EXCEPT !.pc = "messages"]) \/ Thrown("receive")
  /\ UNCHANGED <<serial, online, sample, samples, commands, stop, eventVars, historyVars>>

\* enqueue_command: the message takes a number, then it is queued ...
Enqueue ==
  /\ mqtt.pc = "messages" /\ Len(answers) < MaxCommands
  /\ Online /\ Len(commands) < CommandCapacity
  /\ answers' = Append(answers, 0)
  /\ commands' = Append(commands, [n |-> Len(answers'), serial |-> serial.session,
                                   mqtt |-> mqtt.session])
  /\ UNCHANGED <<serial, mqtt, online, sample, samples, stop, eventVars,
                 written, delivered, acks>>

\* ... or rejected at once: retained, too long, offline or busy.
Reject ==
  /\ mqtt.pc = "messages" /\ Len(answers) < MaxCommands
  /\ answers' = Append(answers, 1)
  /\ Raise(1)
  /\ UNCHANGED <<serial, mqtt, online, sample, samples, commands, stop,
                 written, delivered, acks>>

\* The status is published if it is due.  Then, under the mutex, what to
\* publish next: a reading not published yet, the oldest event.
MqttPick ==
  /\ \/ Mqtt("messages",
          [mqtt EXCEPT !.pc = "reading",
             !.reading = IF Online /\ sample.gen # mqtt.published THEN sample.gen ELSE 0,
             !.event = IF events = <<>> THEN 0 ELSE Head(events)])
     \/ Thrown("messages")
  /\ UNCHANGED <<serial, online, sample, samples, commands, stop, eventVars, historyVars>>

PublishReading ==
  /\ \/ Mqtt("reading", [mqtt EXCEPT !.pc = "event",
                           !.published = IF mqtt.reading > 0 THEN mqtt.reading ELSE @])
     \/ mqtt.reading > 0 /\ Thrown("reading")
  /\ UNCHANGED <<serial, online, sample, samples, commands, stop, eventVars, historyVars>>

\* publish() of an event; when it throws the event stays and is sent again.
PublishEvent ==
  /\ \/ /\ mqtt.event = 0
        /\ Mqtt("event", [mqtt EXCEPT !.pc = "top"])
        /\ UNCHANGED delivered
     \/ /\ mqtt.event > 0
        /\ Mqtt("event", [mqtt EXCEPT !.pc = "pop"])
        /\ delivered' = delivered \cup {mqtt.event}
     \/ mqtt.event > 0 /\ Thrown("event") /\ UNCHANGED delivered
  /\ UNCHANGED <<serial, online, sample, samples, commands, stop, eventVars,
                 answers, written, acks>>

\* Mutant: the front is popped whatever it is by now.
PopEvent_AnyFront ==
  /\ Mqtt("pop", [mqtt EXCEPT !.pc = "top"])
  /\ events' = IF events = <<>> THEN events ELSE Tail(events)
  /\ UNCHANGED <<serial, online, sample, samples, commands, stop, nextEvent, displaced,
                 historyVars>>

\* Only the event just published is popped; it may have been displaced.
PopEvent ==
  /\ Mqtt("pop", [mqtt EXCEPT !.pc = "top"])
  /\ events' = IF events # <<>> /\ Head(events) = mqtt.event THEN Tail(events) ELSE events
  /\ UNCHANGED <<serial, online, sample, samples, commands, stop, nextEvent, displaced,
                 historyVars>>

\* Mutant: commands wait for the next connection.
MqttCaught_KeepsCommands ==
  /\ Mqtt("caught", [mqtt EXCEPT !.pc = "top", !.connected = FALSE])
  /\ UNCHANGED <<serial, online, sample, samples, commands, stop, eventVars, historyVars>>

MqttCaught ==
  /\ Mqtt("caught", [mqtt EXCEPT !.pc = "top", !.connected = FALSE])
  /\ RejectAll
  /\ UNCHANGED <<serial, online, sample, samples, stop, written, delivered, acks>>

MqttEnd ==
  /\ stop
  /\ Mqtt("top", [mqtt EXCEPT !.pc = "done", !.connected = FALSE])
  /\ UNCHANGED <<serial, online, sample, samples, commands, stop, eventVars, historyVars>>

-----------------------------------------------------------------------------
\* stale_timeout_ms has passed since the last sample.
SampleAges ==
  /\ sample.fresh
  /\ sample' = [sample EXCEPT !.fresh = FALSE]
  /\ UNCHANGED <<serial, mqtt, online, samples, commands, stop, eventVars, historyVars>>

RequestStop ==
  /\ ~stop
  /\ stop' = TRUE
  /\ UNCHANGED <<serial, mqtt, online, sample, samples, commands, eventVars, historyVars>>

Next ==
  \/ SerialOpen \/ SerialRead \/ RecordSample \/ RecordAck
  \/ TakeCommand \/ TakeNothing \/ WriteCommand \/ AnswerWrite
  \/ SerialCaught \/ SerialEnd
  \/ MqttConnect \/ MqttReceive \/ Enqueue \/ Reject \/ MqttPick
  \/ PublishReading \/ PublishEvent \/ PopEvent \/ MqttCaught \/ MqttEnd
  \/ SampleAges \/ RequestStop
  \/ serial.pc = "done" /\ mqtt.pc = "done" /\ UNCHANGED vars

Spec == Init /\ [][Next]_vars

-----------------------------------------------------------------------------
Command == [n : 1..MaxCommands, serial : 1..MaxSessions, mqtt : 1..MaxSessions]

SerialState ==
  [pc : {"top", "read", "frames", "write", "sent", "unknown", "caught", "done"},
   session : 0..MaxSessions, open : BOOLEAN, hand : Command \cup {NoCommand}]

MqttState ==
  [pc : {"top", "receive", "messages", "reading", "event", "pop", "caught", "done"},
   session : 0..MaxSessions, connected : BOOLEAN,
   published : 0..samples, reading : 0..samples, event : 0..nextEvent]

TypeOK ==
  /\ serial \in SerialState /\ mqtt \in MqttState
  /\ online \in BOOLEAN /\ stop \in BOOLEAN
  /\ samples \in 0..MaxFrames /\ sample \in [gen : 0..samples, fresh : BOOLEAN]
  /\ commands \in Seq(Command) /\ Len(commands) <= CommandCapacity
  /\ nextEvent \in Nat
  /\ events \in Seq(1..nextEvent) /\ Len(events) <= EventCapacity
  /\ answers \in Seq(Nat) /\ Len(answers) <= MaxCommands
  /\ acks \in 0..MaxFrames

\* Every command gets exactly one result, whether it is written, cut off in the
\* middle of a write or rejected by either thread's error handler, and none is
\* answered while it may still be written.
ExactlyOneAnswer ==
  \A n \in DOMAIN answers :
    IF n \in Numbers(commands) \cup {serial.hand.n} THEN answers[n] = 0 ELSE answers[n] = 1

\* A command is never replayed: what waits was accepted over the current MQTT
\* connection, what waits or is being written was accepted while the current
\* serial session was up, and nothing is written twice or out of order.
CommandsAreNeverReplayed ==
  /\ \A i \in DOMAIN commands :
       /\ commands[i].mqtt = mqtt.session
       /\ commands[i].serial = serial.session
       /\ commands[i].n > written
       /\ commands[i].n > serial.hand.n
       /\ \A j \in 1..(i - 1) : commands[j].n < commands[i].n
  /\ serial.pc = "write" => serial.hand.serial = serial.session /\ serial.hand.n > written

\* An event leaves the queue only because it was published or because newer
\* ones displaced it at the limit, also when both happen at the same moment.
NoEventIsSkipped ==
  \A e \in 1..nextEvent : e \in delivered \cup displaced \cup {events[i] : i \in DOMAIN events}
=============================================================================
