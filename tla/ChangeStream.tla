---------------------------- MODULE ChangeStream ----------------------------
(***************************************************************************)
(* The streams over which clients follow one change (core/update/          *)
(* update_object.py, backend/change_ws.py).  The update thread appends     *)
(* messages and goes through message_observers by index; meanwhile the     *)
(* reactor thread replays the messages to a client that connects, adds it  *)
(* to the list, and removes those whose connection closes.  A message is   *)
(* its place in the list of messages.                                      *)
(***************************************************************************)
EXTENDS Naturals, Sequences

CONSTANTS
  Observer,    \* connections
  NoObserver,
  MaxProgress  \* bound on the messages before the completion

ASSUME ChangeStreamAssumption ==
  /\ NoObserver \notin Observer
  /\ MaxProgress \in Nat

VARIABLES
  messages,    \* how many there are
  completed,
  message_observers,
  pc,          \* the update thread
  index,       \* its place in the loop over the observers
  conn,        \* the state of each connection
  received,    \* what each client has received
  joining,     \* the reactor thread: whose add_message_observer runs,
  stage,       \* how far it is,
  replayed,    \* and the next message it replays
  crossed,     \* history: observers whose joining crossed a message, or that were skipped
  unclosed     \* history: observers the loop of complete() skipped

update == <<messages, completed, pc, index>>
reactor == <<joining, stage, replayed>>
history == <<crossed, unclosed>>
vars == <<update, message_observers, conn, received, reactor, history>>

\* The update thread in a loop over the observers.
Loops == {"progress", "closing", "last"}

TypeOK ==
  /\ messages \in Nat
  /\ completed \in BOOLEAN
  /\ message_observers \in Seq({o \in Observer : conn[o] \in {"open", "closing"}})
  /\ pc \in Loops \cup {"working", "completing", "closed", "done"}
  /\ index \in Nat \ {0}
  /\ conn \in [Observer -> {"new", "open", "closing", "closed"}]
  /\ received \in [Observer -> Seq(1 .. messages)]
  /\ joining \in Observer \cup {NoObserver}
  /\ stage \in {"idle", "replay", "append", "check"}
  /\ replayed \in Nat \ {0}
  /\ crossed \subseteq Observer
  /\ unclosed \subseteq Observer

Init ==
  /\ messages = 0
  /\ completed = FALSE
  /\ message_observers = <<>>
  /\ pc = "working"
  /\ index = 1
  /\ conn = [o \in Observer |-> "new"]
  /\ received = [o \in Observer |-> <<>>]
  /\ joining = NoObserver
  /\ stage = "idle"
  /\ replayed = 1
  /\ crossed = {}
  /\ unclosed = {}

\* What o has received after sendMessage: nothing more once it is being closed.
WithMessage(o, message) ==
  IF conn[o] = "open" THEN [received EXCEPT ![o] = Append(@, message)] ELSE received
-----------------------------------------------------------------------------
(* The update thread *)

\* A loop over the observers starts with a new message.
Send(from, to) ==
  /\ pc = from
  /\ pc' = to
  /\ messages' = messages + 1
  /\ index' = 1
  /\ UNCHANGED <<completed, message_observers, conn, received, reactor, history>>

Progress == messages < MaxProgress /\ Send("working", "progress")

\* complete() calls progress with the text of the outcome in the end.
ProgressOfOutcome == Send("closed", "last")

\* The next observer's on_message, in complete() also its on_complete.
Notify ==
  /\ pc \in Loops
  /\ index <= Len(message_observers)
  /\ received' = WithMessage(message_observers[index], messages)
  /\ conn' = IF pc = "closing" /\ conn[message_observers[index]] = "open"
               THEN [conn EXCEPT ![message_observers[index]] = "closing"] ELSE conn
  /\ index' = index + 1
  /\ UNCHANGED <<messages, completed, message_observers, pc, reactor, history>>

EndLoop ==
  /\ pc \in Loops
  /\ index > Len(message_observers)
  /\ pc' = CASE pc = "progress" -> "working"
             [] pc = "closing" -> "closed"
             [] pc = "last" -> "done"
  /\ UNCHANGED <<messages, completed, index, message_observers, conn, received, reactor, history>>

\* complete(): the last message but one is in the list.
Complete ==
  /\ pc = "working"
  /\ pc' = "completing"
  /\ messages' = messages + 1
  /\ UNCHANGED <<completed, index, message_observers, conn, received, reactor, history>>

SetCompleted ==
  /\ pc = "completing"
  /\ pc' = "closing"
  /\ completed' = TRUE
  /\ index' = 1
  /\ UNCHANGED <<messages, message_observers, conn, received, reactor, history>>
-----------------------------------------------------------------------------
(* The reactor thread *)

\* Faulty variant: the observer is in the list before the messages are replayed.
onOpenAdded(o) ==
  /\ joining = NoObserver
  /\ conn[o] = "new"
  /\ conn' = [conn EXCEPT ![o] = "open"]
  /\ joining' = o
  /\ stage' = "replay"
  /\ replayed' = 1
  /\ message_observers' = Append(message_observers, o)
  /\ UNCHANGED <<update, received, history>>

\* onOpen: add_message_observer begins.
onOpen(o) ==
  /\ joining = NoObserver
  /\ conn[o] = "new"
  /\ conn' = [conn EXCEPT ![o] = "open"]
  /\ joining' = o
  /\ stage' = "replay"
  /\ replayed' = 1
  /\ UNCHANGED <<update, message_observers, received, history>>

Replay ==
  /\ stage = "replay"
  /\ replayed <= messages
  /\ received' = WithMessage(joining, replayed)
  /\ replayed' = replayed + 1
  /\ UNCHANGED <<update, message_observers, conn, joining, stage, history>>

EndReplay ==
  /\ stage = "replay"
  /\ replayed > messages
  /\ stage' = "append"
  /\ UNCHANGED <<update, message_observers, conn, received, joining, replayed, history>>

\* The observer is in the list.  "crossed": a message came up in the meantime, or
\* one is being sent.
Join ==
  /\ stage = "append"
  /\ message_observers' = Append(message_observers, joining)
  /\ crossed' = IF replayed <= messages \/ pc \in Loops \cup {"completing"}
                  THEN crossed \cup {joining} ELSE crossed
  /\ stage' = "check"
  /\ UNCHANGED <<update, conn, received, joining, replayed, unclosed>>

\* Faulty variant: the observer is told in the loop of complete() only.
CheckNothing ==
  /\ stage = "check"
  /\ stage' = "idle"
  /\ joining' = NoObserver
  /\ UNCHANGED <<update, message_observers, conn, received, replayed, history>>

\* The end of add_message_observer: on_complete if the update is complete, which
\* may come before the last message but one.
CheckCompleted ==
  /\ stage = "check"
  /\ crossed' = IF pc = "closing" THEN crossed \cup {joining} ELSE crossed
  /\ conn' = IF completed /\ conn[joining] = "open"
               THEN [conn EXCEPT ![joining] = "closing"] ELSE conn
  /\ stage' = "idle"
  /\ joining' = NoObserver
  /\ UNCHANGED <<update, message_observers, received, replayed, unclosed>>

Without(list, i) == SubSeq(list, 1, i - 1) \o SubSeq(list, i + 1, Len(list))

\* Whom the loop passes over when the observer at place i is removed.
Skipped(i) ==
  IF pc \in Loops /\ i < index /\ index <= Len(message_observers)
    THEN {message_observers[index]} ELSE {}

\* Faulty variant: the observer stays in the list.
onCloseKept(o) ==
  /\ joining = NoObserver
  /\ conn[o] \in {"open", "closing"}
  /\ conn' = [conn EXCEPT ![o] = "closed"]
  /\ UNCHANGED <<update, message_observers, received, reactor, history>>

\* The client has left, or the closing handshake is over:
\* remove_message_observer.
onClose(o) ==
  /\ joining = NoObserver
  /\ conn[o] \in {"open", "closing"}
  /\ \E i \in 1 .. Len(message_observers) :
       /\ message_observers[i] = o
       /\ message_observers' = Without(message_observers, i)
       /\ crossed' = crossed \cup Skipped(i)
       /\ unclosed' = IF pc = "closing" THEN unclosed \cup Skipped(i) ELSE unclosed
  /\ conn' = [conn EXCEPT ![o] = "closed"]
  /\ UNCHANGED <<update, received, reactor>>

UpdateThread == Notify \/ EndLoop \/ SetCompleted \/ ProgressOfOutcome

Joining == Replay \/ EndReplay \/ Join \/ CheckCompleted

Closing(o) == conn[o] = "closing" /\ onClose(o)

Next ==
  \/ Progress \/ Complete \/ UpdateThread
  \/ Joining
  \/ \E o \in Observer : onOpen(o) \/ onClose(o)

\* Both threads go on with what they have begun, a closing handshake ends.
Spec ==
  /\ Init /\ [][Next]_vars
  /\ WF_vars(UpdateThread)
  /\ WF_vars(Joining)
  /\ \A o \in Observer : WF_vars(Closing(o))
-----------------------------------------------------------------------------
UpTo(n) == [i \in 1 .. n |-> i]

\* No client is shown a message after a later one.
InOrder ==
  \A o \in Observer : \A i, j \in 1 .. Len(received[o]) :
    i < j => received[o][i] <= received[o][j]

\* An observer whose joining crossed no message and that was never passed over has
\* exactly the messages there are, between two loops, and had all but at most
\* the text of the outcome when its stream is closed.
NothingMissed ==
  \A o \in {message_observers[i] : i \in 1 .. Len(message_observers)} \ crossed :
    /\ conn[o] = "open" /\ pc \in {"working", "closed", "done"} =>
         received[o] = UpTo(messages)
    /\ conn[o] = "closing" =>
         /\ completed
         /\ received[o] = UpTo(messages)
              \/ (pc \in {"last", "done"} /\ received[o] = UpTo(messages - 1))

\* When the loop of complete() is over, no stream it did not pass over is left open,
\* but for the one of an observer that add_message_observer is about to tell.
NoneLeftOpen ==
  completed /\ pc # "closing" =>
    \A o \in Observer : conn[o] = "open" => o = joining \/ o \in unclosed

\* What a client sees is what the update did, in order and to its end: the two threads
\* share the lists without a lock (progress, complete, add_message_observer).
StreamFaithful == InOrder /\ NothingMissed /\ NoneLeftOpen

\* "Mark the update as complete and notify any observers": the stream of every
\* observer ends after the update, unless the loop of complete() passes over it
\* because another observer is removed meanwhile.
EveryStreamEnds ==
  \A o \in Observer :
    completed /\ conn[o] = "open" ~> conn[o] = "closed" \/ o \in unclosed
=============================================================================
