------------------------------ MODULE ChatClient ------------------------------
(***************************************************************************)
(* The terminal chat of scripts/domesticllm-tui.py.  For each turn the     *)
(* main thread starts a daemon thread that sends the conversation and puts *)
(* what the stream brings into a queue of that turn; the main thread takes *)
(* events from the queue until the one that ends the turn.  Ctrl-C ends    *)
(* the turn and leaves the thread behind.                                  *)
(*                                                                         *)
(* Text is counted in pieces.  The events that only feed the display       *)
(* (connecting, submitted, headers, usage, malformed) are left out.        *)
(* Closing the connection from the main thread either makes the next       *)
(* operation of the worker fail or has no effect; both are steps a worker  *)
(* may take anyway, so the close itself is no step.  scripts/pds4-tui.py   *)
(* is the same program under other names.                                  *)
(***************************************************************************)
EXTENDS Naturals, Sequences, FiniteSets, SequencesExt

CONSTANTS
    MaxTurns,           \* bound: turns of a session
    MaxPieces,          \* bound: pieces of a stream; max_tokens in the request
    MaxCancels,         \* bound: turns ended by Ctrl-C
    Sizes,              \* sizes of a prompt
    Rooms,              \* what context and max_tokens leave for the history
    ShowReasoning,      \* --show-reasoning
    BadPort             \* TRUE: urlsplit takes the URL but not its port

ASSUME ChatAssumption ==
    /\ MaxTurns \in Nat
    /\ MaxPieces \in Nat
    /\ MaxCancels \in Nat
    /\ Sizes \subseteq Nat \ {0}
    /\ Rooms \subseteq Nat /\ Rooms # {}
    /\ ShowReasoning \in BOOLEAN
    /\ BadPort \in BOOLEAN

VARIABLES
    chat,       \* FALSE: one prompt from the command line
    phase,      \* where the main thread is
    turn,       \* the number of the last turn
    messages,   \* the conversation, one list that the worker threads share
    room,       \* characters the history may take
    worker,     \* worker[t]: where the thread of turn t is
    queue,      \* queue[t]: the events put for turn t, taken or not
    taken,      \* how many of them the main thread has taken in this turn
    content, reasoning, truncated, failed,  \* state of the turn
    code,       \* what the last run_turn returned
    cancelled   \* observed: turns ended by Ctrl-C

local == <<taken, content, reasoning, truncated, failed>>
session == <<chat, turn, messages, room>>
vars == <<session, phase, worker, queue, local, code, cancelled>>

-----------------------------------------------------------------------------
Turns == 1..MaxTurns
Event == [by : Turns, kind : {"content", "reasoning", "length", "error", "done"}]
Message == [role : {"user", "assistant"}, turn : Turns, size : Nat \ {0},
            pieces : Seq(Event)]
Phase == {"prompt", "starting", "waiting", "answering", "ended"}
Running == {"made", "sent"}

Init ==
    /\ chat \in BOOLEAN
    /\ phase = "prompt"
    /\ turn = 0
    /\ messages = <<>>
    /\ room \in Rooms
    /\ worker = [t \in Turns |-> "none"]
    /\ queue = [t \in Turns |-> <<>>]
    /\ taken = 0
    /\ content = <<>>
    /\ reasoning = <<>>
    /\ truncated = FALSE
    /\ failed = FALSE
    /\ code = 0
    /\ cancelled = {}

\* The locals of run_turn, before it has begun and after it has returned.
Forget ==
    /\ taken' = 0
    /\ content' = <<>>
    /\ reasoning' = <<>>
    /\ truncated' = FALSE
    /\ failed' = FALSE

\* The process ends, its memory and its daemon threads with it.
Exit ==
    /\ phase' = "ended"
    /\ messages' = <<>>
    /\ worker' = [t \in Turns |-> "none"]
    /\ queue' = [t \in Turns |-> <<>>]
    /\ Forget
    /\ cancelled' = {}
    /\ UNCHANGED <<chat, turn, room>>

-----------------------------------------------------------------------------
(***************************************************************************)
(* interactive_chat and chat_command: a prompt, a command, the end.        *)
(***************************************************************************)
Ask(size) ==
    /\ phase = "prompt"
    /\ turn < MaxTurns
    /\ turn' = turn + 1
    /\ messages' = Append(messages, [role |-> "user", turn |-> turn + 1,
                                     size |-> size, pieces |-> <<>>])
    /\ phase' = "starting"
    /\ UNCHANGED <<chat, room, worker, queue, local, code, cancelled>>

\* /clear, and /model with a model of the list.
Clear ==
    /\ phase = "prompt" /\ chat
    /\ messages' = <<>>
    /\ UNCHANGED <<chat, turn, room, phase, worker, queue, local, code, cancelled>>

\* /tokens
SetRoom(r) ==
    /\ phase = "prompt" /\ chat
    /\ room' = r
    /\ UNCHANGED <<chat, turn, messages, phase, worker, queue, local, code, cancelled>>

\* /exit, the end of the input, Ctrl-C at the prompt.
Leave ==
    /\ phase = "prompt" /\ chat
    /\ Exit
    /\ UNCHANGED code

-----------------------------------------------------------------------------
(***************************************************************************)
(* run_turn up to its loop: complete oldest turns are dropped until the    *)
(* rest fits or is one turn, and a thread with a queue of its own starts.  *)
(***************************************************************************)
Size(m) == FoldSeq(LAMBDA message, sum : message.size + sum, 0, m)
From(m, first) == SubSeq(m, first, Len(m))

\* Mutant: two turns are always kept.
Fits_Two(m) == Len(m) <= 4 \/ Size(m) <= room

\* trim_history
Fits(m) == Len(m) <= 2 \/ Size(m) <= room
Dropped(m) ==
    CHOOSE k \in 0..Len(m) :
        /\ Fits(From(m, 2 * k + 1))
        /\ \A j \in 0..Len(m) : j < k => ~Fits(From(m, 2 * j + 1))
Trimmed(m) == From(m, 2 * Dropped(m) + 1)

Start ==
    /\ phase = "starting"
    /\ phase' = "waiting"
    /\ messages' = Trimmed(messages)
    /\ worker' = [worker EXCEPT ![turn] = "made"]
    /\ Forget
    /\ UNCHANGED <<chat, turn, room, queue, code, cancelled>>

\* The loop takes the next event of its queue.  Of an error it keeps the text, and
\* run_turn asks later whether there is any: one without text ends the turn as
\* "done" does.
TakeEvent ==
    LET event == queue[turn][taken + 1] IN
    /\ phase = "waiting"
    /\ taken < Len(queue[turn])
    /\ taken' = taken + 1
    /\ content' = IF event.kind = "content" THEN Append(content, event) ELSE content
    /\ reasoning' = IF event.kind = "reasoning" THEN Append(reasoning, event)
                    ELSE reasoning
    /\ truncated' = (truncated \/ event.kind = "length")
    /\ failed' \in IF event.kind = "error" THEN BOOLEAN ELSE {FALSE}
    /\ phase' = IF event.kind \in {"error", "done"} THEN "answering" ELSE phase
    /\ UNCHANGED <<session, worker, queue, code, cancelled>>

\* Ctrl-C in the loop is an error of the turn; outside the try block it ends
\* the process.
Interrupt ==
    \/ /\ phase = "waiting"
       /\ Cardinality(cancelled) < MaxCancels
       /\ phase' = "answering"
       /\ failed' = TRUE
       /\ cancelled' = cancelled \cup {turn}
       /\ UNCHANGED <<session, worker, queue, taken, content, reasoning, truncated, code>>
    \/ /\ phase \in {"starting", "answering"}
       /\ Exit
       /\ UNCHANGED code

AnswerText ==
    IF content = <<>> THEN reasoning
    ELSE IF ShowReasoning THEN reasoning \o content ELSE content

\* The terminal is closed, or the process is killed.
Hangup == phase # "ended" /\ Exit /\ UNCHANGED code

\* run_turn returns: to the round of interactive_chat or to main.
Return(value, conversation) ==
    /\ phase = "answering"
    /\ code' = value
    /\ \/ /\ chat
          /\ phase' = "prompt"
          /\ messages' = conversation
          /\ Forget
          /\ UNCHANGED <<chat, turn, room, worker, queue, cancelled>>
       \/ ~chat /\ Exit

\* Mutant: a prompt that failed stays in the conversation.
Fail_Kept == (failed \/ AnswerText = <<>>) /\ Return(1, messages)

\* Without an answer the prompt is taken back.
Fail == (failed \/ AnswerText = <<>>) /\ Return(1, Front(messages))

Answered ==
    Append(messages, [role |-> "assistant", turn |-> turn,
                      size |-> Len(AnswerText), pieces |-> AnswerText])

Answer ==
    /\ ~failed
    /\ AnswerText # <<>>
    /\ Return(IF truncated THEN 3 ELSE 0, Answered)

\* terminal_safe takes the control characters out of an answer; when nothing else
\* was in it the prompt is taken back, but the turn counts as answered.
Blank ==
    /\ ~failed
    /\ AnswerText # <<>>
    /\ Return(IF truncated THEN 3 ELSE 0, Front(messages))

-----------------------------------------------------------------------------
(***************************************************************************)
(* request_worker, one thread per turn.                                    *)
(***************************************************************************)
\* Mutant: one queue for all turns.
Put_Shared(t, kind) ==
    queue' = [queue EXCEPT ![turn] = Append(@, [by |-> t, kind |-> kind])]

Put(t, kind) == queue' = [queue EXCEPT ![t] = Append(@, [by |-> t, kind |-> kind])]

Thread(t, from, to) ==
    /\ phase # "ended"
    /\ worker[t] = from
    /\ worker' = [worker EXCEPT ![t] = to]
    /\ UNCHANGED <<session, phase, local, code, cancelled>>

\* The conversation is serialised here, as it is by now.  The connection object
\* is made before the try block: an error there ends the thread without a word.
Submit(t) ==
    /\ Thread(t, "made", IF BadPort THEN "gone" ELSE "sent")
    /\ UNCHANGED queue

Stream(t, kind) ==
    /\ Len(queue[t]) < MaxPieces
    /\ Thread(t, "sent", "sent")
    /\ Put(t, kind)

\* [DONE], or the end of the stream without it.
Done(t) == Thread(t, "sent", "gone") /\ Put(t, "done")

\* Mutant: what breaks the stream is not reported.
Break_Silent(t) ==
    /\ ~BadPort
    /\ \E from \in Running : Thread(t, from, "gone")
    /\ UNCHANGED queue

\* A status other than 2xx, or anything else that raises in the try block.
Break(t) ==
    /\ ~BadPort
    /\ \E from \in Running : Thread(t, from, "gone")
    /\ Put(t, "error")

Worker(t) ==
    \/ Submit(t) \/ Done(t) \/ Break(t)
    \/ \E kind \in {"content", "reasoning", "length"} : Stream(t, kind)

\* The process has ended.
Ended == phase = "ended" /\ UNCHANGED vars

Next ==
    \/ \E size \in Sizes : Ask(size)
    \/ Clear \/ Leave \/ \E r \in Rooms : SetRoom(r)
    \/ Start \/ TakeEvent \/ Interrupt \/ Hangup \/ Fail \/ Answer \/ Blank
    \/ \E t \in Turns : Worker(t)
    \/ Ended

Spec == Init /\ [][Next]_vars

\* Threads run; every operation on the socket has a timeout.
FairSpec == Spec /\ WF_vars(TakeEvent) /\ \A t \in Turns : WF_vars(Worker(t))

-----------------------------------------------------------------------------
\* Every variable keeps its type; no message is empty.
TypeOK ==
    /\ chat \in BOOLEAN
    /\ phase \in Phase
    /\ turn \in 0..MaxTurns
    /\ messages \in Seq(Message)
    /\ room \in Rooms
    /\ worker \in [Turns -> {"none", "gone"} \cup Running]
    /\ queue \in [Turns -> Seq(Event)]
    /\ taken \in Nat
    /\ content \in Seq(Event)
    /\ reasoning \in Seq(Event)
    /\ truncated \in BOOLEAN
    /\ failed \in BOOLEAN
    /\ code \in {0, 1, 3}
    /\ cancelled \subseteq Turns

Alternates(m) ==
    \A i \in DOMAIN m : m[i].role = IF i % 2 = 1 THEN "user" ELSE "assistant"

\* Users and assistant alternate in the conversation, whatever fails, is
\* cancelled or is dropped: complete turns between two prompts, and during a
\* turn its prompt behind them.
TurnsAlternate ==
    /\ Alternates(messages)
    /\ phase = "prompt" => Len(messages) % 2 = 0
    /\ phase \in {"starting", "waiting", "answering"} =>
          Len(messages) % 2 = 1 /\ Last(messages).turn = turn

\* The events of one kind that thread t has put among others, in their order.
Text(events, t, kind) ==
    LET upTo[n \in 0..Len(events)] ==
            IF n = 0 THEN <<>>
            ELSE IF events[n].by = t /\ events[n].kind = kind
                 THEN Append(upTo[n - 1], events[n])
                 ELSE upTo[n - 1]
    IN  upTo[Len(events)]

Received(t, kind) == Text(queue[t], t, kind)

\* An answer follows the prompt of its turn and is all the text that the thread
\* of this turn has received, in the order it came, and nothing else: nothing of
\* what the thread of a cancelled turn still receives.
AnswerIsWhole ==
    \A i \in DOMAIN messages :
        messages[i].role = "assistant" =>
            LET t == messages[i].turn
                said == Received(t, "content")
                thought == Received(t, "reasoning") IN
            /\ messages[i - 1].turn = t
            /\ messages[i].pieces = IF said = <<>> THEN thought
                                    ELSE IF ShowReasoning THEN thought \o said
                                    ELSE said

\* What a thread sends for the turn that is waited for begins with a prompt,
\* ends with the prompt of that turn, and fits unless it is that prompt alone.
SentIsAsked ==
    [][phase = "waiting" /\ worker[turn] = "made" /\ worker'[turn] = "sent" =>
          /\ messages[1].role = "user"
          /\ Last(messages).turn = turn /\ Last(messages).role = "user"
          /\ Size(messages) <= room \/ Len(messages) = 1]_vars

\* scripts/domesticllm-tui.py:134: an exception of the worker is "reported in
\* the UI, never silently swallowed".  A turn always comes to its end.
TurnEnds == phase = "waiting" ~> phase # "waiting"
===============================================================================
