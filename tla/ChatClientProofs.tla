--------------------------- MODULE ChatClientProofs ----------------------------
(***************************************************************************)
(* Proofs about the terminal chat, for any number of turns, cancellations  *)
(* and pieces and any sizes: the roles of the conversation alternate, what *)
(* a turn sends fits and ends with the prompt that is asked, and an answer *)
(* is what the thread of its turn has received, whole and in order.        *)
(***************************************************************************)
EXTENDS ChatClient, SequenceTheorems, WellFoundedInduction, TLAPS

\* The phases of a turn.
InTurn == {"starting", "waiting", "answering"}

ChatInv == TypeOK /\ TurnsAlternate

-----------------------------------------------------------------------------
(***************************************************************************)
(* trim_history.                                                           *)
(***************************************************************************)
LEMMA Parity == \A i, k \in Nat : (i + 2 * k) % 2 = i % 2
  OBVIOUS

\* The number of turns to drop exists, and dropping it leaves the last message.
LEMMA DroppedLeast ==
  ASSUME NEW m \in Seq(Message), Len(m) % 2 = 1
  PROVE  /\ Dropped(m) \in Nat
         /\ 2 * Dropped(m) < Len(m)
         /\ Fits(From(m, 2 * Dropped(m) + 1))
  <1> DEFINE T == {k \in 0..Len(m) : Fits(From(m, 2 * k + 1))}
             Least(k) == /\ Fits(From(m, 2 * k + 1))
                         /\ \A j \in 0..Len(m) : j < k => ~Fits(From(m, 2 * j + 1))
  <1>1. PICK h \in Nat : Len(m) = 2 * h + 1
    <2>1. Len(m) \in Nat /\ Len(m) \div 2 \in Nat /\ Len(m) = 2 * (Len(m) \div 2) + 1
      OBVIOUS
    <2> QED
      BY <2>1
  <1>2. h \in T
    <2>1. Len(From(m, 2 * h + 1)) = 1
      BY <1>1 DEF From
    <2> QED
      BY <1>1, <2>1 DEF Fits
  <1>3. \E k \in T : \A j \in T : ~(j < k)
    <2>1. T \subseteq Nat /\ T # {}
      BY <1>2
    <2>2. \E k \in T : \A j \in T : <<j, k>> \notin OpToRel(<, Nat)
      <3> HIDE DEF T
      <3> QED
        BY <2>1, WFMin, NatLessThanWellFounded, Zenon
    <2> QED
      BY <2>1, <2>2, Zenon DEF OpToRel
  <1>4. \E k \in 0..Len(m) : Least(k)
    BY <1>3
  <1>5. Dropped(m) = CHOOSE k \in 0..Len(m) : Least(k)
    BY DEF Dropped
  <1>6. Dropped(m) \in 0..Len(m) /\ Least(Dropped(m))
    <2> HIDE DEF Least
    <2> QED
      BY <1>4, <1>5
  <1>7. ~(h < Dropped(m))
    BY <1>1, <1>2, <1>6
  <1> QED
    BY <1>1, <1>6, <1>7

\* What is left alternates, is of odd length and ends as before.
LEMMA TrimmedAlternates ==
  ASSUME NEW m \in Seq(Message), Len(m) % 2 = 1, Alternates(m)
  PROVE  /\ Trimmed(m) \in Seq(Message)
         /\ Alternates(Trimmed(m))
         /\ Len(Trimmed(m)) % 2 = 1
         /\ Last(Trimmed(m)) = Last(m)
         /\ \E k \in Nat : /\ 2 * k < Len(m) /\ Len(Trimmed(m)) = Len(m) - 2 * k
                          /\ \A i \in 1..(Len(m) - 2 * k) : Trimmed(m)[i] = m[i + 2 * k]
  <1> DEFINE k == Dropped(m)
  <1>1. k \in Nat /\ 2 * k < Len(m)
    BY DroppedLeast
  <1>2. Trimmed(m) = SubSeq(m, 2 * k + 1, Len(m))
    BY DEF Trimmed, From
  <1> HIDE DEF k
  <1>3. /\ Trimmed(m) \in Seq(Message)
        /\ Len(Trimmed(m)) = Len(m) - 2 * k
        /\ \A i \in 1..(Len(m) - 2 * k) : Trimmed(m)[i] = m[i + 2 * k]
    <2> DEFINE a == 2 * k + 1
               n == Len(m)
    <2>1. a \in Int /\ n \in Int /\ a <= n /\ \A i \in a..n : m[i] \in Message
      BY <1>1
    <2>2. n - a + 1 = Len(m) - 2 * k /\ \A i \in Int : a + i - 1 = i + 2 * k
      BY <1>1
    <2>3. Trimmed(m) = SubSeq(m, a, n)
      BY <1>2
    <2> HIDE DEF a, n
    <2>4. /\ Trimmed(m) \in Seq(Message)
          /\ Len(Trimmed(m)) = IF a <= n THEN n - a + 1 ELSE 0
          /\ \A i \in 1..(n - a + 1) : Trimmed(m)[i] = m[a + i - 1]
      BY <2>1, <2>3, SubSeqProperties
    <2>5. Len(Trimmed(m)) = Len(m) - 2 * k
      BY <2>1, <2>2, <2>4
    <2>6. ASSUME NEW i \in 1..(Len(m) - 2 * k) PROVE Trimmed(m)[i] = m[i + 2 * k]
      <3>1. i \in 1..(n - a + 1) /\ a + i - 1 = i + 2 * k
        BY <2>2
      <3> QED
        BY <2>4, <3>1
    <2> QED
      BY <2>4, <2>5, <2>6
  <1>4. Len(Trimmed(m)) % 2 = 1
    BY <1>1, <1>3, Parity
  <1>5. Last(Trimmed(m)) = Last(m)
    BY <1>1, <1>3 DEF Last
  <1>6. Alternates(Trimmed(m))
    <2> SUFFICES ASSUME NEW i \in 1..(Len(m) - 2 * k)
                 PROVE  Trimmed(m)[i].role = IF i % 2 = 1 THEN "user" ELSE "assistant"
      BY <1>3 DEF Alternates
    <2>1. i + 2 * k \in 1..Len(m) /\ (i + 2 * k) % 2 = i % 2
      BY <1>1, Parity
    <2>2. \A j \in 1..Len(m) : m[j].role = IF j % 2 = 1 THEN "user" ELSE "assistant"
      BY DEF Alternates
    <2>3. Trimmed(m)[i] = m[i + 2 * k]
      BY <1>3
    <2> QED
      BY <2>1, <2>2, <2>3
  <1> QED
    BY <1>1, <1>3, <1>4, <1>5, <1>6

LEMMA TrimmedFits ==
  ASSUME NEW m \in Seq(Message), Len(m) % 2 = 1
  PROVE  Fits(Trimmed(m))
  BY DroppedLeast DEF Trimmed

-----------------------------------------------------------------------------
(***************************************************************************)
(* The conversation.                                                       *)
(***************************************************************************)
LEMMA Empty ==
  /\ <<>> \in Seq(Message) /\ <<>> \in Seq(Event)
  /\ Len(<<>>) % 2 = 0 /\ Alternates(<<>>)
  <1>1. /\ <<>> \in Seq(Message) /\ <<>> \in Seq(Event) /\ Len(<<>>) = 0
        /\ DOMAIN <<>> = {}
    BY EmptySeq
  <1> QED
    BY <1>1 DEF Alternates

LEMMA ChatInvInit == Init => ChatInv
  <1> SUFFICES ASSUME Init PROVE ChatInv
    OBVIOUS
  <1>1. TypeOK
    <2>1. chat \in BOOLEAN /\ truncated \in BOOLEAN /\ failed \in BOOLEAN
      BY DEF Init
    <2>2. turn \in 0..MaxTurns
      BY ChatAssumption DEF Init
    <2> QED
      BY <2>1, <2>2, Empty DEF Init, TypeOK, Phase
  <1>2. TurnsAlternate
    BY Empty DEF Init, TurnsAlternate
  <1> QED
    BY <1>1, <1>2 DEF ChatInv

LEMMA ExitChat ==
  ASSUME ChatInv, Exit, code' \in {0, 1, 3}
  PROVE  ChatInv'
  <1>1. TypeOK'
    BY Empty DEF Exit, Forget, ChatInv, TypeOK, Phase
  <1>2. TurnsAlternate'
    BY Empty DEF Exit, TurnsAlternate
  <1> QED
    BY <1>1, <1>2 DEF ChatInv

LEMMA AskChat ==
  ASSUME ChatInv, NEW size \in Sizes, Ask(size)
  PROVE  ChatInv'
  <1> DEFINE prompt == [role |-> "user", turn |-> turn + 1, size |-> size, pieces |-> <<>>]
  <1>1. /\ phase = "prompt" /\ turn' = turn + 1 /\ turn' \in Turns /\ phase' = "starting"
        /\ messages' = Append(messages, prompt) /\ prompt \in Message
        /\ messages \in Seq(Message) /\ Len(messages) % 2 = 0 /\ Alternates(messages)
        /\ UNCHANGED <<chat, room, worker, queue, local, code, cancelled>>
    BY ChatAssumption DEF Ask, ChatInv, TypeOK, TurnsAlternate, Turns, Message
  <1>2. prompt.role = "user" /\ prompt.turn = turn'
    BY <1>1
  <1> HIDE DEF prompt
  <1>3. /\ messages' \in Seq(Message) /\ Len(messages') = Len(messages) + 1
        /\ \A i \in 1..Len(messages) : messages'[i] = messages[i]
        /\ messages'[Len(messages) + 1] = prompt
    BY <1>1
  <1>4. TypeOK'
    BY <1>1, <1>3 DEF ChatInv, TypeOK, local, Phase, Turns
  <1>5. TurnsAlternate'
    BY <1>1, <1>2, <1>3 DEF TurnsAlternate, Alternates, Last
  <1> QED
    BY <1>4, <1>5 DEF ChatInv

LEMMA StartChat ==
  ASSUME ChatInv, Start
  PROVE  ChatInv'
  <1>1. /\ phase = "starting" /\ phase' = "waiting" /\ messages' = Trimmed(messages)
        /\ messages \in Seq(Message) /\ Len(messages) % 2 = 1 /\ Alternates(messages)
        /\ Last(messages).turn = turn /\ turn' = turn
    BY DEF Start, ChatInv, TypeOK, TurnsAlternate
  <1>2. /\ messages' \in Seq(Message) /\ Alternates(messages')
        /\ Len(messages') % 2 = 1 /\ Last(messages') = Last(messages)
    BY <1>1, TrimmedAlternates
  <1>3. TypeOK'
    BY <1>1, <1>2, Empty DEF Start, Forget, ChatInv, TypeOK, Phase, Running
  <1>4. TurnsAlternate'
    BY <1>1, <1>2 DEF TurnsAlternate
  <1> QED
    BY <1>3, <1>4 DEF ChatInv

\* The answer of a turn, and the prompt that is taken back.
LEMMA AnswerChat ==
  ASSUME ChatInv, Answer
  PROVE  ChatInv'
  <1>1. CASE Exit
    BY <1>1, ExitChat DEF Answer, Return
  <1>2. CASE ~Exit
    <2>1. /\ phase = "answering" /\ phase' = "prompt" /\ messages' = Answered
          /\ code' \in {0, 3} /\ AnswerText # <<>>
          /\ Forget /\ UNCHANGED <<chat, turn, room, worker, queue, cancelled>>
      BY <1>2 DEF Answer, Return
    <2>2. /\ messages \in Seq(Message) /\ Len(messages) % 2 = 1 /\ Alternates(messages)
          /\ Last(messages).turn = turn
      BY <2>1 DEF ChatInv, TypeOK, TurnsAlternate
    <2>3. AnswerText \in Seq(Event) /\ Len(AnswerText) \in Nat \ {0}
      BY <2>1 DEF AnswerText, ChatInv, TypeOK
    <2>4. turn \in Turns
      <3>1. Last(messages) \in Message
        BY <2>2 DEF Last
      <3> QED
        BY <2>2, <3>1 DEF Message
    <2> DEFINE answer == [role |-> "assistant", turn |-> turn,
                          size |-> Len(AnswerText), pieces |-> AnswerText]
    <2>5. answer \in Message /\ answer.role = "assistant" /\ messages' = Append(messages, answer)
      BY <2>1, <2>3, <2>4 DEF Message, Answered
    <2> HIDE DEF answer
    <2>6. /\ messages' \in Seq(Message) /\ Len(messages') = Len(messages) + 1
          /\ \A i \in 1..Len(messages) : messages'[i] = messages[i]
          /\ messages'[Len(messages) + 1] = answer
      BY <2>2, <2>5
    <2>7. TypeOK'
      BY <2>1, <2>6, Empty DEF ChatInv, TypeOK, Forget, Phase
    <2>8. TurnsAlternate'
      BY <2>1, <2>2, <2>5, <2>6 DEF TurnsAlternate, Alternates
    <2> QED
      BY <2>7, <2>8 DEF ChatInv
  <1> QED
    BY <1>1, <1>2

LEMMA FailChat ==
  ASSUME ChatInv, Fail \/ Blank
  PROVE  ChatInv'
  <1>1. CASE Exit
    BY <1>1, ExitChat DEF Fail, Blank, Return
  <1>2. CASE ~Exit
    <2>1. /\ phase = "answering" /\ phase' = "prompt" /\ messages' = Front(messages)
          /\ code' \in {0, 1, 3}
          /\ Forget /\ UNCHANGED <<chat, turn, room, worker, queue, cancelled>>
      BY <1>2 DEF Fail, Blank, Return
    <2>2. messages \in Seq(Message) /\ Len(messages) % 2 = 1 /\ Alternates(messages)
      BY <2>1 DEF ChatInv, TypeOK, TurnsAlternate
    <2>3. /\ messages' \in Seq(Message) /\ Len(messages') = Len(messages) - 1
          /\ \A i \in 1..Len(messages') : messages'[i] = messages[i]
      <3> DEFINE n == Len(messages) - 1
      <3>1. 1 \in Int /\ n \in Nat /\ \A i \in 1..n : messages[i] \in Message
        BY <2>2
      <3>2. messages' = SubSeq(messages, 1, n)
        BY <2>1 DEF Front
      <3> HIDE DEF n
      <3>3. /\ messages' \in Seq(Message)
            /\ Len(messages') = IF 1 <= n THEN n - 1 + 1 ELSE 0
            /\ \A i \in 1..(n - 1 + 1) : messages'[i] = messages[1 + i - 1]
        BY <3>1, <3>2, SubSeqProperties
      <3>4. Len(messages') = n /\ \A i \in 1..n : messages'[i] = messages[i]
        BY <3>1, <3>3
      <3> QED
        BY <3>3, <3>4 DEF n
    <2>4. TypeOK'
      BY <2>1, <2>3, Empty DEF ChatInv, TypeOK, Forget, Phase
    <2>5. Len(messages') % 2 = 0 /\ DOMAIN messages' \subseteq DOMAIN messages
      <3>1. Len(messages) \in Nat /\ DOMAIN messages = 1..Len(messages)
        BY <2>2
      <3>2. DOMAIN messages' = 1..Len(messages')
        BY <2>3
      <3>3. \A n \in Nat : n % 2 = 1 => (n - 1) % 2 = 0
        OBVIOUS
      <3>4. Len(messages') % 2 = 0
        BY <2>2, <2>3, <3>1, <3>3
      <3> QED
        BY <2>3, <3>1, <3>2, <3>4
    <2>6. Alternates(messages')
      BY <2>2, <2>3, <2>5 DEF Alternates
    <2>7. TurnsAlternate'
      BY <2>1, <2>5, <2>6 DEF TurnsAlternate
    <2> QED
      BY <2>4, <2>7 DEF ChatInv
  <1> QED
    BY <1>1, <1>2

\* The worker threads and the events leave the conversation alone.
LEMMA EventChat ==
  ASSUME ChatInv, TakeEvent
  PROVE  ChatInv'
  <1>1. /\ phase = "waiting" /\ phase' \in {"waiting", "answering"}
        /\ UNCHANGED <<session, worker, queue, code, cancelled>>
        /\ taken \in Nat /\ taken' = taken + 1
        /\ truncated' \in BOOLEAN /\ failed' \in BOOLEAN
    BY DEF TakeEvent, ChatInv, TypeOK
  <1>2. turn \in Turns
    <2>1. messages \in Seq(Message) /\ Len(messages) % 2 = 1 /\ Last(messages).turn = turn
      BY <1>1 DEF ChatInv, TypeOK, TurnsAlternate
    <2>2. Last(messages) \in Message
      BY <2>1 DEF Last
    <2> QED
      BY <2>1, <2>2 DEF Message
  <1>3. queue[turn][taken + 1] \in Event
    <2>1. queue[turn] \in Seq(Event)
      BY <1>2 DEF ChatInv, TypeOK
    <2> QED
      BY <1>1, <2>1 DEF TakeEvent
  <1>4. content' \in Seq(Event) /\ reasoning' \in Seq(Event)
    BY <1>3 DEF TakeEvent, ChatInv, TypeOK
  <1>5. TypeOK'
    BY <1>1, <1>4 DEF ChatInv, TypeOK, session, Phase
  <1>6. TurnsAlternate'
    BY <1>1 DEF ChatInv, TurnsAlternate, session
  <1> QED
    BY <1>5, <1>6 DEF ChatInv

LEMMA WorkerChat ==
  ASSUME ChatInv, NEW t \in Turns, Worker(t)
  PROVE  ChatInv'
  <1>1. /\ UNCHANGED <<session, phase, local, code, cancelled>>
        /\ worker' \in [Turns -> {"none", "gone"} \cup Running]
    BY DEF Worker, Submit, Done, Break, Stream, Thread, ChatInv, TypeOK, Running
  <1>2. queue' \in [Turns -> Seq(Event)]
    <2>1. queue \in [Turns -> Seq(Event)]
      BY DEF ChatInv, TypeOK
    <2>2. ASSUME NEW kind \in {"content", "reasoning", "length", "error", "done"}, Put(t, kind)
          PROVE  queue' \in [Turns -> Seq(Event)]
      <3>1. [by |-> t, kind |-> kind] \in Event
        BY DEF Event
      <3> QED
        BY <2>1, <2>2, <3>1 DEF Put
    <2> QED
      BY <2>1, <2>2 DEF Worker, Submit, Done, Break, Stream
  <1>3. TypeOK' /\ TurnsAlternate'
    BY <1>1, <1>2 DEF ChatInv, TypeOK, TurnsAlternate, session, local
  <1> QED
    BY <1>3 DEF ChatInv

LEMMA CommandChat ==
  ASSUME ChatInv, \/ Clear \/ Leave \/ Interrupt \/ Hangup \/ Ended \/ UNCHANGED vars
                  \/ \E r \in Rooms : SetRoom(r)
  PROVE  ChatInv'
  <1>1. code \in {0, 1, 3}
    BY DEF ChatInv, TypeOK
  <1>2. CASE Exit /\ UNCHANGED code
    BY <1>1, <1>2, ExitChat
  <1>3. CASE Clear
    BY <1>3 DEF Clear, ChatInv, TypeOK, TurnsAlternate, Alternates, local
  <1>4. ASSUME NEW r \in Rooms, SetRoom(r) PROVE ChatInv'
    BY <1>4 DEF SetRoom, ChatInv, TypeOK, TurnsAlternate, local
  <1>5. CASE UNCHANGED vars
    BY <1>5 DEF vars, session, local, ChatInv, TypeOK, TurnsAlternate
  <1>6. CASE Interrupt /\ phase' = "answering"
    <2>1. /\ phase = "waiting" /\ failed' = TRUE /\ cancelled' = cancelled \cup {turn}
          /\ UNCHANGED <<session, worker, queue, taken, content, reasoning, truncated, code>>
      BY <1>6 DEF Interrupt, Exit
    <2>2. turn \in Turns
      <3>1. messages \in Seq(Message) /\ Len(messages) % 2 = 1 /\ Last(messages).turn = turn
        BY <2>1 DEF ChatInv, TypeOK, TurnsAlternate
      <3>2. Last(messages) \in Message
        BY <3>1 DEF Last
      <3> QED
        BY <3>1, <3>2 DEF Message
    <2> QED
      BY <1>6, <2>1, <2>2 DEF ChatInv, TypeOK, TurnsAlternate, session, Phase
  <1> QED
    BY <1>2, <1>3, <1>4, <1>5, <1>6 DEF Leave, Interrupt, Hangup, Ended

LEMMA ChatInvNext ==
  ASSUME ChatInv, [Next]_vars
  PROVE  ChatInv'
  BY AskChat, StartChat, EventChat, FailChat, AnswerChat, WorkerChat, CommandChat DEF Next

-----------------------------------------------------------------------------
(***************************************************************************)
(* The text among the events of a queue, by induction on their number.     *)
(***************************************************************************)
\* f is the text up to each of the first m events.
Longer(f, events, t, kind, n) ==
    IF n = 0 THEN <<>>
    ELSE IF events[n].by = t /\ events[n].kind = kind
         THEN Append(f[n - 1], events[n])
         ELSE f[n - 1]
Collects(f, events, t, kind, m) == f = [n \in 0..m |-> Longer(f, events, t, kind, n)]

LEMMA TextDef ==
    ASSUME NEW events, NEW t, NEW kind
    PROVE  Text(events, t, kind) =
           (CHOOSE f : Collects(f, events, t, kind, Len(events)))[Len(events)]
  BY DEF Text, Collects, Longer

\* There is no counterexample to what the first number has and each passes on.
LEMMA Induction ==
    ASSUME NEW T, T \subseteq Nat, 0 \in T, \A n \in T : n + 1 \in T
    PROVE  T = Nat
  <1> SUFFICES ASSUME Nat \ T # {} PROVE FALSE
    OBVIOUS
  <1> DEFINE C == Nat \ T
  <1>1. \E k \in C : \A j \in C : <<j, k>> \notin OpToRel(<, Nat)
    <2>1. C \subseteq Nat /\ C # {}
      OBVIOUS
    <2> HIDE DEF C
    <2> QED
      BY <2>1, WFMin, NatLessThanWellFounded, Zenon
  <1>2. PICK k \in C : \A j \in C : ~(j < k)
    <2>1. C \subseteq Nat
      OBVIOUS
    <2> HIDE DEF C
    <2> QED
      BY <1>1, <2>1, Zenon DEF OpToRel
  <1>3. k \in Nat /\ k # 0 /\ k - 1 \in Nat /\ k - 1 < k /\ k - 1 + 1 = k
    BY <1>2
  <1>4. k - 1 \in T
    BY <1>2, <1>3
  <1> QED
    BY <1>2, <1>3, <1>4

LEMMA CollectsAt ==
    ASSUME NEW events, NEW t, NEW kind, NEW m \in Nat, NEW f, Collects(f, events, t, kind, m)
    PROVE  \A n \in 0..m : f[n] = Longer(f, events, t, kind, n)
  <1>1. PICK g : g = f
    OBVIOUS
  <1>2. f = [n \in 0..m |-> Longer(g, events, t, kind, n)]
    BY <1>1 DEF Collects
  <1> QED
    BY <1>1, <1>2

LEMMA CollectsExtends ==
    ASSUME NEW events, NEW t, NEW kind, NEW m \in Nat, NEW f, Collects(f, events, t, kind, m)
    PROVE  \E g : Collects(g, events, t, kind, m + 1)
  <1> DEFINE Grown(h, n) == Longer(h, events, t, kind, n)
             g == [n \in 0..(m + 1) |-> IF n <= m THEN f[n] ELSE Grown(f, n)]
  <1>1. \A n \in 0..m : g[n] = f[n] /\ f[n] = Grown(f, n)
    <2>1. \A n \in 0..m : f[n] = Grown(f, n)
      BY CollectsAt
    <2>2. \A n \in 0..m : n <= m /\ n \in 0..(m + 1)
      OBVIOUS
    <2> QED
      BY <2>1, <2>2
  <1>2. ASSUME NEW n \in 0..(m + 1) PROVE g[n] = Grown(g, n)
    <2>1. CASE n = 0
      <3>1. n \in 0..m /\ Grown(f, n) = Grown(g, n)
        BY <2>1 DEF Longer
      <3> HIDE DEF Grown, g
      <3> QED
        BY <1>1, <3>1
    <2>2. CASE n # 0
      <3>1. n - 1 \in 0..m /\ g[n - 1] = f[n - 1]
        BY <1>1, <2>2
      <3>2. Grown(g, n) = Grown(f, n)
        BY <3>1 DEF Longer
      <3>3. g[n] = IF n <= m THEN f[n] ELSE Grown(f, n)
        OBVIOUS
      <3>4. n <= m => f[n] = Grown(f, n)
        <4>1. n <= m => n \in 0..m
          OBVIOUS
        <4> HIDE DEF Grown, g
        <4> QED
          BY <1>1, <4>1
      <3> HIDE DEF Grown, g
      <3> QED
        BY <3>2, <3>3, <3>4
    <2> QED
      BY <2>1, <2>2
  <1>3. g = [n \in 0..(m + 1) |-> Grown(g, n)]
    <2>1. g = [n \in 0..(m + 1) |-> g[n]]
      OBVIOUS
    <2> HIDE DEF Grown, g
    <2> QED
      BY <1>2, <2>1
  <1>4. Collects(g, events, t, kind, m + 1)
    BY <1>3, Zenon DEF Collects
  <1> QED
    BY <1>4

LEMMA CollectsExists ==
    ASSUME NEW events, NEW t, NEW kind
    PROVE  \A m \in Nat : \E f : Collects(f, events, t, kind, m)
  <1> DEFINE T == {m \in Nat : \E f : Collects(f, events, t, kind, m)}
  <1>1. 0 \in T
    <2>1. Collects([n \in 0..0 |-> <<>>], events, t, kind, 0)
      BY DEF Collects, Longer
    <2> QED
      BY <2>1
  <1>2. \A m \in T : m + 1 \in T
    BY CollectsExtends
  <1>3. T = Nat
    <2> HIDE DEF T
    <2>1. T \subseteq Nat
      BY DEF T
    <2> QED
      BY <1>1, <1>2, <2>1, Induction
  <1> QED
    BY <1>3

\* The text of no events, and of one event more.
LEMMA TextEmpty ==
    ASSUME NEW t, NEW kind PROVE Text(<<>>, t, kind) = <<>>
  <1> DEFINE f == CHOOSE f : Collects(f, <<>>, t, kind, 0)
  <1>1. Collects(f, <<>>, t, kind, 0)
    <2> HIDE DEF Collects
    <2>1. \E g : Collects(g, <<>>, t, kind, 0)
      BY CollectsExists
    <2> QED
      BY <2>1
  <1>2. Text(<<>>, t, kind) = f[0]
    <2>1. Len(<<>>) = 0
      BY EmptySeq
    <2> QED
      BY <2>1, TextDef
  <1> HIDE DEF f
  <1>3. 0 \in Nat /\ 0 \in 0..0
    OBVIOUS
  <1>4. f[0] = Longer(f, <<>>, t, kind, 0)
    BY <1>1, <1>3, CollectsAt
  <1> QED
    BY <1>2, <1>4 DEF Longer

LEMMA TextAppend ==
    ASSUME NEW S, NEW events \in Seq(S), NEW event \in S, NEW t, NEW kind
    PROVE  Text(Append(events, event), t, kind) =
             IF event.by = t /\ event.kind = kind
             THEN Append(Text(events, t, kind), event)
             ELSE Text(events, t, kind)
  <1> DEFINE more == Append(events, event)
             m == Len(events)
             f == CHOOSE f : Collects(f, events, t, kind, m)
             g == CHOOSE g : Collects(g, more, t, kind, m + 1)
  <1>1. /\ m \in Nat /\ Len(more) = m + 1 /\ more[m + 1] = event
        /\ \A i \in 1..m : more[i] = events[i]
    OBVIOUS
  <1>2. Collects(f, events, t, kind, m) /\ Collects(g, more, t, kind, m + 1)
    <2> HIDE DEF Collects, m, more
    <2>1. /\ \E h : Collects(h, events, t, kind, m)
          /\ \E h : Collects(h, more, t, kind, m + 1)
      <3>1. m \in Nat /\ m + 1 \in Nat
        BY <1>1
      <3> QED
        BY <3>1, CollectsExists
    <2> QED
      BY <2>1
  <1>3. Text(events, t, kind) = f[m] /\ Text(more, t, kind) = g[m + 1]
    <2> HIDE DEF Collects
    <2>1. m + 1 = Len(more) /\ m = Len(events)
      BY <1>1
    <2> HIDE DEF m, more
    <2> QED
      BY <2>1, TextDef
  <1> HIDE DEF f, g, m, more
  <1>4. /\ f[0] = <<>> /\ g[0] = <<>>
        /\ \A n \in 1..m : f[n] = IF events[n].by = t /\ events[n].kind = kind
                                  THEN Append(f[n - 1], events[n]) ELSE f[n - 1]
        /\ \A n \in 1..(m + 1) : g[n] = IF more[n].by = t /\ more[n].kind = kind
                                        THEN Append(g[n - 1], more[n]) ELSE g[n - 1]
    <2>1. m \in Nat /\ m + 1 \in Nat
      BY <1>1
    <2>2. /\ \A n \in 0..m : f[n] = Longer(f, events, t, kind, n)
          /\ \A n \in 0..(m + 1) : g[n] = Longer(g, more, t, kind, n)
      BY <1>2, <2>1, CollectsAt
    <2> QED
      BY <2>1, <2>2 DEF Longer
  <1> DEFINE T == {n \in Nat : n <= m => f[n] = g[n]}
  <1>5. 0 \in T
    BY <1>4
  <1>6. ASSUME NEW n \in T PROVE n + 1 \in T
    <2> SUFFICES ASSUME n + 1 <= m PROVE f[n + 1] = g[n + 1]
      OBVIOUS
    <2>1. n + 1 \in 1..m /\ n + 1 \in 1..(m + 1) /\ n + 1 - 1 = n /\ f[n] = g[n]
      BY <1>1
    <2> QED
      BY <1>1, <1>4, <2>1
  <1>7. m \in T
    <2>1. T \subseteq Nat
      OBVIOUS
    <2> HIDE DEF T
    <2> QED
      BY <1>1, <1>5, <1>6, <2>1, Induction
  <1>8. f[m] = g[m] /\ m + 1 \in 1..(m + 1) /\ m + 1 - 1 = m
    BY <1>1, <1>7
  <1> QED
    BY <1>1, <1>3, <1>4, <1>8 DEF more

\* The beginning of a sequence, when it is read on and when it is added to.
LEMMA Prefix ==
  ASSUME NEW q \in Seq(Event), NEW n \in Nat, n + 1 \in 1..Len(q)
  PROVE  /\ SubSeq(q, 1, n) \in Seq(Event)
         /\ SubSeq(q, 1, n + 1) = Append(SubSeq(q, 1, n), q[n + 1])
  <1>1. /\ \A i \in 1..n : q[i] \in Event
        /\ \A i \in 1..(n + 1) : q[i] \in Event
    OBVIOUS
  <1>2. SubSeq(q, 1, n) \in Seq(Event)
    BY <1>1, SubSeqProperties
  <1>3. 1 <= n + 1 /\ 1 \in Int /\ n + 1 \in Int /\ n + 1 - 1 = n
    OBVIOUS
  <1>4. SubSeq(q, 1, n + 1) = Append(SubSeq(q, 1, n + 1 - 1), q[n + 1])
    BY <1>1, <1>3, SubSeqRecursiveSecond
  <1> QED
    BY <1>2, <1>3, <1>4

LEMMA PrefixOfMore ==
  ASSUME NEW q \in Seq(Event), NEW event \in Event, NEW n \in Nat, n <= Len(q)
  PROVE  SubSeq(Append(q, event), 1, n) = SubSeq(q, 1, n)
  OBVIOUS

LEMMA OddLength ==
  ASSUME NEW m \in Seq(Message), Len(m) % 2 = 1
  PROVE  1 \in DOMAIN m /\ Len(m) \in DOMAIN m /\ (Len(m) <= 2 => Len(m) = 1)
  <1>1. \A n \in Nat : n % 2 = 1 => n # 2 /\ n # 0
    OBVIOUS
  <1>2. Len(m) \in Nat /\ DOMAIN m = 1..Len(m)
    OBVIOUS
  <1>3. \A n \in Nat : n # 2 /\ n # 0 => 1 \in 1..n /\ n \in 1..n /\ (n <= 2 => n = 1)
    OBVIOUS
  <1> QED
    BY <1>1, <1>2, <1>3

LEMMA FrontOf ==
  ASSUME NEW m \in Seq(Message), Len(m) % 2 = 1
  PROVE  /\ DOMAIN Front(m) \subseteq DOMAIN m /\ DOMAIN Front(m) = 1..(Len(m) - 1)
         /\ \A i \in DOMAIN Front(m) : Front(m)[i] = m[i]
  <1>1. Len(m) # 0
    OBVIOUS
  <1> QED
    BY <1>1 DEF Front

\* In a turn the number of the turn is that of a prompt.
LEMMA TurnTyped ==
  ASSUME ChatInv, phase \in InTurn
  PROVE  turn \in Turns
  <1>1. messages \in Seq(Message) /\ Len(messages) % 2 = 1 /\ Last(messages).turn = turn
    BY DEF InTurn, ChatInv, TypeOK, TurnsAlternate
  <1>2. Last(messages) \in Message
    BY <1>1 DEF Last
  <1> QED
    BY <1>1, <1>2 DEF Message

-----------------------------------------------------------------------------
(***************************************************************************)
(* Threads, their queues and the answers made of them.                     *)
(***************************************************************************)
Final(event) == event.kind \in {"error", "done"}

\* A thread that has not started has put nothing; what it puts is its own, and after
\* the event that ends the turn it puts nothing more.
ThreadInv ==
    \A t \in Turns :
        /\ worker[t] = "none" => queue[t] = <<>>
        /\ t > turn \/ (t = turn /\ phase = "starting") => worker[t] = "none"
        /\ \A i \in 1..Len(queue[t]) :
              /\ queue[t][i].by = t
              /\ Final(queue[t][i]) => i = Len(queue[t]) /\ worker[t] = "gone"

\* What the turn has shown is the text of the events it has taken; unless it failed it
\* ends with the last event its thread will ever put.
TurnInv ==
    phase \in {"waiting", "answering"} =>
        /\ taken <= Len(queue[turn])
        /\ content = Text(SubSeq(queue[turn], 1, taken), turn, "content")
        /\ reasoning = Text(SubSeq(queue[turn], 1, taken), turn, "reasoning")
        /\ phase = "answering" /\ ~failed => taken = Len(queue[turn]) /\ worker[turn] = "gone"

Whole(t) ==
    IF Received(t, "content") = <<>> THEN Received(t, "reasoning")
    ELSE IF ShowReasoning THEN Received(t, "reasoning") \o Received(t, "content")
    ELSE Received(t, "content")

\* The answers in the conversation are the text of threads that have ended.
AnswersInv ==
    \A i \in DOMAIN messages :
        messages[i].role = "assistant" =>
            /\ messages[i - 1].turn = messages[i].turn
            /\ worker[messages[i].turn] = "gone"
            /\ messages[i].pieces = Whole(messages[i].turn)

\* While a turn is waited for, its conversation is the trimmed one.
SendInv == phase = "waiting" => Fits(messages)

WholeInv == ThreadInv /\ TurnInv /\ AnswersInv /\ SendInv

LEMMA WholeInit == Init => WholeInv
  <1> SUFFICES ASSUME Init PROVE WholeInv
    OBVIOUS
  <1>1. Len(<<>>) = 0 /\ DOMAIN <<>> = {}
    BY EmptySeq
  <1>2. ThreadInv
    BY <1>1 DEF Init, ThreadInv
  <1>3. TurnInv /\ AnswersInv /\ SendInv
    BY <1>1 DEF Init, TurnInv, AnswersInv, SendInv
  <1> QED
    BY <1>2, <1>3 DEF WholeInv

LEMMA ExitWhole == ASSUME Exit PROVE WholeInv'
  <1>1. Len(<<>>) = 0 /\ DOMAIN <<>> = {}
    BY EmptySeq
  <1>2. /\ phase' = "ended" /\ messages' = <<>>
        /\ worker' = [t \in Turns |-> "none"] /\ queue' = [t \in Turns |-> <<>>]
    BY DEF Exit
  <1>3. ThreadInv'
    BY <1>1, <1>2 DEF ThreadInv
  <1>4. TurnInv' /\ AnswersInv' /\ SendInv'
    BY <1>1, <1>2 DEF TurnInv, AnswersInv, SendInv
  <1> QED
    BY <1>3, <1>4 DEF WholeInv

\* An answer that trim_history leaves is left with the message before it.
LEMMA TrimmedPairs ==
  ASSUME NEW m \in Seq(Message), Len(m) % 2 = 1, Alternates(m),
         NEW i \in DOMAIN Trimmed(m), Trimmed(m)[i].role = "assistant"
  PROVE  \E j \in DOMAIN m : Trimmed(m)[i] = m[j] /\ Trimmed(m)[i - 1] = m[j - 1]
  <1>1. /\ Trimmed(m) \in Seq(Message) /\ Alternates(Trimmed(m))
        /\ \E k \in Nat : /\ 2 * k < Len(m) /\ Len(Trimmed(m)) = Len(m) - 2 * k
                          /\ \A j \in 1..(Len(m) - 2 * k) : Trimmed(m)[j] = m[j + 2 * k]
    BY TrimmedAlternates
  <1>2. PICK k \in Nat : /\ 2 * k < Len(m) /\ Len(Trimmed(m)) = Len(m) - 2 * k
                         /\ \A j \in 1..(Len(m) - 2 * k) : Trimmed(m)[j] = m[j + 2 * k]
    BY <1>1
  <1>3. i \in 1..(Len(m) - 2 * k) /\ i # 1
    <2>1. i % 2 # 1
      BY <1>1 DEF Alternates
    <2>2. i \in 1..(Len(m) - 2 * k)
      BY <1>1, <1>2
    <2> QED
      BY <2>1, <2>2
  <1>4. i - 1 \in 1..(Len(m) - 2 * k) /\ i + 2 * k \in DOMAIN m
    BY <1>2, <1>3
  <1>5. Trimmed(m)[i] = m[i + 2 * k] /\ Trimmed(m)[i - 1] = m[i - 1 + 2 * k]
    BY <1>2, <1>3, <1>4
  <1>6. PICK j \in DOMAIN m : j = i + 2 * k /\ j - 1 = i - 1 + 2 * k
    BY <1>3, <1>4
  <1> QED
    BY <1>5, <1>6

\* An assistant message of the conversation has one before it.
LEMMA AnswerPosition ==
  ASSUME ChatInv, NEW i \in DOMAIN messages, messages[i].role = "assistant"
  PROVE  /\ i \in 2..Len(messages) /\ i - 1 \in 1..Len(messages)
         /\ messages[i].turn \in Turns
  <1>1. messages \in Seq(Message) /\ DOMAIN messages = 1..Len(messages)
    BY DEF ChatInv, TypeOK
  <1>2. i \in 1..Len(messages) /\ Len(messages) \in Nat /\ i # 1
    <2>1. i % 2 # 1
      BY DEF ChatInv, TurnsAlternate, Alternates
    <2> QED
      BY <1>1, <2>1
  <1>3. messages[i] \in Message
    BY <1>1
  <1> QED
    BY <1>1, <1>2, <1>3 DEF Message

LEMMA AskWhole ==
  ASSUME ChatInv, WholeInv, NEW size \in Sizes, Ask(size)
  PROVE  WholeInv'
  <1> DEFINE prompt == [role |-> "user", turn |-> turn + 1, size |-> size, pieces |-> <<>>]
  <1>1. /\ phase' = "starting" /\ turn' = turn + 1 /\ turn \in Nat
        /\ messages' = Append(messages, prompt) /\ prompt.role = "user"
        /\ messages \in Seq(Message) /\ UNCHANGED <<worker, queue>>
    BY ChatAssumption DEF Ask, ChatInv, TypeOK
  <1> HIDE DEF prompt
  <1>2. /\ Len(messages') = Len(messages) + 1 /\ DOMAIN messages' = 1..(Len(messages) + 1)
        /\ \A i \in 1..Len(messages) : messages'[i] = messages[i]
        /\ messages'[Len(messages) + 1] = prompt
    BY <1>1
  <1>3. ThreadInv'
    <2>1. \A t \in Turns : t >= turn + 1 => t > turn
      BY <1>1 DEF Turns
    <2>2. \A t \in Turns : t > turn' \/ t = turn' => t > turn
      BY <1>1 DEF Turns
    <2> QED
      BY <1>1, <2>2 DEF WholeInv, ThreadInv
  <1>4. AnswersInv'
    <2> SUFFICES ASSUME NEW i \in DOMAIN messages', messages'[i].role = "assistant"
                 PROVE  /\ messages'[i - 1].turn = messages'[i].turn
                        /\ worker[messages'[i].turn] = "gone"
                        /\ messages'[i].pieces = Whole(messages'[i].turn)
      BY <1>1 DEF AnswersInv, Whole, Received
    <2>1. i \in 1..Len(messages) /\ messages'[i] = messages[i] /\ i \in DOMAIN messages
      BY <1>1, <1>2
    <2>2. i - 1 \in 1..Len(messages)
      BY <2>1, AnswerPosition
    <2>3. messages'[i - 1] = messages[i - 1]
      BY <1>2, <2>2
    <2> QED
      BY <2>1, <2>3 DEF WholeInv, AnswersInv
  <1>5. TurnInv' /\ SendInv'
    BY <1>1 DEF TurnInv, SendInv
  <1> QED
    BY <1>3, <1>4, <1>5 DEF WholeInv

LEMMA StartWhole ==
  ASSUME ChatInv, WholeInv, Start
  PROVE  WholeInv'
  <1>1. /\ phase = "starting" /\ phase' = "waiting" /\ messages' = Trimmed(messages)
        /\ messages \in Seq(Message) /\ Len(messages) % 2 = 1 /\ Alternates(messages)
        /\ turn \in Turns /\ worker' = [worker EXCEPT ![turn] = "made"]
        /\ worker \in [Turns -> {"none", "gone"} \cup Running]
        /\ taken' = 0 /\ content' = <<>> /\ reasoning' = <<>>
        /\ UNCHANGED <<turn, queue, room>>
    BY TurnTyped DEF Start, Forget, InTurn, ChatInv, TypeOK, TurnsAlternate
  <1>2. worker[turn] = "none" /\ queue[turn] = <<>>
    BY <1>1 DEF WholeInv, ThreadInv
  <1>3. ThreadInv'
    <2>1. Len(<<>>) = 0
      BY EmptySeq
    <2>2. turn \in Nat /\ \A t \in Turns : t > turn => t # turn
      BY <1>1 DEF Turns
    <2> QED
      BY <1>1, <1>2, <2>1, <2>2 DEF WholeInv, ThreadInv
  <1>4. TurnInv'
    <2>1. Len(<<>>) = 0 /\ SubSeq(queue[turn], 1, 0) = <<>>
      BY <1>2, EmptySeq, SubSeqEmpty
    <2>2. \A kind : Text(SubSeq(queue[turn], 1, 0), turn, kind) = <<>>
      BY <2>1, TextEmpty
    <2> QED
      BY <1>1, <1>2, <2>1, <2>2 DEF TurnInv
  <1>5. AnswersInv'
    <2> SUFFICES ASSUME NEW i \in DOMAIN messages', messages'[i].role = "assistant"
                 PROVE  /\ messages'[i - 1].turn = messages'[i].turn
                        /\ worker'[messages'[i].turn] = "gone"
                        /\ messages'[i].pieces = Whole(messages'[i].turn)
      BY <1>1 DEF AnswersInv, Whole, Received
    <2>1. PICK j \in DOMAIN messages : /\ messages'[i] = messages[j]
                                        /\ messages'[i - 1] = messages[j - 1]
      BY <1>1, TrimmedPairs
    <2>2. /\ messages'[i - 1].turn = messages'[i].turn
          /\ worker[messages'[i].turn] = "gone"
          /\ messages'[i].pieces = Whole(messages'[i].turn)
      BY <2>1 DEF WholeInv, AnswersInv
    <2>3. messages'[i].turn # turn
      BY <1>2, <2>2
    <2>4. messages'[i].turn \in Turns
      BY <2>1, AnswerPosition
    <2> QED
      BY <1>1, <2>2, <2>3, <2>4
  <1>6. SendInv'
    <2>1. Fits(Trimmed(messages))
      BY <1>1, TrimmedFits
    <2> QED
      BY <1>1, <2>1 DEF SendInv, Fits
  <1> QED
    BY <1>3, <1>4, <1>5, <1>6 DEF WholeInv

LEMMA TakeWhole ==
  ASSUME ChatInv, WholeInv, TakeEvent
  PROVE  WholeInv'
  <1> DEFINE q == queue[turn]
             event == q[taken + 1]
  <1>1. /\ phase = "waiting" /\ taken \in Nat /\ taken < Len(q) /\ taken' = taken + 1
        /\ content' = IF event.kind = "content" THEN Append(content, event) ELSE content
        /\ reasoning' = IF event.kind = "reasoning" THEN Append(reasoning, event)
                        ELSE reasoning
        /\ event.kind # "error" => ~failed'
        /\ phase' = IF Final(event) THEN "answering" ELSE "waiting"
        /\ UNCHANGED <<turn, messages, room, worker, queue>>
    BY DEF TakeEvent, ChatInv, TypeOK, Final, session
  <1>2. turn \in Turns /\ q \in Seq(Event) /\ taken + 1 \in 1..Len(q) /\ event \in Event
    <2>1. turn \in Turns
      BY <1>1, TurnTyped DEF InTurn
    <2>2. q \in Seq(Event)
      BY <2>1 DEF ChatInv, TypeOK
    <2> QED
      BY <1>1, <2>1, <2>2
  <1>3. /\ event.by = turn
        /\ Final(event) => taken + 1 = Len(q) /\ worker[turn] = "gone"
    BY <1>2 DEF WholeInv, ThreadInv
  <1> HIDE DEF event
  <1>4. TurnInv'
    <2>1. /\ SubSeq(q, 1, taken) \in Seq(Event)
          /\ SubSeq(q, 1, taken + 1) = Append(SubSeq(q, 1, taken), event)
      BY <1>1, <1>2, Prefix DEF event
    <2>2. /\ content = Text(SubSeq(q, 1, taken), turn, "content")
          /\ reasoning = Text(SubSeq(q, 1, taken), turn, "reasoning")
      BY <1>1 DEF WholeInv, TurnInv
    <2>3. \A kind : Text(SubSeq(q, 1, taken + 1), turn, kind) =
                       IF event.kind = kind
                       THEN Append(Text(SubSeq(q, 1, taken), turn, kind), event)
                       ELSE Text(SubSeq(q, 1, taken), turn, kind)
      <3> TAKE kind
      <3> DEFINE before == SubSeq(q, 1, taken)
      <3>1. before \in Seq(Event) /\ event \in Event
        BY <1>2, <2>1
      <3> HIDE DEF before
      <3>2. Text(Append(before, event), turn, kind) =
               IF event.by = turn /\ event.kind = kind
               THEN Append(Text(before, turn, kind), event)
               ELSE Text(before, turn, kind)
        BY <3>1, TextAppend
      <3>3. SubSeq(q, 1, taken + 1) = Append(before, event)
        BY <2>1 DEF before
      <3> QED
        BY <1>3, <3>2, <3>3 DEF before
    <2>4. /\ content' = Text(SubSeq(q, 1, taken + 1), turn, "content")
          /\ reasoning' = Text(SubSeq(q, 1, taken + 1), turn, "reasoning")
      BY <1>1, <2>2, <2>3
    <2>5. taken + 1 <= Len(q)
      BY <1>2
    <2> QED
      BY <1>1, <1>3, <2>4, <2>5 DEF TurnInv
  <1>5. ThreadInv' /\ AnswersInv' /\ SendInv'
    BY <1>1 DEF WholeInv, ThreadInv, AnswersInv, SendInv, Whole, Received, Fits
  <1> QED
    BY <1>4, <1>5 DEF WholeInv

LEMMA AnswerWhole ==
  ASSUME ChatInv, WholeInv, Answer
  PROVE  WholeInv'
  <1>1. CASE Exit
    BY <1>1, ExitWhole
  <1>2. CASE ~Exit
    <2> DEFINE answer == [role |-> "assistant", turn |-> turn,
                          size |-> Len(AnswerText), pieces |-> AnswerText]
    <2>1. /\ phase = "answering" /\ ~failed /\ phase' = "prompt"
          /\ messages' = Append(messages, answer)
          /\ answer.turn = turn /\ answer.pieces = AnswerText
          /\ UNCHANGED <<turn, worker, queue>>
      BY <1>2 DEF Answer, Return, Answered
    <2> HIDE DEF answer
    <2>2. /\ messages \in Seq(Message) /\ Len(messages) % 2 = 1
          /\ Last(messages).turn = turn /\ Len(messages) \in Nat
      BY <2>1 DEF ChatInv, TypeOK, TurnsAlternate
    <2>3. /\ DOMAIN messages' = 1..(Len(messages) + 1) /\ DOMAIN messages = 1..Len(messages)
          /\ \A i \in 1..Len(messages) : messages'[i] = messages[i]
          /\ messages'[Len(messages) + 1] = answer
      BY <2>1, <2>2
    <2>4. turn \in Turns /\ queue[turn] \in Seq(Event)
      <3>1. turn \in Turns
        BY <2>1, TurnTyped DEF InTurn
      <3> QED
        BY <3>1 DEF ChatInv, TypeOK
    <2>5. worker[turn] = "gone" /\ AnswerText = Whole(turn)
      <3>1. /\ taken = Len(queue[turn]) /\ worker[turn] = "gone"
            /\ content = Text(SubSeq(queue[turn], 1, taken), turn, "content")
            /\ reasoning = Text(SubSeq(queue[turn], 1, taken), turn, "reasoning")
        BY <2>1 DEF WholeInv, TurnInv
      <3>2. SubSeq(queue[turn], 1, taken) = queue[turn]
        BY <2>4, <3>1, SubSeqFull
      <3>3. content = Received(turn, "content") /\ reasoning = Received(turn, "reasoning")
        BY <3>1, <3>2 DEF Received
      <3> QED
        BY <3>1, <3>3 DEF AnswerText, Whole
    <2>6. AnswersInv'
      <3> SUFFICES ASSUME NEW i \in DOMAIN messages', messages'[i].role = "assistant"
                   PROVE  /\ messages'[i - 1].turn = messages'[i].turn
                          /\ worker[messages'[i].turn] = "gone"
                          /\ messages'[i].pieces = Whole(messages'[i].turn)
        BY <2>1 DEF AnswersInv, Whole, Received
      <3>1. CASE i = Len(messages) + 1
        <4>1. messages'[i - 1] = Last(messages)
          BY <2>2, <2>3, <3>1 DEF Last
        <4> QED
          BY <2>1, <2>2, <2>3, <2>5, <3>1, <4>1
      <3>2. CASE i # Len(messages) + 1
        <4>1. i \in DOMAIN messages /\ messages'[i] = messages[i]
          BY <2>2, <2>3, <3>2
        <4>2. messages'[i - 1] = messages[i - 1]
          BY <2>3, <4>1, AnswerPosition
        <4> QED
          BY <4>1, <4>2 DEF WholeInv, AnswersInv
      <3> QED
        BY <3>1, <3>2
    <2>7. ThreadInv' /\ TurnInv' /\ SendInv'
      BY <2>1 DEF WholeInv, ThreadInv, TurnInv, SendInv
    <2> QED
      BY <2>6, <2>7 DEF WholeInv
  <1> QED
    BY <1>1, <1>2

\* A conversation that got shorter at its end.
LEMMA FailWhole ==
  ASSUME ChatInv, WholeInv, Fail \/ Blank
  PROVE  WholeInv'
  <1>1. CASE Exit
    BY <1>1, ExitWhole
  <1>2. CASE ~Exit
    <2>1. /\ phase = "answering" /\ phase' = "prompt" /\ messages' = Front(messages)
          /\ UNCHANGED <<turn, worker, queue>>
      BY <1>2 DEF Fail, Blank, Return
    <2>2. messages \in Seq(Message) /\ Len(messages) % 2 = 1
      BY <2>1 DEF ChatInv, TypeOK, TurnsAlternate
    <2>3. /\ DOMAIN messages' \subseteq DOMAIN messages
          /\ DOMAIN messages' = 1..(Len(messages) - 1)
          /\ \A i \in DOMAIN messages' : messages'[i] = messages[i]
      BY <2>1, <2>2, FrontOf
    <2>4. AnswersInv'
      <3> SUFFICES ASSUME NEW i \in DOMAIN messages', messages'[i].role = "assistant"
                   PROVE  /\ messages'[i - 1].turn = messages'[i].turn
                          /\ worker[messages'[i].turn] = "gone"
                          /\ messages'[i].pieces = Whole(messages'[i].turn)
        BY <2>1 DEF AnswersInv, Whole, Received
      <3>1. i \in DOMAIN messages /\ messages'[i] = messages[i]
        BY <2>3
      <3>2. i - 1 \in 1..Len(messages)
        BY <3>1, AnswerPosition
      <3>3. messages'[i - 1] = messages[i - 1]
        BY <2>2, <2>3, <3>2
      <3> QED
        BY <3>1, <3>3 DEF WholeInv, AnswersInv
    <2>5. ThreadInv' /\ TurnInv' /\ SendInv'
      BY <2>1 DEF WholeInv, ThreadInv, TurnInv, SendInv
    <2> QED
      BY <2>4, <2>5 DEF WholeInv
  <1> QED
    BY <1>1, <1>2

LEMMA WorkerWhole ==
  ASSUME ChatInv, WholeInv, NEW t \in Turns, Worker(t)
  PROVE  WholeInv'
  <1>1. /\ UNCHANGED <<messages, turn, room, phase, taken, content, reasoning, failed>>
        /\ worker[t] \in Running
        /\ \E to \in {"sent", "gone"} : worker' = [worker EXCEPT ![t] = to]
        /\ worker \in [Turns -> {"none", "gone"} \cup Running]
        /\ queue \in [Turns -> Seq(Event)]
        /\ taken \in Nat /\ Len(queue[t]) \in Nat
    BY DEF Worker, Submit, Done, Break, Stream, Thread, ChatInv, TypeOK, Running, session,
           local
  <1>2. CASE UNCHANGED queue
    <2>1. ThreadInv'
      BY <1>1, <1>2 DEF WholeInv, ThreadInv, Running
    <2>2. TurnInv'
      BY <1>1, <1>2 DEF WholeInv, TurnInv, Running
    <2>3. AnswersInv'
      BY <1>1, <1>2 DEF WholeInv, AnswersInv, Whole, Received, Running
    <2>4. SendInv'
      BY <1>1 DEF WholeInv, SendInv, Fits
    <2> QED
      BY <2>1, <2>2, <2>3, <2>4 DEF WholeInv
  <1>3. ASSUME NEW kind \in {"content", "reasoning", "length", "error", "done"}, Put(t, kind),
               kind \in {"error", "done"} => worker'[t] = "gone"
        PROVE  WholeInv'
    <2> DEFINE event == [by |-> t, kind |-> kind]
               q == queue[t]
    <2>1. event \in Event /\ event.by = t /\ (Final(event) => worker'[t] = "gone")
      BY <1>3 DEF Event, Final
    <2>2. /\ queue' = [queue EXCEPT ![t] = Append(q, event)] /\ q \in Seq(Event)
      BY <1>1, <1>3 DEF Put
    <2> HIDE DEF event
    <2>3. /\ Len(queue'[t]) = Len(q) + 1 /\ queue'[t][Len(q) + 1] = event
          /\ \A i \in 1..Len(q) : queue'[t][i] = q[i]
      BY <1>1, <2>1, <2>2
    <2>4. /\ \A s \in Turns \ {t} : queue'[s] = queue[s] /\ worker'[s] = worker[s]
          /\ worker[t] # "none" /\ worker[t] # "gone" /\ worker'[t] # "none"
      BY <1>1, <2>2 DEF Running
    <2>5. ThreadInv'
      <3>1. \A i \in 1..Len(q) : q[i].by = t /\ ~Final(q[i])
        BY <2>4 DEF WholeInv, ThreadInv
      <3>2. \A i \in 1..(Len(q) + 1) : i \in 1..Len(q) \/ i = Len(q) + 1
        BY <1>1
      <3>3. \A i \in 1..Len(queue'[t]) :
              /\ queue'[t][i].by = t
              /\ Final(queue'[t][i]) => i = Len(queue'[t]) /\ worker'[t] = "gone"
        BY <2>1, <2>3, <3>1, <3>2
      <3>4. ~(t > turn \/ (t = turn /\ phase = "starting"))
        BY <2>4 DEF WholeInv, ThreadInv
      <3> QED
        BY <1>1, <2>4, <3>3, <3>4 DEF WholeInv, ThreadInv, Final
    <2>6. TurnInv'
      <3> SUFFICES ASSUME phase \in {"waiting", "answering"} PROVE TurnInv'
        BY <1>1 DEF TurnInv
      <3>1. CASE turn # t
        <4>1. turn \in Turns
          BY TurnTyped DEF InTurn
        <4> QED
          BY <1>1, <2>4, <3>1, <4>1 DEF WholeInv, TurnInv
      <3>2. CASE turn = t
        <4>1. taken <= Len(q) /\ ~(phase = "answering" /\ ~failed)
          BY <2>4, <3>2 DEF WholeInv, TurnInv
        <4>2. SubSeq(queue'[t], 1, taken) = SubSeq(q, 1, taken)
          BY <1>1, <2>1, <2>2, <4>1, PrefixOfMore
        <4>3. taken <= Len(queue'[t])
          BY <1>1, <2>3, <4>1
        <4> QED
          BY <1>1, <3>2, <4>1, <4>2, <4>3 DEF WholeInv, TurnInv
      <3> QED
        BY <3>1, <3>2
    <2>7. AnswersInv'
      <3> SUFFICES ASSUME NEW i \in DOMAIN messages, messages[i].role = "assistant"
                   PROVE  /\ messages[i - 1].turn = messages[i].turn
                          /\ worker'[messages[i].turn] = "gone"
                          /\ messages[i].pieces = Whole(messages[i].turn)'
        BY <1>1 DEF AnswersInv, Whole, Received
      <3>1. /\ messages[i - 1].turn = messages[i].turn
            /\ worker[messages[i].turn] = "gone"
            /\ messages[i].pieces = Whole(messages[i].turn)
        BY DEF WholeInv, AnswersInv
      <3>2. messages[i].turn \in Turns \ {t}
        BY <2>4, <3>1, AnswerPosition
      <3> QED
        BY <1>1, <2>4, <3>1, <3>2 DEF Whole, Received
    <2>8. SendInv'
      BY <1>1 DEF WholeInv, SendInv, Fits
    <2> QED
      BY <2>5, <2>6, <2>7, <2>8 DEF WholeInv
  <1>4. CASE Submit(t)
    BY <1>2, <1>4 DEF Submit
  <1>5. CASE Done(t) \/ Break(t)
    <2>1. worker'[t] = "gone"
      BY <1>1, <1>5 DEF Done, Break, Thread
    <2> QED
      BY <1>3, <1>5, <2>1 DEF Done, Break
  <1>6. ASSUME NEW kind \in {"content", "reasoning", "length"}, Stream(t, kind)
        PROVE  WholeInv'
    BY <1>3, <1>6 DEF Stream
  <1> QED
    BY <1>4, <1>5, <1>6 DEF Worker

LEMMA CommandWhole ==
  ASSUME ChatInv, WholeInv,
         \/ Clear \/ Leave \/ Interrupt \/ Hangup \/ Ended \/ UNCHANGED vars
         \/ \E r \in Rooms : SetRoom(r)
  PROVE  WholeInv'
  <1>1. CASE Exit
    BY <1>1, ExitWhole
  <1>2. CASE Clear
    <2>1. /\ phase = "prompt" /\ phase' = "prompt" /\ messages' = <<>> /\ DOMAIN <<>> = {}
          /\ UNCHANGED <<turn, worker, queue>>
      BY <1>2, EmptySeq DEF Clear
    <2> QED
      BY <2>1 DEF WholeInv, ThreadInv, TurnInv, AnswersInv, SendInv
  <1>3. ASSUME NEW r \in Rooms, SetRoom(r) PROVE WholeInv'
    <2>1. /\ phase = "prompt" /\ phase' = "prompt" /\ UNCHANGED <<messages, turn, worker, queue>>
      BY <1>3 DEF SetRoom
    <2> QED
      BY <2>1 DEF WholeInv, ThreadInv, TurnInv, AnswersInv, SendInv, Whole, Received
  <1>4. CASE UNCHANGED vars
    BY <1>4 DEF vars, session, local, WholeInv, ThreadInv, TurnInv, AnswersInv, SendInv,
                Whole, Received, Fits
  <1>5. CASE Interrupt /\ ~Exit
    <2>1. /\ phase = "waiting" /\ phase' = "answering" /\ failed'
          /\ UNCHANGED <<messages, turn, worker, queue, taken, content, reasoning>>
      BY <1>5 DEF Interrupt, session
    <2> QED
      BY <2>1 DEF WholeInv, ThreadInv, TurnInv, AnswersInv, SendInv, Whole, Received
  <1> QED
    BY <1>1, <1>2, <1>3, <1>4, <1>5 DEF Leave, Hangup, Ended

LEMMA WholeNext ==
  ASSUME ChatInv, WholeInv, [Next]_vars
  PROVE  WholeInv'
  BY AskWhole, StartWhole, TakeWhole, FailWhole, AnswerWhole, WorkerWhole, CommandWhole
     DEF Next

LEMMA WholeInvariant == Spec => [](ChatInv /\ WholeInv)
  <1>1. Init => ChatInv /\ WholeInv
    BY ChatInvInit, WholeInit
  <1>2. ChatInv /\ WholeInv /\ [Next]_vars => ChatInv' /\ WholeInv'
    BY ChatInvNext, WholeNext
  <1> QED
    BY <1>1, <1>2, PTL DEF Spec

-----------------------------------------------------------------------------
(***************************************************************************)
(* Theorems.                                                               *)
(***************************************************************************)
\* Every variable of the chat keeps its type; no message of the conversation is
\* empty (scripts/domesticllm-tui.py).
THEOREM ChatTypes == Spec => []TypeOK
  <1>1. Init => ChatInv
    BY ChatInvInit
  <1>2. ChatInv /\ [Next]_vars => ChatInv'
    BY ChatInvNext
  <1>3. ChatInv => TypeOK
    BY DEF ChatInv
  <1> QED
    BY <1>1, <1>2, <1>3, PTL DEF Spec

\* User and assistant alternate, whatever fails, is cancelled, trimmed or
\* cleared; a turn that is waited for has its prompt at the end.
THEOREM ConversationAlternates == Spec => []TurnsAlternate
  <1>1. Init => ChatInv
    BY ChatInvInit
  <1>2. ChatInv /\ [Next]_vars => ChatInv'
    BY ChatInvNext
  <1>3. ChatInv => TurnsAlternate
    BY DEF ChatInv
  <1> QED
    BY <1>1, <1>2, <1>3, PTL DEF Spec

\* An answer is the text that the thread of its turn has received, all of it and in
\* order, and follows its prompt: queues and threads of cancelled turns, that go on
\* sending, never reach the conversation.
THEOREM AnswersWhole == Spec => []AnswerIsWhole
  <1>1. ChatInv /\ WholeInv => AnswerIsWhole
    BY DEF WholeInv, AnswersInv, AnswerIsWhole, Whole
  <1> QED
    BY <1>1, WholeInvariant, PTL

\* What request_worker serialises for the turn that is waited for begins with a prompt,
\* ends with the one that is asked, and fits unless it is that prompt alone: nobody
\* touches the shared list between trim_history and the thread's first step.
THEOREM SendsWhatIsAsked == Spec => SentIsAsked
  <1>1. ChatInv /\ WholeInv =>
          [phase = "waiting" /\ worker[turn] = "made" /\ worker'[turn] = "sent" =>
              /\ messages[1].role = "user"
              /\ Last(messages).turn = turn /\ Last(messages).role = "user"
              /\ Size(messages) <= room \/ Len(messages) = 1]_vars
    <2> SUFFICES ASSUME ChatInv, WholeInv, phase = "waiting"
                 PROVE  /\ messages[1].role = "user"
                        /\ Last(messages).turn = turn /\ Last(messages).role = "user"
                        /\ Size(messages) <= room \/ Len(messages) = 1
      OBVIOUS
    <2>1. /\ messages \in Seq(Message) /\ Len(messages) % 2 = 1
          /\ Alternates(messages) /\ Last(messages).turn = turn /\ Fits(messages)
      BY DEF ChatInv, TypeOK, TurnsAlternate, WholeInv, SendInv
    <2>2. /\ 1 \in DOMAIN messages /\ Len(messages) \in DOMAIN messages
          /\ Len(messages) <= 2 => Len(messages) = 1
      <3>1. messages \in Seq(Message) /\ Len(messages) % 2 = 1
        BY <2>1
      <3> QED
        BY <3>1, OddLength
    <2>3. messages[1].role = "user" /\ messages[Len(messages)].role = "user"
      BY <2>1, <2>2 DEF Alternates
    <2> QED
      BY <2>1, <2>2, <2>3 DEF Last, Fits
  <1> QED
    BY <1>1, WholeInvariant, PTL DEF SentIsAsked
===============================================================================
