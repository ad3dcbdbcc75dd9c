--------------------------- MODULE LiveViewProofs ---------------------------
(***************************************************************************)
(* What is proved of LiveView for any number of screens, any queue limit and *)
(* any day: nothing is broadcast that is not committed, and no screen whose  *)
(* stream is up misses a change for good.                                    *)
(***************************************************************************)
EXTENDS LiveView, TLAPS

Has(seq, s) == \E i \in 1..Len(seq) : seq[i] = s

\* Where the numbers a thread has still to announce come from.
Announcing ==
  /\ \A s \in Nat : Has(web, s) => s <= Len(log)
  /\ loop.at = "writing" => loop.todo = [i \in 1..Len(loop.kinds) |-> Len(log) + i]
  /\ loop.at = "committed" => \A s \in Nat : Has(loop.todo, s) => s <= Len(log)

\* The two promises to one screen.
Committed(c) == \A s \in Nat : Has(queue[c], s) \/ Has(wire[c], s) => s <= Len(log)

Warned(c) ==
  c \in subs /\ stage[c] = "live" =>
    \A s \in (served[c] + 1)..Len(log) :
      log[s] = "signal" => asked[c] > 0 \/ Coming(s, c)

LiveInv ==
  /\ LiveTypeOK /\ Announcing
  /\ \A c \in Screens : Committed(c) /\ Warned(c)
-----------------------------------------------------------------------------
(* Sequences *)

\* What a queue holds after something was put at its end.
LEMMA HasAppend ==
  ASSUME NEW q \in Seq(Nat), NEW x \in Nat
  PROVE  /\ Append(q, x) \in Seq(Nat) /\ Len(Append(q, x)) = Len(q) + 1
         /\ \A s : Has(Append(q, x), s) <=> Has(q, s) \/ s = x
<1> DEFINE longer == Append(q, x)
<1>1. /\ longer \in Seq(Nat) /\ Len(q) \in Nat /\ Len(longer) = Len(q) + 1
      /\ longer[Len(q) + 1] = x /\ \A i \in 1..Len(q) : longer[i] = q[i]
  OBVIOUS
<1> HIDE DEF longer
<1>2. ASSUME NEW s PROVE Has(longer, s) <=> Has(q, s) \/ s = x
  BY <1>1 DEF Has
<1> QED BY <1>1, <1>2 DEF longer

\* What a queue holds is its head or behind it.
LEMMA HasTail ==
  ASSUME NEW q \in Seq(Nat), q # <<>>
  PROVE  /\ Head(q) \in Nat /\ Tail(q) \in Seq(Nat) /\ Len(Tail(q)) <= Len(q)
         /\ Has(q, Head(q))
         /\ \A s : Has(Tail(q), s) => Has(q, s)
         /\ \A s : Has(q, s) => s = Head(q) \/ Has(Tail(q), s)
<1> DEFINE rest == Tail(q)
<1>1. /\ Len(q) \in Nat \ {0} /\ Head(q) = q[1] /\ Head(q) \in Nat /\ rest \in Seq(Nat)
      /\ Len(rest) = Len(q) - 1 /\ \A i \in 1..(Len(q) - 1) : rest[i] = q[i + 1]
  OBVIOUS
<1> HIDE DEF rest
<1>2. Has(q, Head(q))
  BY <1>1 DEF Has
<1>3. ASSUME NEW s, Has(rest, s) PROVE Has(q, s)
  <2>1. PICK i \in 1..Len(rest) : rest[i] = s
    BY <1>3 DEF Has
  <2>2. i + 1 \in 1..Len(q) /\ q[i + 1] = s
    BY <1>1, <2>1
  <2> QED BY <2>2 DEF Has
<1>4. ASSUME NEW s, Has(q, s), s # Head(q) PROVE Has(rest, s)
  <2>1. PICK i \in 1..Len(q) : q[i] = s
    BY <1>4 DEF Has
  <2>2. i - 1 \in 1..Len(rest) /\ rest[i - 1] = s
    BY <1>1, <1>4, <2>1
  <2> QED BY <2>2 DEF Has
<1> QED BY <1>1, <1>2, <1>3, <1>4 DEF rest

\* An empty queue holds nothing.
LEMMA HasNothing == \A s : ~Has(<<>>, s)
BY DEF Has

\* The numbers the next events get.
LEMMA NextSeqs ==
  ASSUME NEW n \in Nat, NEW m \in Nat
  PROVE  LET seqs == [i \in 1..m |-> n + i]
         IN /\ seqs \in Seq(Nat) /\ Len(seqs) = m
            /\ \A s : Has(seqs, s) <=> s \in (n + 1)..(n + m)
<1> DEFINE seqs == [i \in 1..m |-> n + i]
<1>1. seqs \in Seq(Nat) /\ Len(seqs) = m /\ \A i \in 1..m : seqs[i] = n + i
  OBVIOUS
<1> HIDE DEF seqs
<1>2. ASSUME NEW s \in (n + 1)..(n + m) PROVE Has(seqs, s)
  <2>1. s - n \in 1..Len(seqs) /\ seqs[s - n] = s
    BY <1>1
  <2> QED BY <2>1 DEF Has
<1>3. ASSUME NEW s, Has(seqs, s) PROVE s \in (n + 1)..(n + m)
  BY <1>1, <1>3 DEF Has
<1> QED BY <1>1, <1>2, <1>3 DEF seqs

\* Where an event is on its way.
LEMMA ComingIs ==
  ASSUME NEW s, NEW c
  PROVE  Coming(s, c) <=> \/ Has(queue[c], s) \/ Has(wire[c], s) \/ Has(web, s)
                          \/ loop.at = "committed" /\ Has(loop.todo, s)
BY DEF Coming, Has

\* The loop in each of its phases.
LEMMA LoopPhases ==
  ASSUME LiveTypeOK
  PROVE  /\ loop.at = "writing" => loop.kinds \in Seq(Kind) /\ loop.todo \in Seq(Nat)
         /\ loop.at = "committed" => /\ loop \in [at : {"committed"}, todo : Seq(Nat)]
                                     /\ loop.todo \in Seq(Nat)
         /\ Resting.at = "resting"
BY DEF LiveTypeOK, Resting

\* What a request logs are events.
LEMMA WritesAreEvents ==
  ASSUME NEW kinds \in Writes
  PROVE  kinds \in Seq(Kind) /\ Len(kinds) \in Nat
<1>1. "signal" \in Kind /\ "silent" \in Kind
  BY DEF Kind
<1>2. <<"signal">> \in Seq(Kind) /\ <<"signal", "silent">> \in Seq(Kind) /\ <<"silent">> \in Seq(Kind)
  BY <1>1
<1>3. kinds \in Seq(Kind)
  BY <1>2 DEF Writes
<1> QED BY <1>3

\* A log that grew.
LEMMA LogGrows ==
  ASSUME log \in Seq(Kind), NEW kinds \in Seq(Kind), log' = log \o kinds
  PROVE  /\ log' \in Seq(Kind) /\ Len(log') = Len(log) + Len(kinds) /\ Len(log') \in Nat
         /\ Len(kinds) \in Nat /\ Len(log) \in Nat
         /\ \A s \in 1..Len(log) : log'[s] = log[s]
OBVIOUS
-----------------------------------------------------------------------------
(* Types *)

\* What the event-loop thread and the worker thread write is of its kind.
LEMMA ThreadTypes ==
  ASSUME LiveInv,
         (\E kinds \in Writes : WebCommit(kinds)) \/ WebPublish \/ LoopWrite \/ LoopEnds
  PROVE  LiveTypeOK'
<1> USE DEF LiveInv
<1>1. LiveTypeOK
  OBVIOUS
<1>2. ASSUME NEW s, subs' = {c \in subs : HasRoom(c)}, s \in Nat,
             queue' = [c \in Screens |-> IF c \in subs /\ HasRoom(c) THEN Append(queue[c], s)
                                                                     ELSE queue[c]]
      PROVE  /\ subs' \subseteq Screens /\ queue' \in [Screens -> Seq(Nat)]
             /\ \A c \in Screens : Len(queue'[c]) <= QueueLimit
  <2>1. ASSUME NEW c \in Screens
        PROVE  queue'[c] \in Seq(Nat) /\ Len(queue'[c]) <= QueueLimit
    <3>1. queue[c] \in Seq(Nat) /\ Len(queue[c]) \in Nat /\ Len(queue[c]) <= QueueLimit
      BY <1>1 DEF LiveTypeOK
    <3>2. CASE c \in subs /\ HasRoom(c)
      <4>1. queue'[c] = Append(queue[c], s)
        BY <1>2, <3>2
      <4>2. Append(queue[c], s) \in Seq(Nat) /\ Len(Append(queue[c], s)) = Len(queue[c]) + 1
        BY <1>2, <3>1, HasAppend
      <4> QED BY <3>1, <3>2, <4>1, <4>2, LiveAssumption DEF HasRoom
    <3>3. CASE ~(c \in subs /\ HasRoom(c))
      BY <1>2, <3>1, <3>3
    <3> QED BY <3>2, <3>3
  <2>2. subs' \subseteq Screens
    BY <1>1, <1>2 DEF LiveTypeOK
  <2>3. DOMAIN queue' = Screens /\ queue' = [c \in Screens |-> queue'[c]]
    BY <1>2
  <2> QED BY <2>1, <2>2, <2>3
<1>3. ASSUME NEW kinds \in Writes, WebCommit(kinds) PROVE LiveTypeOK'
  <2>1. kinds \in Seq(Kind)
    BY WritesAreEvents
  <2>2. log' = log \o kinds /\ web' = [i \in 1..Len(kinds) |-> Len(log) + i]
    BY <1>3 DEF WebCommit, Seqs
  <2>3. log' \in Seq(Kind) /\ web' \in Seq(Nat)
    BY <1>1, <2>1, <2>2, LogGrows, NextSeqs DEF LiveTypeOK
  <2> QED BY <1>1, <1>3, <2>3 DEF WebCommit, LiveTypeOK, socket, page
<1>4. CASE WebPublish
  <2>1. Head(web) \in Nat /\ web' \in Seq(Nat)
    BY <1>1, <1>4, HasTail DEF WebPublish, LiveTypeOK
  <2> QED BY <1>1, <1>2, <1>4, <2>1 DEF WebPublish, Announce, LiveTypeOK, page
<1>5. CASE LoopWrite
  <2>1. Release \in Seq(Kind) /\ Len(Release) \in Nat
    BY DEF Release, Kind
  <2>2. Seqs(Release) \in Seq(Nat)
    BY <1>1, <2>1, NextSeqs DEF Seqs, LiveTypeOK
  <2>3. loop' \in [at : {"writing"}, kinds : Seq(Kind), todo : Seq(Nat)]
    BY <1>5, <2>1, <2>2 DEF LoopWrite
  <2> QED BY <1>1, <1>5, <2>3 DEF LoopWrite, LiveTypeOK, socket, page
<1>6. CASE LoopCommit
  <2>1. loop.kinds \in Seq(Kind) /\ loop.todo \in Seq(Nat)
    BY <1>1, <1>6, LoopPhases DEF LoopCommit
  <2>2. log' \in Seq(Kind) /\ loop' \in [at : {"committed"}, todo : Seq(Nat)]
    BY <1>1, <1>6, <2>1, LogGrows DEF LoopCommit, LiveTypeOK
  <2> QED BY <1>1, <1>6, <2>2 DEF LoopCommit, LiveTypeOK, socket, page
<1>7. CASE LoopRollback \/ LoopDone
  BY <1>1, <1>7 DEF LoopRollback, LoopDone, LiveTypeOK, socket, page
<1>8. CASE LoopPublish
  <2>1. loop \in [at : {"committed"}, todo : Seq(Nat)] /\ loop.todo # <<>>
    BY <1>1, <1>8, LoopPhases DEF LoopPublish, MayAnnounce
  <2>2. Head(loop.todo) \in Nat /\ Tail(loop.todo) \in Seq(Nat)
    BY <2>1, HasTail
  <2>3. loop' \in [at : {"committed"}, todo : Seq(Nat)]
    BY <1>8, <2>1, <2>2 DEF LoopPublish
  <2> QED BY <1>1, <1>2, <1>8, <2>2, <2>3 DEF LoopPublish, Announce, LiveTypeOK, page
<1> QED BY <1>3, <1>4, <1>5, <1>6, <1>7, <1>8 DEF LoopEnds

\* What a reconnecting page is sent has been committed.
LEMMA MissedIsCommitted ==
  ASSUME LiveTypeOK, NEW c \in Screens
  PROVE  Missed(c) \in Seq(Nat) /\ \A s \in Nat : Has(Missed(c), s) => s <= Len(log)
<1> DEFINE n == Len(log) - lastId[c]
           m == IF n < ReplayLimit THEN n ELSE ReplayLimit
<1>1. n \in Int /\ lastId[c] \in Nat /\ Len(log) \in Nat /\ ReplayLimit \in Nat
  BY LiveAssumption DEF LiveTypeOK
<1>2. CASE lastId[c] = 0 \/ n <= 0
  BY <1>2, HasNothing DEF Missed
<1>3. CASE ~(lastId[c] = 0 \/ n <= 0)
  <2>1. Missed(c) = [i \in 1..m |-> lastId[c] + i]
    BY <1>3 DEF Missed
  <2>2. m \in Nat /\ lastId[c] + m <= Len(log)
    BY <1>1, <1>3
  <2> HIDE DEF m, n
  <2>3. Missed(c) \in Seq(Nat) /\ \A s : Has(Missed(c), s) <=> s \in (lastId[c] + 1)..(lastId[c] + m)
    BY <1>1, <2>1, <2>2, NextSeqs
  <2> QED BY <1>1, <2>2, <2>3
<1> QED BY <1>2, <1>3

\* What a screen's step writes is of its kind.
LEMMA ScreenTypes ==
  ASSUME LiveInv, NEW c \in Screens, ScreenStep(c)
  PROVE  LiveTypeOK'
<1> USE DEF LiveInv
<1>1. LiveTypeOK
  OBVIOUS
<1>2. CASE OpenStream(c)
  BY <1>1, <1>2, MissedIsCommitted DEF OpenStream, LiveTypeOK, page
<1>3. CASE OnOpen(c)
  BY <1>1, <1>3 DEF OnOpen, RefreshOnOpen, LiveTypeOK
<1>4. CASE Forward(c)
  <2>1. queue[c] \in Seq(Nat) /\ queue[c] # <<>> /\ wire[c] \in Seq(Nat) /\ Len(queue[c]) \in Nat
        /\ Len(queue[c]) <= QueueLimit
    BY <1>1, <1>4 DEF Forward, LiveTypeOK
  <2>2. /\ Tail(queue[c]) \in Seq(Nat) /\ Len(Tail(queue[c])) <= Len(queue[c])
        /\ Append(wire[c], Head(queue[c])) \in Seq(Nat) /\ Len(Tail(queue[c])) \in Nat
    BY <2>1, HasTail, HasAppend
  <2>3. Len(Tail(queue[c])) <= QueueLimit
    BY <2>1, <2>2, LiveAssumption
  <2>4. /\ queue' = [queue EXCEPT ![c] = Tail(queue[c])]
        /\ wire' = [wire EXCEPT ![c] = Append(wire[c], Head(queue[c]))]
    BY <1>4 DEF Forward
  <2>5. queue' \in [Screens -> Seq(Nat)] /\ wire' \in [Screens -> Seq(Nat)]
    BY <1>1, <2>2, <2>4 DEF LiveTypeOK
  <2>6. \A d \in Screens : Len(queue'[d]) <= QueueLimit
    BY <1>1, <2>3, <2>4 DEF LiveTypeOK
  <2> QED BY <1>1, <1>4, <2>5, <2>6 DEF Forward, LiveTypeOK, page
<1>5. CASE Receive(c)
  <2>1. Head(wire[c]) \in Nat /\ Tail(wire[c]) \in Seq(Nat)
    BY <1>1, <1>5, HasTail DEF Receive, LiveTypeOK
  <2>2. /\ lastId' = [lastId EXCEPT ![c] = Head(wire[c])]
        /\ wire' = [wire EXCEPT ![c] = Tail(wire[c])]
        /\ asked' = [asked EXCEPT ![c] = asked'[c]]
        /\ asked'[c] \in {asked[c], asked[c] + 1}
    BY <1>1, <1>5 DEF Receive, LiveTypeOK
  <2>3. asked'[c] \in Nat
    BY <1>1, <2>2 DEF LiveTypeOK
  <2>4. /\ lastId' \in [Screens -> Nat] /\ wire' \in [Screens -> Seq(Nat)]
        /\ asked' \in [Screens -> Nat]
    BY <1>1, <2>1, <2>2, <2>3 DEF LiveTypeOK
  <2> QED BY <1>1, <1>5, <2>4 DEF Receive, LiveTypeOK
<1>6. CASE Disconnect(c)
  <2>1. <<>> \in Seq(Nat) /\ Len(<<>>) <= QueueLimit
    BY LiveAssumption
  <2> QED BY <1>1, <1>6, <2>1 DEF Disconnect, LiveTypeOK, page
<1>7. CASE SafetyRefresh(c)
  BY <1>1, <1>7 DEF SafetyRefresh, LiveTypeOK, socket
<1>8. CASE ServeFetch(c)
  <2>1. Len(log) \in Nat /\ asked[c] - 1 \in Nat
    BY <1>1, <1>8 DEF ServeFetch, LiveTypeOK
  <2> QED BY <1>1, <1>8, <2>1 DEF ServeFetch, LiveTypeOK, socket
<1>9. ASSUME NEW v \in 0..Len(log), Arrive(c, v) \/ FetchFails(c, v) PROVE LiveTypeOK'
  <2>1. v \in Nat
    BY <1>1 DEF LiveTypeOK
  <2>2. answers[c] \ {v} \in SUBSET Nat
    BY <1>1 DEF LiveTypeOK
  <2>3. answers' \in [Screens -> SUBSET Nat]
    BY <1>1, <1>9, <2>2 DEF Arrive, FetchFails, LiveTypeOK
  <2>4. screen' \in [Screens -> Nat] /\ failures' \in Nat
    BY <1>1, <1>9, <2>1 DEF Arrive, FetchFails, LiveTypeOK
  <2> QED BY <1>1, <1>9, <2>3, <2>4 DEF Arrive, FetchFails, LiveTypeOK, socket
<1> QED BY <1>2, <1>3, <1>4, <1>5, <1>6, <1>7, <1>8, <1>9 DEF ScreenStep
-----------------------------------------------------------------------------
(* The promises to the screens *)

\* One announcement: a screen that is still subscribed has it coming.
LEMMA Announced ==
  ASSUME LiveTypeOK, NEW s \in Nat, s <= Len(log), Announce(s), NEW c \in Screens,
         Committed(c), UNCHANGED <<log, wire>>
  PROVE  /\ Committed(c)' /\ (c \in subs' => c \in subs /\ Has(queue'[c], s))
         /\ \A x \in Nat : Has(queue[c], x) => Has(queue'[c], x)
<1>1. queue[c] \in Seq(Nat)
  BY DEF LiveTypeOK
<1>2. /\ queue'[c] = IF c \in subs /\ HasRoom(c) THEN Append(queue[c], s) ELSE queue[c]
      /\ subs' = {d \in subs : HasRoom(d)}
  BY DEF Announce
<1>3. \A x : Has(Append(queue[c], s), x) <=> Has(queue[c], x) \/ x = s
  BY <1>1, HasAppend
<1> QED BY <1>2, <1>3 DEF Committed

\* New events are announced by the thread that committed them, so nobody slips.
LEMMA CommittedAreComing ==
  ASSUME LiveInv, NEW kinds \in Seq(Kind), log' = log \o kinds,
         UNCHANGED <<subs, queue, wire, stage, served, asked>>,
         \A x \in Nat : Has(web, x) => Has(web, x)',
         loop.at = "committed" => loop' = loop,
         \A x \in (Len(log) + 1)..(Len(log) + Len(kinds)) :
           Has(web', x) \/ (loop'.at = "committed" /\ Has(loop'.todo, x)),
         NEW c \in Screens
  PROVE  Committed(c)' /\ Warned(c)'
<1>1. /\ Len(log') = Len(log) + Len(kinds) /\ Len(log) \in Nat /\ Len(kinds) \in Nat
      /\ \A s \in 1..Len(log) : log'[s] = log[s]
  BY LogGrows DEF LiveInv, LiveTypeOK
<1>2. served[c] \in Nat
  BY DEF LiveInv, LiveTypeOK
<1>3. Committed(c)'
  BY <1>1 DEF LiveInv, Committed
<1>4. ASSUME c \in subs, stage[c] = "live", NEW s \in (served[c] + 1)..Len(log'), log'[s] = "signal",
             ~(asked[c] > 0)
      PROVE  Coming(s, c)'
  <2>1. CASE s <= Len(log)
    <3>1. s \in (served[c] + 1)..Len(log) /\ log[s] = "signal" /\ s \in Nat
      BY <1>1, <1>2, <1>4, <2>1
    <3>2. Coming(s, c)
      BY <1>4, <3>1 DEF LiveInv, Warned
    <3>3. \/ Has(queue[c], s) \/ Has(wire[c], s) \/ Has(web, s)
          \/ loop.at = "committed" /\ Has(loop.todo, s)
      BY <3>2, ComingIs
    <3>4. \/ Has(queue'[c], s) \/ Has(wire'[c], s) \/ Has(web', s)
          \/ loop'.at = "committed" /\ Has(loop'.todo, s)
      BY <3>1, <3>3
    <3> QED BY <3>4 DEF Coming, Has
  <2>2. CASE s > Len(log)
    <3>1. s \in (Len(log) + 1)..(Len(log) + Len(kinds))
      BY <1>1, <1>2, <1>4, <2>2
    <3> QED BY <3>1 DEF Coming, Has
  <2> QED BY <1>1, <1>2, <2>1, <2>2
<1>5. Warned(c)'
  BY <1>4 DEF Warned
<1> QED BY <1>3, <1>5

\* What the two threads do keeps both promises.
LEMMA ThreadSteps ==
  ASSUME LiveInv,
         (\E kinds \in Writes : WebCommit(kinds)) \/ WebPublish \/ LoopWrite \/ LoopEnds
  PROVE  Announcing' /\ \A c \in Screens : Committed(c)' /\ Warned(c)'
<1>1. LiveTypeOK /\ Announcing /\ Len(log) \in Nat /\ web \in Seq(Nat)
  BY DEF LiveInv, LiveTypeOK
<1>2. ASSUME NEW kinds \in Writes, WebCommit(kinds)
      PROVE  Announcing' /\ \A c \in Screens : Committed(c)' /\ Warned(c)'
  <2>1. kinds \in Seq(Kind) /\ Len(kinds) \in Nat
    BY WritesAreEvents
  <2>2. /\ log' = log \o kinds /\ web' = [i \in 1..Len(kinds) |-> Len(log) + i] /\ web = <<>>
        /\ loop' = loop /\ loop.at # "writing" /\ UNCHANGED <<subs, queue, wire, stage, served, asked>>
    BY <1>2 DEF WebCommit, Seqs, socket, page
  <2>3. \A x : Has(web', x) <=> x \in (Len(log) + 1)..(Len(log) + Len(kinds))
    BY <1>1, <2>1, <2>2, NextSeqs
  <2>4. Len(log') = Len(log) + Len(kinds)
    BY <1>1, <2>1, <2>2, LogGrows DEF LiveTypeOK
  <2>5. Announcing'
    BY <1>1, <2>1, <2>2, <2>3, <2>4 DEF Announcing
  <2>6. \A x \in Nat : Has(web, x) => Has(web, x)'
    BY <2>2, HasNothing
  <2> QED BY <2>1, <2>2, <2>3, <2>5, <2>6, CommittedAreComing
<1>3. CASE WebPublish
  <2>1. /\ web # <<>> /\ Announce(Head(web)) /\ web' = Tail(web)
        /\ UNCHANGED <<log, loop, wire, stage, served, asked>>
    BY <1>3 DEF WebPublish, page
  <2>2. /\ Head(web) \in Nat /\ Has(web, Head(web))
        /\ \A s : Has(web', s) => Has(web, s)
        /\ \A s : Has(web, s) => s = Head(web) \/ Has(web', s)
    BY <1>1, <2>1, HasTail
  <2>3. Head(web) <= Len(log)
    BY <1>1, <2>2 DEF Announcing
  <2>4. Announcing'
    BY <1>1, <2>1, <2>2 DEF Announcing
  <2>5. ASSUME NEW c \in Screens PROVE Committed(c)' /\ Warned(c)'
    <3>1. /\ Committed(c)' /\ (c \in subs' => c \in subs /\ Has(queue'[c], Head(web)))
          /\ \A x \in Nat : Has(queue[c], x) => Has(queue'[c], x)
      BY <1>1, <2>1, <2>2, <2>3, Announced DEF LiveInv
    <3>2. ASSUME c \in subs', stage[c] = "live", NEW s \in (served[c] + 1)..Len(log),
                 log[s] = "signal", ~(asked[c] > 0)
          PROVE  Coming(s, c)'
      <4>1. Coming(s, c) /\ s \in Nat
        BY <3>1, <3>2 DEF LiveInv, Warned, LiveTypeOK
      <4>2. \/ Has(queue[c], s) \/ Has(wire[c], s) \/ Has(web, s)
            \/ loop.at = "committed" /\ Has(loop.todo, s)
        BY <4>1, ComingIs
      <4>3. \/ Has(queue'[c], s) \/ Has(wire'[c], s) \/ Has(web', s)
            \/ loop'.at = "committed" /\ Has(loop'.todo, s)
        BY <2>1, <2>2, <3>1, <3>2, <4>1, <4>2
      <4> QED BY <4>3 DEF Coming, Has
    <3>3. Warned(c)'
      BY <2>1, <3>2 DEF Warned
    <3> QED BY <3>1, <3>3
  <2> QED BY <2>4, <2>5
<1>4. CASE LoopWrite \/ LoopRollback \/ LoopDone
  <2>1. /\ UNCHANGED <<log, web, subs, queue, wire, stage, served, asked>>
        /\ loop.at = "committed" => loop.todo = <<>>
        /\ loop'.at # "committed"
    BY <1>4 DEF LoopWrite, LoopRollback, LoopDone, Resting, socket, page
  <2>2. Announcing'
    <3>1. loop'.at = "writing" => loop'.todo = [i \in 1..Len(loop'.kinds) |-> Len(log) + i]
      BY <1>4 DEF LoopWrite, LoopRollback, LoopDone, Resting, Seqs
    <3> QED BY <1>1, <2>1, <3>1 DEF Announcing
  <2>3. ASSUME NEW c \in Screens, NEW s, Coming(s, c) PROVE Coming(s, c)'
    <3>1. Has(queue[c], s) \/ Has(wire[c], s) \/ Has(web, s)
      BY <2>1, <2>3, ComingIs, HasNothing
    <3> QED BY <2>1, <3>1 DEF Coming, Has
  <2> QED BY <2>1, <2>2, <2>3 DEF LiveInv, Committed, Warned
<1>5. CASE LoopCommit
  <2>1. /\ loop.at = "writing" /\ log' = log \o loop.kinds
        /\ loop' = [at |-> "committed", todo |-> loop.todo]
        /\ UNCHANGED <<web, subs, queue, wire, stage, served, asked>>
    BY <1>5 DEF LoopCommit, socket, page
  <2>2. loop.kinds \in Seq(Kind) /\ Len(loop.kinds) \in Nat
    BY <1>1, <2>1, LoopPhases
  <2>3. loop'.at = "committed" /\ loop'.todo = [i \in 1..Len(loop.kinds) |-> Len(log) + i]
    BY <1>1, <2>1 DEF Announcing
  <2>4. \A x : Has(loop'.todo, x) <=> x \in (Len(log) + 1)..(Len(log) + Len(loop.kinds))
    BY <1>1, <2>2, <2>3, NextSeqs
  <2>5. Len(log') = Len(log) + Len(loop.kinds)
    BY <1>1, <2>1, <2>2, LogGrows DEF LiveTypeOK
  <2>6. Announcing'
    BY <1>1, <2>1, <2>2, <2>3, <2>4, <2>5 DEF Announcing
  <2>7. \A x \in Nat : Has(web, x) => Has(web, x)'
    BY <2>1
  <2> QED BY <2>1, <2>2, <2>3, <2>4, <2>6, <2>7, CommittedAreComing
<1>6. CASE LoopPublish
  <2> DEFINE s0 == Head(loop.todo)
  <2>1. /\ loop.at = "committed" /\ loop.todo # <<>> /\ Announce(s0)
        /\ loop' = [loop EXCEPT !.todo = Tail(@)]
        /\ UNCHANGED <<log, web, wire, stage, served, asked>>
    BY <1>6 DEF LoopPublish, MayAnnounce, page
  <2>2. loop \in [at : {"committed"}, todo : Seq(Nat)] /\ loop.todo \in Seq(Nat)
    BY <1>1, <2>1, LoopPhases
  <2>3. loop'.at = "committed" /\ loop'.todo = Tail(loop.todo)
    BY <2>1, <2>2
  <2>4. /\ s0 \in Nat /\ Has(loop.todo, s0)
        /\ \A s : Has(loop'.todo, s) => Has(loop.todo, s)
        /\ \A s : Has(loop.todo, s) => s = s0 \/ Has(loop'.todo, s)
    BY <2>1, <2>2, <2>3, HasTail
  <2> HIDE DEF s0
  <2>5. s0 <= Len(log)
    BY <1>1, <2>1, <2>4 DEF Announcing
  <2>6. Announcing'
    BY <1>1, <2>1, <2>3, <2>4 DEF Announcing
  <2>7. ASSUME NEW c \in Screens PROVE Committed(c)' /\ Warned(c)'
    <3>1. /\ Committed(c)' /\ (c \in subs' => c \in subs /\ Has(queue'[c], s0))
          /\ \A x \in Nat : Has(queue[c], x) => Has(queue'[c], x)
      BY <1>1, <2>1, <2>4, <2>5, Announced DEF LiveInv
    <3>2. ASSUME c \in subs', stage[c] = "live", NEW s \in (served[c] + 1)..Len(log),
                 log[s] = "signal", ~(asked[c] > 0)
          PROVE  Coming(s, c)'
      <4>1. Coming(s, c) /\ s \in Nat
        BY <3>1, <3>2 DEF LiveInv, Warned, LiveTypeOK
      <4>2. Has(queue[c], s) \/ Has(wire[c], s) \/ Has(web, s) \/ Has(loop.todo, s)
        BY <4>1, ComingIs
      <4>3. Has(queue'[c], s) \/ Has(wire'[c], s) \/ Has(web', s) \/ Has(loop'.todo, s)
        BY <2>1, <2>4, <3>1, <3>2, <4>1, <4>2
      <4> QED BY <2>3, <4>3 DEF Coming, Has
    <3>3. Warned(c)'
      BY <2>1, <3>2 DEF Warned
    <3> QED BY <3>1, <3>3
  <2> QED BY <2>6, <2>7
<1> QED BY <1>2, <1>3, <1>4, <1>5, <1>6 DEF LoopEnds

\* A screen that a step leaves alone is as well off as before.
LEMMA OtherScreens ==
  ASSUME NEW d, Committed(d), Warned(d), UNCHANGED <<log, web, loop>>, d \in subs' => d \in subs,
         stage'[d] = stage[d], queue'[d] = queue[d], wire'[d] = wire[d], asked'[d] = asked[d],
         served'[d] = served[d]
  PROVE  Committed(d)' /\ Warned(d)'
BY DEF Committed, Warned, Coming

\* What a stream, a page and its fetches do keeps both promises.
LEMMA ScreenSteps ==
  ASSUME LiveInv, NEW c \in Screens, ScreenStep(c)
  PROVE  Announcing' /\ \A d \in Screens : Committed(d)' /\ Warned(d)'
<1>1. LiveTypeOK /\ Announcing /\ Committed(c) /\ Warned(c)
  BY DEF LiveInv
<1>2. UNCHANGED <<log, web, loop>>
  BY DEF ScreenStep, OpenStream, OnOpen, Forward, Receive, Disconnect, SafetyRefresh, ServeFetch,
         Arrive, FetchFails
<1>3. Announcing'
  BY <1>1, <1>2 DEF Announcing
<1>4. ASSUME NEW d \in Screens \ {c} PROVE Committed(d)' /\ Warned(d)'
  <2>1. /\ (d \in subs' => d \in subs) /\ stage'[d] = stage[d] /\ queue'[d] = queue[d]
        /\ wire'[d] = wire[d] /\ asked'[d] = asked[d] /\ served'[d] = served[d]
    BY <1>1 DEF ScreenStep, OpenStream, OnOpen, Forward, Receive, Disconnect, SafetyRefresh, ServeFetch,
         Arrive, FetchFails, socket, page, LiveTypeOK
  <2> QED BY <1>2, <2>1, OtherScreens DEF LiveInv
<1>5. ASSUME stage'[c] # "live" \/ c \notin subs' \/ asked'[c] > 0 PROVE Warned(c)'
  BY <1>5 DEF Warned
<1>6. asked[c] \in Nat /\ queue[c] \in Seq(Nat) /\ wire[c] \in Seq(Nat) /\ served[c] \in Nat /\ Len(log) \in Nat
  BY <1>1 DEF LiveTypeOK
<1>7. CASE OpenStream(c)
  <2>1. stage'[c] = "opening" /\ queue' = queue /\ wire'[c] = Missed(c)
    BY <1>1, <1>7 DEF OpenStream, LiveTypeOK
  <2>2. Committed(c)'
    BY <1>1, <1>2, <2>1, MissedIsCommitted DEF Committed
  <2> QED BY <1>3, <1>4, <1>5, <2>1, <2>2
<1>8. CASE OnOpen(c) \/ SafetyRefresh(c)
  <2>1. asked'[c] > 0 /\ UNCHANGED <<queue, wire>>
    BY <1>1, <1>6, <1>8 DEF OnOpen, SafetyRefresh, RefreshOnOpen, LiveTypeOK, socket
  <2>2. Committed(c)'
    BY <1>1, <1>2, <2>1 DEF Committed
  <2> QED BY <1>3, <1>4, <1>5, <2>1, <2>2
<1>9. CASE Forward(c)
  <2>1. /\ queue[c] # <<>> /\ queue'[c] = Tail(queue[c]) /\ wire'[c] = Append(wire[c], Head(queue[c]))
        /\ UNCHANGED <<subs, stage, served, asked>>
    BY <1>1, <1>9 DEF Forward, LiveTypeOK, page
  <2>2. /\ Head(queue[c]) \in Nat /\ Has(queue[c], Head(queue[c]))
        /\ \A s : Has(queue'[c], s) => Has(queue[c], s)
        /\ \A s : Has(queue[c], s) => s = Head(queue[c]) \/ Has(queue'[c], s)
    BY <1>6, <2>1, HasTail
  <2>3. \A s : Has(wire'[c], s) <=> Has(wire[c], s) \/ s = Head(queue[c])
    BY <1>6, <2>1, <2>2, HasAppend
  <2>4. Committed(c)'
    BY <1>1, <1>2, <2>2, <2>3 DEF Committed
  <2>5. ASSUME NEW s, Coming(s, c) PROVE Coming(s, c)'
    <3>1. \/ Has(queue[c], s) \/ Has(wire[c], s) \/ Has(web, s)
          \/ loop.at = "committed" /\ Has(loop.todo, s)
      BY <2>5, ComingIs
    <3>2. \/ Has(queue'[c], s) \/ Has(wire'[c], s) \/ Has(web', s)
          \/ loop'.at = "committed" /\ Has(loop'.todo, s)
      BY <1>2, <2>2, <2>3, <3>1
    <3> QED BY <3>2 DEF Coming, Has
  <2>6. Warned(c)'
    BY <1>1, <1>2, <2>1, <2>5 DEF Warned
  <2> QED BY <1>3, <1>4, <2>4, <2>6
<1>10. CASE Receive(c)
  <2> DEFINE s0 == Head(wire[c])
  <2>1. /\ wire[c] # <<>> /\ wire'[c] = Tail(wire[c])
        /\ asked'[c] = IF log[s0] = "signal" THEN asked[c] + 1 ELSE asked[c]
        /\ UNCHANGED <<subs, queue, stage, served>>
    BY <1>1, <1>10 DEF Receive, LiveTypeOK
  <2>2. /\ \A s : Has(wire'[c], s) => Has(wire[c], s)
        /\ \A s : Has(wire[c], s) => s = s0 \/ Has(wire'[c], s)
    BY <1>6, <2>1, HasTail
  <2> HIDE DEF s0
  <2>3. Committed(c)'
    BY <1>1, <1>2, <2>1, <2>2 DEF Committed
  <2>4. CASE log[s0] = "signal"
    BY <1>3, <1>4, <1>5, <1>6, <2>1, <2>3, <2>4
  <2>5. CASE log[s0] # "signal"
    <3>1. ASSUME NEW s, s # s0, Coming(s, c) PROVE Coming(s, c)'
      <4>1. \/ Has(queue[c], s) \/ Has(wire[c], s) \/ Has(web, s)
            \/ loop.at = "committed" /\ Has(loop.todo, s)
        BY <3>1, ComingIs
      <4>2. \/ Has(queue'[c], s) \/ Has(wire'[c], s) \/ Has(web', s)
            \/ loop'.at = "committed" /\ Has(loop'.todo, s)
        BY <1>2, <2>1, <2>2, <3>1, <4>1
      <4> QED BY <4>2 DEF Coming, Has
    <3>2. Warned(c)'
      BY <1>1, <1>2, <2>1, <2>5, <3>1 DEF Warned
    <3> QED BY <1>3, <1>4, <2>3, <3>2
  <2> QED BY <2>4, <2>5
<1>11. CASE Disconnect(c)
  <2>1. c \notin subs' /\ queue'[c] = <<>> /\ wire'[c] = <<>>
    BY <1>1, <1>11 DEF Disconnect, LiveTypeOK
  <2>2. Committed(c)'
    BY <2>1, HasNothing DEF Committed
  <2> QED BY <1>3, <1>4, <1>5, <2>1, <2>2
<1>12. CASE ServeFetch(c)
  <2>1. served'[c] = Len(log) /\ UNCHANGED <<queue, wire>>
    BY <1>1, <1>12 DEF ServeFetch, LiveTypeOK, socket
  <2>2. Committed(c)'
    BY <1>1, <1>2, <2>1 DEF Committed
  <2>3. (served'[c] + 1)..Len(log') = {}
    BY <1>2, <1>6, <2>1
  <2> QED BY <1>3, <1>4, <2>2, <2>3 DEF Warned
<1>13. ASSUME NEW v \in 0..Len(log), Arrive(c, v) \/ FetchFails(c, v)
       PROVE  Announcing' /\ \A d \in Screens : Committed(d)' /\ Warned(d)'
  <2>1. UNCHANGED <<subs, stage, queue, wire, asked, served>>
    BY <1>13 DEF Arrive, FetchFails, socket
  <2>2. Committed(c)' /\ Warned(c)'
    BY <1>1, <1>2, <2>1, OtherScreens
  <2> QED BY <1>3, <1>4, <2>2
<1> QED BY <1>7, <1>8, <1>9, <1>10, <1>11, <1>12, <1>13 DEF ScreenStep

\* Both promises hold from the first step on.
LEMMA Live == Spec => []LiveInv
<1>1. Init => LiveInv
  <2> SUFFICES ASSUME Init PROVE LiveInv
    OBVIOUS
  <2>1. LiveTypeOK
    <3>1. <<>> \in Seq(Nat) /\ <<>> \in Seq(Kind) /\ Len(<<>>) <= QueueLimit
      BY LiveAssumption
    <3> QED BY <3>1 DEF Init, LiveTypeOK
  <2>2. Announcing
    BY HasNothing DEF Init, Announcing, Resting
  <2>3. \A c \in Screens : Committed(c) /\ Warned(c)
    BY HasNothing DEF Init, Committed, Warned
  <2> QED BY <2>1, <2>2, <2>3 DEF LiveInv
<1>2. LiveInv /\ [Next]_vars => LiveInv'
  <2> SUFFICES ASSUME LiveInv, [Next]_vars PROVE LiveInv'
    OBVIOUS
  <2>1. CASE (\E kinds \in Writes : WebCommit(kinds)) \/ WebPublish \/ LoopWrite \/ LoopEnds
    BY <2>1, ThreadTypes, ThreadSteps DEF LiveInv
  <2>2. ASSUME NEW c \in Screens, ScreenStep(c) PROVE LiveInv'
    BY <2>2, ScreenTypes, ScreenSteps DEF LiveInv
  <2>3. CASE UNCHANGED vars
    <3>1. LiveTypeOK'
      BY <2>3 DEF vars, LiveInv, LiveTypeOK
    <3>2. Announcing'
      BY <2>3 DEF vars, LiveInv, Announcing
    <3>3. \A c \in Screens : Committed(c)' /\ Warned(c)'
      BY <2>3, OtherScreens DEF vars, LiveInv
    <3> QED BY <3>1, <3>2, <3>3 DEF LiveInv
  <2> QED BY <2>1, <2>2, <2>3 DEF Next
<1> QED BY <1>1, <1>2, PTL DEF Spec

\* Every variable keeps its type; no stream's queue grows past its limit.
THEOREM LiveTypes == Spec => []LiveTypeOK
<1>1. LiveInv => LiveTypeOK
  BY DEF LiveInv
<1> QED BY <1>1, Live, PTL

\* Nothing is broadcast until it is committed: no event in any queue or on any
\* wire could still be rolled back.
THEOREM OnlyCommittedIsBroadcast == Spec => []BroadcastIsCommitted
<1>1. LiveInv => BroadcastIsCommitted
  <2> SUFFICES ASSUME LiveInv, NEW c \in Screens
               PROVE  /\ \A i \in 1..Len(queue[c]) : queue[c][i] <= Len(log)
                      /\ \A i \in 1..Len(wire[c]) : wire[c][i] <= Len(log)
    BY DEF BroadcastIsCommitted
  <2>1. queue[c] \in Seq(Nat) /\ wire[c] \in Seq(Nat)
    BY DEF LiveInv, LiveTypeOK
  <2>2. Committed(c)
    BY DEF LiveInv
  <2>3. ASSUME NEW i \in 1..Len(queue[c]) PROVE queue[c][i] <= Len(log)
    <3>1. queue[c][i] \in Nat /\ Has(queue[c], queue[c][i])
      BY <2>1 DEF Has
    <3> QED BY <2>2, <3>1 DEF Committed
  <2>4. ASSUME NEW i \in 1..Len(wire[c]) PROVE wire[c][i] <= Len(log)
    <3>1. wire[c][i] \in Nat /\ Has(wire[c], wire[c][i])
      BY <2>1 DEF Has
    <3> QED BY <2>2, <3>1 DEF Committed
  <2> QED BY <2>3, <2>4
<1> QED BY <1>1, Live, PTL

\* A page whose stream is up never misses a change for good: whatever moved since
\* the server last read the view for it is announced to it, on its way to it, or
\* already being asked about.
THEOREM NoChangeSlipsBy == Spec => []NothingSlipsBy
<1>1. LiveInv => NothingSlipsBy
  BY DEF LiveInv, LiveTypeOK, Warned, NothingSlipsBy
<1> QED BY <1>1, Live, PTL
=============================================================================
