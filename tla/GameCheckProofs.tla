-------------------------- MODULE GameCheckProofs ---------------------------
(***************************************************************************)
(* Proofs about GameCheck, for every set of launches, folders and peers    *)
(* and every duration: one check is alive, "stop" is said of folders that  *)
(* are current, the first reply is in time, and the game state converges.  *)
(*                                                                         *)
(* Two of them need a closer look at what is in flight:                    *)
(*   - that the events still to be handled lead to Jawaka's launch (Leads, *)
(*     RunInv), for the game state;                                        *)
(*   - which event comes before which (Waits, Precedes, OrderInv), so that *)
(*     no check starts again for a launch that was told to stop.           *)
(***************************************************************************)
EXTENDS GameCheck, FiniteSetTheorems, SequenceTheorems, TLAPS

Messages == Event \cup StateAnswer

\* what handling m makes of the game state (reconcileGameState)
Handled(g, m) ==
    CASE m.name = "game.check"                  -> m.launch
      [] m.name = "game.abort" /\ g = m.launch  -> NoLaunch
      [] OTHER                                  -> g

\* handling q, message after message, leads from g to h
Leads(g, q, h) ==
    \E st \in [0..Len(q) -> MaybeLaunch] :
        /\ st[0] = g /\ st[Len(q)] = h
        /\ \A i \in 1..Len(q) : st[i] = Handled(st[i - 1], q[i])

\* and so does p, what was put aside, followed by w, what is on the wire
QueueLeads(p, w, g, h) == \E m \in MaybeLaunch : Leads(g, p, m) /\ Leads(m, w, h)

In(q, a) == \E i \in 1..Len(q) : q[i] = a

RunInv ==
    /\ linked /\ loop = "up" => QueueLeads(pending, wire, gameState, launch)
    /\ linked /\ loop = "asked" =>
         \E h \in {launch, NoLaunch} :
             /\ QueueLeads(pending, wire, NoLaunch, h)
             /\ In(wire, Message("state", NoLaunch)) => h = launch

Ordered(q, a, b) == \E j \in 1..Len(q) : \E i \in 1..(j - 1) : q[i] = a /\ q[j] = b

Waits(p, w, a) == In(p, a) \/ In(w, a)
Precedes(p, w, a, b) == Ordered(p, a, b) \/ (In(p, a) /\ In(w, b)) \/ Ordered(w, a, b)

CheckOf(l) == Message("game.check", l)
CancelOf(l) == Message("game.cancel", l)
AbortOf(l) == Message("game.abort", l)
Alive(c) == c.pc \in {"probe", "send"} /\ ~c.stale

\* who has begun, and the messages there can be of it
BegunInv ==
    /\ launch # NoLaunch => launch \in begun
    /\ phase = "checking" => launch # NoLaunch
    /\ gameCheckID \in begun \cup {NoLaunch}
    /\ \A l \in Launches : check[l].pc # "none" => l \in begun
    /\ \A e \in Event : Waits(pending, wire, e) => e.launch \in begun

\* Nothing of a launch comes after its end, nor of an earlier one after its check.
OrderInv ==
    /\ launch # NoLaunch => ~Waits(pending, wire, AbortOf(launch))
    /\ phase = "checking" => ~Waits(pending, wire, CancelOf(launch))
    /\ \A l \in Launches : ~Precedes(pending, wire, CancelOf(l), CheckOf(l))
    /\ launch # NoLaunch =>
         \A l \in Launches :
             (\/ Precedes(pending, wire, CheckOf(launch), CheckOf(l))
              \/ gameCheckID = launch /\ Waits(pending, wire, CheckOf(l)))
               => l = launch

\* a launch that is being checked, or was told to stop, is not checked again
OnceInv ==
    /\ loop \in {"dialing", "asked"} => \A l \in Launches : ~Alive(check[l])
    /\ loop = "asked" /\ told = "stop" /\ launch # NoLaunch =>
         \A a \in StateAnswer : In(wire, a) => a.launch = launch
    /\ loop = "up" /\ launch # NoLaunch /\ (told = "stop" \/ Alive(check[launch])) =>
         \/ gameCheckID = launch
         \/ phase # "checking" /\ ~Waits(pending, wire, CheckOf(launch))

\* the goroutines
GoroutineInv ==
    /\ OneLiveCheck
    /\ \A l \in Launches :
         /\ check[l].pc = "send" /\ ~check[l].cancelled => l = gameCheckID /\ cancelSet
         /\ check[l].pc = "send" /\ check[l].reply = "stop" => check[l].current
         /\ check[l].pc \in {"probe", "send"} /\ check[l].last = 0 =>
              check[l].elapsed <= FirstReplyBudget
    /\ loop = "stopped" => check = [l \in Launches |-> Unstarted]

IInv ==
    /\ TypeOK /\ GoroutineInv /\ StopOnlyWhenCurrent
    /\ BegunInv /\ OrderInv /\ OnceInv /\ RunInv

-----------------------------------------------------------------------------
(* What is in flight.                                                       *)

LEMMA NothingIn == \A a, b : ~In(<<>>, a) /\ ~Ordered(<<>>, a, b)
BY DEF In, Ordered

LEMMA AppendIn ==
    ASSUME NEW q \in Seq(Messages), NEW m \in Messages
    PROVE  /\ \A a : In(Append(q, m), a) => In(q, a) \/ a = m
           /\ \A a, b : Ordered(Append(q, m), a, b) => Ordered(q, a, b) \/ (In(q, a) /\ b = m)
<1> DEFINE r == Append(q, m)
<1>1. /\ r \in Seq(Messages) /\ Len(r) = Len(q) + 1 /\ Len(q) \in Nat
      /\ \A i \in 1..Len(q) : r[i] = q[i]
      /\ r[Len(q) + 1] = m
    BY AppendProperties, LenProperties
<1> HIDE DEF r
<1>2. \A a : In(r, a) => In(q, a) \/ a = m
  <2> SUFFICES ASSUME NEW a, NEW i \in 1..Len(r), r[i] = a PROVE In(q, a) \/ a = m
    BY DEF In
  <2>1. i \in 1..Len(q) \/ i = Len(q) + 1
    BY <1>1
  <2>2. QED
    BY <1>1, <2>1 DEF In
<1>3. \A a, b : Ordered(r, a, b) => Ordered(q, a, b) \/ (In(q, a) /\ b = m)
  <2> SUFFICES ASSUME NEW a, NEW b, Ordered(r, a, b)
               PROVE  Ordered(q, a, b) \/ (In(q, a) /\ b = m)
    OBVIOUS
  <2>1. PICK j \in 1..Len(r) : \E i \in 1..(j - 1) : r[i] = a /\ r[j] = b
    BY DEF Ordered
  <2>2. PICK i \in 1..(j - 1) : r[i] = a /\ r[j] = b
    BY <2>1
  <2>3. i \in 1..Len(q) /\ q[i] = a
    BY <1>1, <2>2
  <2>4. CASE j \in 1..Len(q)
    BY <1>1, <2>2, <2>3, <2>4 DEF Ordered
  <2>5. CASE j = Len(q) + 1
    BY <1>1, <2>2, <2>3, <2>5 DEF In
  <2>6. QED
    BY <1>1, <2>4, <2>5
<1>4. QED
    BY <1>2, <1>3 DEF r

LEMMA TailIn ==
    ASSUME NEW q \in Seq(Messages), q # <<>>
    PROVE  /\ Head(q) \in Messages /\ Tail(q) \in Seq(Messages) /\ In(q, Head(q))
           /\ \A a : In(Tail(q), a) => In(q, a) /\ Ordered(q, Head(q), a)
           /\ \A a, b : Ordered(Tail(q), a, b) => Ordered(q, a, b)
<1> DEFINE r == Tail(q)
<1>1. /\ Head(q) \in Messages /\ r \in Seq(Messages)
      /\ Len(q) \in Nat \ {0} /\ Len(r) = Len(q) - 1
      /\ \A i \in 1..Len(r) : r[i] = q[i + 1]
      /\ Head(q) = q[1]
    BY HeadTailProperties, EmptySeq
<1> HIDE DEF r
<1>2. In(q, Head(q))
    BY <1>1 DEF In
<1>3. \A a : In(r, a) => In(q, a) /\ Ordered(q, Head(q), a)
  <2> SUFFICES ASSUME NEW a, NEW i \in 1..Len(r), r[i] = a
               PROVE  In(q, a) /\ Ordered(q, Head(q), a)
    BY DEF In
  <2>1. i + 1 \in 1..Len(q) /\ q[i + 1] = a /\ 1 \in 1..(i + 1 - 1)
    BY <1>1
  <2>2. QED
    BY <1>1, <2>1 DEF In, Ordered
<1>4. \A a, b : Ordered(r, a, b) => Ordered(q, a, b)
  <2> SUFFICES ASSUME NEW a, NEW b, Ordered(r, a, b)
               PROVE  Ordered(q, a, b)
    OBVIOUS
  <2>1. PICK j \in 1..Len(r) : \E i \in 1..(j - 1) : r[i] = a /\ r[j] = b
    BY DEF Ordered
  <2>2. PICK i \in 1..(j - 1) : r[i] = a /\ r[j] = b
    BY <2>1
  <2>3. j + 1 \in 1..Len(q) /\ i + 1 \in 1..(j + 1 - 1) /\ i \in 1..Len(r)
    BY <1>1
  <2>4. q[i + 1] = a /\ q[j + 1] = b
    BY <1>1, <2>2, <2>3
  <2>5. QED
    BY <2>3, <2>4 DEF Ordered
<1>5. QED
    BY <1>1, <1>2, <1>3, <1>4 DEF r

LEMMA PrecedesWaits ==
    ASSUME NEW p \in Seq(Messages), NEW w \in Seq(Messages)
    PROVE  \A a, b : Precedes(p, w, a, b) => Waits(p, w, a) /\ Waits(p, w, b)
<1>1. ASSUME NEW q \in Seq(Messages), NEW a, NEW b, Ordered(q, a, b)
      PROVE  In(q, a) /\ In(q, b)
  <2>1. PICK j \in 1..Len(q) : \E i \in 1..(j - 1) : q[i] = a /\ q[j] = b
    BY <1>1 DEF Ordered
  <2>2. PICK i \in 1..(j - 1) : q[i] = a /\ q[j] = b
    BY <2>1
  <2>3. Len(q) \in Nat /\ i \in 1..Len(q)
    BY <2>2, LenProperties
  <2>4. QED
    BY <2>2, <2>3 DEF In
<1>2. QED
    BY <1>1 DEF Precedes, Waits

\* What a queue that loses messages, or passes them on, has less of.
Fewer(p, w, pp, ww) ==
    /\ \A a : Waits(pp, ww, a) => Waits(p, w, a)
    /\ \A a, b : Precedes(pp, ww, a, b) => Precedes(p, w, a, b)

LEMMA EmptyIsFewer ==
    ASSUME NEW p, NEW w
    PROVE  Fewer(p, w, <<>>, <<>>)
BY NothingIn DEF Fewer, Waits, Precedes

\* the next message comes off the queue (Take)
LEMMA TakenIsFewer ==
    ASSUME NEW p \in Seq(Messages), NEW w \in Seq(Messages), NEW pp, NEW ww,
           NEW m,
           \/ p # <<>> /\ m = Head(p) /\ pp = Tail(p) /\ ww = w
           \/ p = <<>> /\ w # <<>> /\ m = Head(w) /\ pp = p /\ ww = Tail(w)
    PROVE  /\ m \in Messages /\ Waits(p, w, m) /\ Fewer(p, w, pp, ww)
           /\ \A a : Waits(pp, ww, a) => Precedes(p, w, m, a)
<1>1. CASE p # <<>> /\ m = Head(p) /\ pp = Tail(p) /\ ww = w
    BY <1>1, TailIn DEF Fewer, Waits, Precedes
<1>2. CASE p = <<>> /\ w # <<>> /\ m = Head(w) /\ pp = p /\ ww = Tail(w)
    BY <1>2, TailIn, NothingIn DEF Fewer, Waits, Precedes
<1>3. QED
    BY <1>1, <1>2

\* a message leaves the wire, to be put aside or for good (readResponse)
LEMMA ReadIsFewer ==
    ASSUME NEW p \in Seq(Messages), NEW w \in Seq(Messages), w # <<>>
    PROVE  /\ Head(w) \in Messages /\ Waits(p, w, Head(w))
           /\ Fewer(p, w, Append(p, Head(w)), Tail(w))
           /\ Fewer(p, w, p, Tail(w))
<1>1. /\ Head(w) \in Messages /\ In(w, Head(w))
      /\ \A a : In(Tail(w), a) => In(w, a) /\ Ordered(w, Head(w), a)
      /\ \A a, b : Ordered(Tail(w), a, b) => Ordered(w, a, b)
    BY TailIn
<1>2. /\ \A a : In(Append(p, Head(w)), a) => In(p, a) \/ a = Head(w)
      /\ \A a, b : Ordered(Append(p, Head(w)), a, b) => Ordered(p, a, b) \/ (In(p, a) /\ b = Head(w))
    BY <1>1, AppendIn
<1>3. Fewer(p, w, p, Tail(w))
    BY <1>1 DEF Fewer, Waits, Precedes
<1>4. Fewer(p, w, Append(p, Head(w)), Tail(w))
    BY <1>1, <1>2 DEF Fewer, Waits, Precedes
<1>5. QED
    BY <1>1, <1>3, <1>4 DEF Waits

\* a message is sent
LEMMA SentIsMore ==
    ASSUME NEW p, NEW w \in Seq(Messages), NEW m \in Messages, NEW ww \in {w, Append(w, m)}
    PROVE  /\ \A a : Waits(p, ww, a) => Waits(p, w, a) \/ a = m
           /\ \A a, b : Precedes(p, ww, a, b) => Precedes(p, w, a, b) \/ (Waits(p, w, a) /\ b = m)
<1>1. CASE ww = w
    BY <1>1
<1>2. CASE ww = Append(w, m)
    BY <1>2, AppendIn DEF Waits, Precedes
<1>3. QED
    BY <1>1, <1>2

-----------------------------------------------------------------------------
(* Where it leads.                                                          *)

LEMMA HandledIs ==
    ASSUME NEW g \in MaybeLaunch, NEW m \in Messages
    PROVE  Handled(g, m) \in MaybeLaunch
BY DEF Handled, Messages, Event, StateAnswer, MaybeLaunch

LEMMA LeadsNowhere ==
    ASSUME NEW g \in MaybeLaunch, NEW h
    PROVE  Leads(g, <<>>, h) <=> g = h
<1>1. Len(<<>>) = 0
    OBVIOUS
<1>2. ASSUME g = h PROVE Leads(g, <<>>, h)
  <2> DEFINE st == [i \in 0..0 |-> g]
  <2>1. st \in [0..0 -> MaybeLaunch] /\ st[0] = g
    OBVIOUS
  <2> HIDE DEF st
  <2>2. \E s \in [0..Len(<<>>) -> MaybeLaunch] :
          /\ s[0] = g /\ s[Len(<<>>)] = h
          /\ \A i \in 1..Len(<<>>) : s[i] = Handled(s[i - 1], <<>>[i])
    BY <1>1, <1>2, <2>1
  <2>3. QED
    BY <2>2 DEF Leads
<1>3. QED
    BY <1>1, <1>2 DEF Leads

LEMMA LeadsOn ==
    ASSUME NEW g, NEW q \in Seq(Messages), NEW h, NEW m \in Messages, Leads(g, q, h)
    PROVE  h \in MaybeLaunch /\ Leads(g, Append(q, m), Handled(h, m))
<1> DEFINE r == Append(q, m)
           n == Len(q)
<1>1. /\ Len(r) = n + 1 /\ n \in Nat
      /\ \A i \in 1..n : r[i] = q[i]
      /\ r[n + 1] = m
    BY AppendProperties, LenProperties
<1>2. PICK st \in [0..n -> MaybeLaunch] :
           /\ st[0] = g /\ st[n] = h
           /\ \A i \in 1..n : st[i] = Handled(st[i - 1], q[i])
    BY DEF Leads
<1>3. h \in MaybeLaunch /\ Handled(h, m) \in MaybeLaunch
    BY <1>1, <1>2, HandledIs
<1> DEFINE tt == [i \in 0..(n + 1) |-> IF i <= n THEN st[i] ELSE Handled(h, m)]
<1> HIDE DEF r, n
<1>4. tt \in [0..(n + 1) -> MaybeLaunch] /\ tt[0] = g /\ tt[n + 1] = Handled(h, m)
    BY <1>1, <1>2, <1>3
<1>5. \A i \in 1..(n + 1) : tt[i] = Handled(tt[i - 1], r[i])
  <2> SUFFICES ASSUME NEW i \in 1..(n + 1) PROVE tt[i] = Handled(tt[i - 1], r[i])
    OBVIOUS
  <2>1. CASE i <= n
    <3>1. i \in 1..n /\ i - 1 \in 0..n /\ i \in 0..(n + 1) /\ i - 1 \in 0..(n + 1) /\ i - 1 <= n
      BY <1>1, <2>1
    <3>2. tt[i] = st[i] /\ tt[i - 1] = st[i - 1] /\ r[i] = q[i]
      BY <1>1, <2>1, <3>1
    <3>3. QED
      BY <1>2, <3>1, <3>2
  <2>2. CASE i = n + 1
    <3>1. tt[i] = Handled(h, m) /\ tt[i - 1] = st[n] /\ r[i] = m
      BY <1>1, <2>2
    <3>2. QED
      BY <1>2, <3>1
  <2>3. QED
    BY <1>1, <2>1, <2>2
<1> HIDE DEF tt
<1>6. \E s \in [0..Len(r) -> MaybeLaunch] :
        /\ s[0] = g /\ s[Len(r)] = Handled(h, m)
        /\ \A i \in 1..Len(r) : s[i] = Handled(s[i - 1], r[i])
    BY <1>1, <1>4, <1>5
<1>7. QED
    BY <1>3, <1>6 DEF Leads, r

LEMMA LeadsFromHead ==
    ASSUME NEW g, NEW q \in Seq(Messages), NEW h, q # <<>>, Leads(g, q, h)
    PROVE  Leads(Handled(g, Head(q)), Tail(q), h)
<1> DEFINE r == Tail(q)
           n == Len(q) - 1
<1>1. /\ Len(r) = n /\ n \in Nat /\ Len(q) = n + 1
      /\ \A i \in 1..n : r[i] = q[i + 1]
      /\ Head(q) = q[1]
    BY HeadTailProperties, EmptySeq
<1>2. PICK st \in [0..(n + 1) -> MaybeLaunch] :
           /\ st[0] = g /\ st[n + 1] = h
           /\ \A i \in 1..(n + 1) : st[i] = Handled(st[i - 1], q[i])
    BY <1>1 DEF Leads
<1> DEFINE tt == [i \in 0..n |-> st[i + 1]]
<1> HIDE DEF r, n
<1>3. tt \in [0..n -> MaybeLaunch] /\ tt[n] = h /\ tt[0] = st[1]
    BY <1>1, <1>2
<1>4. st[1] = Handled(g, Head(q))
    BY <1>1, <1>2
<1>5. \A i \in 1..n : tt[i] = Handled(tt[i - 1], r[i])
  <2> SUFFICES ASSUME NEW i \in 1..n PROVE tt[i] = Handled(tt[i - 1], r[i])
    OBVIOUS
  <2>1. i \in 0..n /\ i - 1 \in 0..n /\ i + 1 \in 1..(n + 1) /\ i + 1 - 1 = i /\ i - 1 + 1 = i
    BY <1>1
  <2>2. tt[i] = st[i + 1] /\ tt[i - 1] = st[i] /\ r[i] = q[i + 1]
    BY <1>1, <2>1
  <2>3. st[i + 1] = Handled(st[i], q[i + 1])
    BY <1>2, <2>1
  <2>4. QED
    BY <2>2, <2>3
<1> HIDE DEF tt
<1>6. \E s \in [0..Len(r) -> MaybeLaunch] :
        /\ s[0] = Handled(g, Head(q)) /\ s[Len(r)] = h
        /\ \A i \in 1..Len(r) : s[i] = Handled(s[i - 1], r[i])
    BY <1>1, <1>3, <1>4, <1>5
<1>7. QED
    BY <1>6 DEF Leads, r

\* the same of the two queues
LEMMA QueueLeadsOn ==
    ASSUME NEW p, NEW w \in Seq(Messages), NEW g, NEW h, NEW m \in Messages,
           QueueLeads(p, w, g, h)
    PROVE  QueueLeads(p, Append(w, m), g, Handled(h, m))
BY LeadsOn DEF QueueLeads

LEMMA QueueLeadsFromHead ==
    ASSUME NEW p \in Seq(Messages), NEW w \in Seq(Messages), NEW pp, NEW ww, NEW g, NEW h, NEW m,
           QueueLeads(p, w, g, h), g \in MaybeLaunch,
           \/ p # <<>> /\ m = Head(p) /\ pp = Tail(p) /\ ww = w
           \/ p = <<>> /\ w # <<>> /\ m = Head(w) /\ pp = p /\ ww = Tail(w)
    PROVE  QueueLeads(pp, ww, Handled(g, m), h)
<1>1. PICK k \in MaybeLaunch : Leads(g, p, k) /\ Leads(k, w, h)
    BY DEF QueueLeads
<1>2. CASE p # <<>> /\ m = Head(p) /\ pp = Tail(p) /\ ww = w
    BY <1>1, <1>2, LeadsFromHead DEF QueueLeads
<1>3. CASE p = <<>> /\ w # <<>> /\ m = Head(w) /\ pp = p /\ ww = Tail(w)
  <2>1. k = g /\ m \in Messages
    BY <1>1, <1>3, LeadsNowhere, HeadTailProperties
  <2>2. Leads(Handled(g, m), ww, h)
    BY <1>1, <1>3, <2>1, LeadsFromHead
  <2>3. Handled(g, m) \in MaybeLaunch
    BY <2>1, HandledIs
  <2>4. Leads(Handled(g, m), pp, Handled(g, m))
    BY <1>3, <2>3, LeadsNowhere
  <2>5. QED
    BY <2>2, <2>3, <2>4 DEF QueueLeads
<1>4. QED
    BY <1>2, <1>3

LEMMA QueueLeadsAside ==
    ASSUME NEW p \in Seq(Messages), NEW w \in Seq(Messages), NEW g, NEW h, w # <<>>,
           QueueLeads(p, w, g, h)
    PROVE  QueueLeads(Append(p, Head(w)), Tail(w), g, h)
<1>1. PICK k \in MaybeLaunch : Leads(g, p, k) /\ Leads(k, w, h)
    BY DEF QueueLeads
<1>2. Head(w) \in Messages
    BY HeadTailProperties
<1>3. Leads(g, Append(p, Head(w)), Handled(k, Head(w))) /\ Handled(k, Head(w)) \in MaybeLaunch
    BY <1>1, <1>2, LeadsOn, HandledIs
<1>4. Leads(Handled(k, Head(w)), Tail(w), h)
    BY <1>1, LeadsFromHead
<1>5. QED
    BY <1>3, <1>4 DEF QueueLeads

LEMMA QueueLeadsPastState ==
    ASSUME NEW p, NEW w \in Seq(Messages), NEW g, NEW h, w # <<>>,
           Head(w).name = "state", QueueLeads(p, w, g, h)
    PROVE  QueueLeads(p, Tail(w), g, h)
<1>1. PICK k \in MaybeLaunch : Leads(g, p, k) /\ Leads(k, w, h)
    BY DEF QueueLeads
<1>2. Handled(k, Head(w)) = k
    BY DEF Handled
<1>3. Leads(k, Tail(w), h)
    BY <1>1, <1>2, LeadsFromHead
<1>4. QED
    BY <1>1, <1>3 DEF QueueLeads

-----------------------------------------------------------------------------
(* Messages, goroutines, answers.                                           *)

LEMMA MessageIs ==
    /\ \A l \in Launches : /\ CheckOf(l) \in Event /\ CancelOf(l) \in Event /\ AbortOf(l) \in Event
                           /\ CheckOf(l).name = "game.check" /\ CheckOf(l).launch = l
                           /\ CancelOf(l).name = "game.cancel" /\ CancelOf(l).launch = l
                           /\ AbortOf(l).name = "game.abort" /\ AbortOf(l).launch = l
    /\ \A l \in MaybeLaunch : /\ Message("state", l) \in StateAnswer
                              /\ Message("state", l).name = "state"
                              /\ Message("state", l).launch = l
    /\ \A m \in Messages : /\ m.name = "state" => m \in StateAnswer /\ m = Message("state", m.launch)
                           /\ m.name # "state" => m \in Event
    /\ \A e \in Event : /\ e.launch \in Launches /\ e.name # "state"
                        /\ e.name = "game.check" => e = CheckOf(e.launch)
                        /\ e.name = "game.cancel" => e = CancelOf(e.launch)
                        /\ e.name = "game.abort" => e = AbortOf(e.launch)
                        /\ e.name \in {"game.check", "game.cancel", "game.abort"}
    /\ \A a \in StateAnswer : a.name = "state" /\ a.launch \in MaybeLaunch
    /\ NoLaunch \notin Launches
BY GameCheckAssumption
   DEF CheckOf, CancelOf, AbortOf, Message, Messages, Event, StateAnswer, MaybeLaunch

LEMMA CheckFields ==
    ASSUME NEW c \in Check
    PROVE  /\ c.pc \in {"none", "probe", "send", "done"} /\ c.folders \in SUBSET Folders
           /\ c.cancelled \in BOOLEAN /\ c.stale \in BOOLEAN
           /\ c.elapsed \in Nat /\ c.last \in Nat /\ c.synthetic \in BOOLEAN
           /\ c.reply \in Replies /\ c.items \in Nat /\ c.current \in BOOLEAN
BY DEF Check

LEMMA FreshIs ==
    ASSUME NEW S \in SUBSET Folders
    PROVE  /\ Fresh(S) \in Check
           /\ Fresh(S).pc = "probe" /\ ~Fresh(S).stale /\ Fresh(S).elapsed = 0
BY DEF Fresh, Check, Replies

LEMMA UnstartedIs == Unstarted \in Check /\ Unstarted.pc = "none"
<1>1. Fresh({}) \in Check
    BY FreshIs
<1>2. QED
    BY <1>1 DEF Unstarted, Check

LEMMA DoneIs ==
    ASSUME NEW c \in Check
    PROVE  Done(c) \in Check /\ Done(c).pc = "done" /\ Done(c).current = c.current
BY UnstartedIs DEF Done, Check

LEMMA SendingIs ==
    ASSUME NEW c \in Check, NEW reply \in Replies, NEW items \in Nat
    PROVE  LET d == Sending(c, reply, items)
           IN  /\ d \in Check
               /\ d.pc = "send" /\ d.reply = reply /\ d.items = items
               /\ d.stale = c.stale /\ d.cancelled = c.cancelled
               /\ d.elapsed = c.elapsed /\ d.last = c.last /\ d.current = c.current
BY DEF Sending, Check

\* Something is left of ack_ms when the budget of the first reply is used up.
LEMMA BudgetIs == FirstReplyBudget \in Nat /\ FirstReplyBudget < AckMS
<1>1. /\ AckMS \in Nat \ {0} /\ ReplyMargin \in Nat \ {0} /\ StatusBudget \in Nat \ {0}
    BY GameCheckAssumption
<1>2. CASE AckMS <= ReplyMargin
  <2>1. AckMS >= 5
    BY <1>2, UnitAssumption
  <2>2. AckMS \div 5 >= 1 /\ AckMS \div 5 <= AckMS /\ AckMS \div 5 \in Nat
    BY <1>1, <2>1
  <2>3. QED
    BY <1>1, <1>2, <2>2 DEF FirstReplyBudget, Least
<1>3. CASE ~(AckMS <= ReplyMargin)
    BY <1>1, <1>3 DEF FirstReplyBudget, Least
<1>4. QED
    BY <1>2, <1>3

\* Nothing is left to transfer in an answer that is no error only if all the folders
\* are current: a local folder that idles and a peer that answers for each.
LEMMA StopMeansCurrent ==
    ASSUME NEW S \in SUBSET Folders, NEW q \in Answered(S)
    PROVE  /\ q.status.items \in Nat /\ q.current \in BOOLEAN
           /\ q.status.items = 0 => q.current = TRUE
<1>1. PICK a \in Answers : /\ q.status = ReadGameCheckStatus(S, a) /\ ~q.status.err
                           /\ q.current = AllCurrent(S, a)
    BY DEF Answered, Probes
<1>2. /\ \A f \in Folders : /\ a.local[f].state \in {"idle", "active", "unready"}
                            /\ a.local[f].need \in 0..1
                            /\ a.local[f] = [state |-> a.local[f].state, need |-> a.local[f].need]
      /\ \A p \in Peers : a.link[p] \in {"unconfigured", "paused", "away", "connected"}
      /\ \A f \in Folders, p \in Peers :
           LET r == a.remote[<<f, p>>]
           IN  /\ r.state \in {"unknown", "valid", "other"} /\ r.need \in 0..1
               /\ r = [state |-> r.state, need |-> r.need]
    BY DEF Answers
<1>3. \A T \in SUBSET S : /\ IsFiniteSet(LocalNeeds(T, a)) /\ IsFiniteSet(PeerNeeds(T, a))
                          /\ Cardinality(LocalNeeds(T, a)) \in Nat
                          /\ Cardinality(PeerNeeds(T, a)) \in Nat
  <2> SUFFICES ASSUME NEW T \in SUBSET S
               PROVE  /\ IsFiniteSet(LocalNeeds(T, a)) /\ IsFiniteSet(PeerNeeds(T, a))
                      /\ Cardinality(LocalNeeds(T, a)) \in Nat
                      /\ Cardinality(PeerNeeds(T, a)) \in Nat
    OBVIOUS
  <2>1. IsFiniteSet(T) /\ IsFiniteSet(Peers)
    BY GameCheckAssumption, FS_Subset
  <2>2. IsFiniteSet(T \X Peers)
    BY <2>1, FS_Product
  <2>3. LocalNeeds(T, a) \subseteq T /\ PeerNeeds(T, a) \subseteq T \X Peers
    BY DEF LocalNeeds, PeerNeeds
  <2>4. IsFiniteSet(LocalNeeds(T, a)) /\ IsFiniteSet(PeerNeeds(T, a))
    BY <2>1, <2>2, <2>3, FS_Subset
  <2>5. QED
    BY <2>4, FS_CardinalityType
<1>4. q.status.items = Cardinality(LocalNeeds(S, a)) + Cardinality(PeerNeeds(S, a))
    BY <1>1 DEF ReadGameCheckStatus
<1>5. q.status.items \in Nat
    BY <1>3, <1>4
<1>6. ASSUME q.status.items = 0
      PROVE  q.current
  <2>1. LocalNeeds(S, a) = {} /\ PeerNeeds(S, a) = {}
    <3>1. Cardinality(LocalNeeds(S, a)) = 0 /\ Cardinality(PeerNeeds(S, a)) = 0
      BY <1>3, <1>4, <1>6
    <3>2. QED
      BY <1>3, <3>1, FS_EmptySet
  <2>2. ASSUME NEW f \in S PROVE a.local[f].need = 0
    <3>1. ~(a.local[f].need > 0)
      BY <2>1 DEF LocalNeeds
    <3>2. a.local[f].need \in 0..1
      BY <1>2
    <3>3. QED
      BY <3>1, <3>2
  <2>3. \A f \in S, p \in Peers : ~(PeerNeed(a, f, p) > 0)
    <3> SUFFICES ASSUME NEW f \in S, NEW p \in Peers, PeerNeed(a, f, p) > 0
                 PROVE  FALSE
      OBVIOUS
    <3>1. <<f, p>> \in PeerNeeds(S, a)
      BY DEF PeerNeeds
    <3>2. QED
      BY <2>1, <3>1
  <2>4. ASSUME NEW f \in S
        PROVE  /\ a.local[f].state # "unready" /\ a.local[f].state # "active"
               /\ \A p \in Peers : /\ a.link[p] \notin {"unconfigured", "paused"}
                                   /\ ~(a.link[p] = "connected" /\ a.remote[<<f, p>>].state = "other")
    <3>1. LocalNeeds({f}, a) = {} /\ PeerNeeds({f}, a) = {}
      BY <2>1 DEF LocalNeeds, PeerNeeds
    <3>2. FolderNeed(a, f) = 0
      BY <3>1, FS_EmptySet DEF FolderNeed
    <3>3. QED
      BY <1>1, <3>2 DEF ReadGameCheckStatus
  <2>5. ASSUME NEW f \in S, NEW p \in Peers
        PROVE  a.link[p] = "connected" /\ a.remote[<<f, p>>] = [state |-> "valid", need |-> 0]
    <3>1. a.link[p] # "away" /\ ~(a.remote[<<f, p>>].state = "unknown" /\ a.remote[<<f, p>>].need = 0)
      BY <2>3 DEF PeerNeed
    <3>2. a.link[p] = "connected"
      BY <1>2, <2>4, <3>1
    <3>3. a.remote[<<f, p>>].need = 0
      <4>1. PeerNeed(a, f, p) = a.remote[<<f, p>>].need
        BY <3>1 DEF PeerNeed
      <4>2. a.remote[<<f, p>>].need \in 0..1
        BY <1>2
      <4>3. QED
        BY <2>3, <4>1, <4>2
    <3>4. a.remote[<<f, p>>].state = "valid"
      BY <1>2, <2>4, <3>1, <3>2, <3>3
    <3>5. QED
      BY <1>2, <3>2, <3>3, <3>4
  <2>6. AllCurrent(S, a)
    <3>1. \A f \in S : a.local[f] = [state |-> "idle", need |-> 0]
      BY <1>2, <2>2, <2>4
    <3>2. QED
      BY <2>5, <3>1 DEF AllCurrent
  <2>7. QED
    BY <1>1, <2>6
<1>7. q.current \in BOOLEAN
  <2>1. AllCurrent(S, a) \in BOOLEAN
    BY Zenon DEF AllCurrent
  <2>2. QED
    BY <1>1, <2>1
<1>8. QED
    BY <1>5, <1>6, <1>7

\* What a probe may make of a goroutine: it goes on or has something to send, says
\* "stop" only of current folders, and keeps its budget until it has replied.
Progress(c, n) ==
    /\ n \in Check /\ n.pc \in {"probe", "send"}
    /\ n.stale = c.stale /\ n.cancelled = c.cancelled
    /\ c.current => n.current
    /\ n.pc = "send" /\ n.reply = "stop" => n.current
    /\ n.last = 0 => n.elapsed <= FirstReplyBudget

LEMMA SendingIsProgress ==
    ASSUME NEW c \in Check, NEW t \in Check, NEW reply \in Replies, NEW items \in Nat,
           t.stale = c.stale, t.cancelled = c.cancelled, t.current = c.current,
           reply # "stop", t.last = 0 => t.elapsed <= FirstReplyBudget
    PROVE  Progress(c, Sending(t, reply, items))
BY SendingIs DEF Progress

LEMMA StopIsProgress ==
    ASSUME NEW c \in Check, NEW t \in Check,
           t.stale = c.stale, t.cancelled = c.cancelled,
           t.last = 0 => t.elapsed <= FirstReplyBudget
    PROVE  Progress(c, [Sending(t, "stop", 0) EXCEPT !.current = TRUE])
<1> DEFINE d == Sending(t, "stop", 0)
<1>1. /\ d \in Check /\ d.pc = "send" /\ d.reply = "stop" /\ d.stale = c.stale
      /\ d.cancelled = c.cancelled /\ d.elapsed = t.elapsed /\ d.last = t.last
    BY SendingIs DEF Replies
<1> HIDE DEF d
<1>2. LET n == [d EXCEPT !.current = TRUE]
      IN  /\ n \in Check /\ n.pc = "send" /\ n.reply = "stop" /\ n.stale = c.stale
          /\ n.cancelled = c.cancelled /\ n.elapsed = t.elapsed /\ n.last = t.last /\ n.current
    BY <1>1 DEF Check
<1>3. QED
    BY <1>2 DEF Progress, d

LEMMA FirstReadIs ==
    ASSUME NEW c \in Check, c.pc = "probe", c.elapsed <= FirstReplyBudget, Remaining(c) > 0,
           NEW d \in 0..ReadTimeout(c), NEW n \in FirstRead(c, d)
    PROVE  Progress(c, n)
<1> DEFINE t == [c EXCEPT !.elapsed = @ + d]
           later == t.elapsed + Least(Remaining(t), RetryDelay)
           retry == [t EXCEPT !.elapsed = @ + Least(Remaining(t), RetryDelay)]
<1>1. c.elapsed \in Nat /\ FirstReplyBudget \in Nat /\ AckMS \in Nat /\ ProbeBudget \in Nat
        /\ RetryDelay \in Nat
    BY BudgetIs, CheckFields, GameCheckAssumption
<1>2. d \in Nat /\ c.elapsed + d <= FirstReplyBudget
    BY <1>1 DEF ReadTimeout, Remaining, Least
<1>3. /\ t \in Check /\ t.pc = "probe" /\ t.elapsed = c.elapsed + d /\ t.last = c.last
      /\ t.stale = c.stale /\ t.cancelled = c.cancelled /\ t.current = c.current
      /\ t.folders = c.folders
    BY <1>1, <1>2 DEF Check
<1> HIDE DEF t
<1>4. CASE n = Sending(t, "error", 0) \/ n = Sending(t, "waiting", 1)
    BY <1>2, <1>3, <1>4, SendingIsProgress DEF Replies
<1>5. CASE n = [Sending(t, "waiting", 1) EXCEPT !.synthetic = TRUE]
  <2> DEFINE s == Sending(t, "waiting", 1)
  <2>1. /\ s \in Check /\ s.pc = "send" /\ s.reply = "waiting" /\ s.stale = t.stale
        /\ s.cancelled = t.cancelled /\ s.elapsed = t.elapsed /\ s.last = t.last
        /\ s.current = t.current
    <3>1. "waiting" \in Replies /\ 1 \in Nat
      BY DEF Replies
    <3>2. QED
      BY <1>3, <3>1, SendingIs
  <2> HIDE DEF s
  <2>2. /\ n \in Check /\ n.pc = "send" /\ n.reply = "waiting" /\ n.stale = t.stale
        /\ n.cancelled = t.cancelled /\ n.elapsed = t.elapsed /\ n.last = t.last
        /\ n.current = t.current
    BY <1>5, <2>1 DEF Check, s
  <2>3. QED
    BY <1>2, <1>3, <2>2 DEF Progress
<1>6. CASE n = retry /\ Remaining(t) > 0
  <2>1. later \in Nat /\ later <= FirstReplyBudget
    BY <1>1, <1>2, <1>3, <1>6 DEF Remaining, Least
  <2>2. /\ n \in Check /\ n.pc = "probe" /\ n.elapsed = later /\ n.stale = t.stale
        /\ n.cancelled = t.cancelled /\ n.current = t.current
    BY <1>3, <1>6, <2>1 DEF Check
  <2>3. QED
    BY <1>3, <2>1, <2>2 DEF Progress
<1>7. ASSUME NEW q \in Answered(c.folders),
             n = IF q.status.items = 0
                 THEN [Sending(t, "stop", 0) EXCEPT !.current = q.current]
                 ELSE Sending(t, "waiting", q.status.items)
      PROVE  Progress(c, n)
  <2>1. q.status.items \in Nat /\ (q.status.items = 0 => q.current = TRUE)
    BY StopMeansCurrent, CheckFields
  <2>2. CASE q.status.items = 0
    <3>1. q.current = TRUE
      BY <2>1, <2>2
    <3>2. n = [Sending(t, "stop", 0) EXCEPT !.current = TRUE]
      BY <1>7, <2>2, <3>1
    <3>3. QED
      BY <1>2, <1>3, <3>2, StopIsProgress
  <2>3. CASE q.status.items # 0
    BY <1>2, <1>3, <1>7, <2>1, <2>3, SendingIsProgress DEF Replies
  <2>4. QED
    BY <2>2, <2>3
<1>8. \/ n \in {Sending(t, "error", 0), [Sending(t, "waiting", 1) EXCEPT !.synthetic = TRUE]}
      \/ n = retry /\ Remaining(t) > 0
      \/ \E q \in Answered(c.folders) :
           n = IF q.status.items = 0
               THEN [Sending(t, "stop", 0) EXCEPT !.current = q.current]
               ELSE Sending(t, "waiting", q.status.items)
    BY <1>3 DEF FirstRead, t
<1>9. QED
    BY <1>4, <1>5, <1>6, <1>7, <1>8

LEMMA LaterReadIs ==
    ASSUME NEW c \in Check, c.pc = "probe", c.last > 0, NEW n \in LaterRead(c)
    PROVE  Progress(c, n)
<1>1. CASE n = c
    BY <1>1, CheckFields DEF Progress
<1>2. CASE n = Sending(c, "error", 0)
    BY <1>2, SendingIsProgress, CheckFields DEF Replies
<1>3. CASE n = [c EXCEPT !.synthetic = FALSE]
  <2>1. /\ n \in Check /\ n.pc = "probe" /\ n.stale = c.stale /\ n.cancelled = c.cancelled
        /\ n.current = c.current /\ n.last = c.last
    BY <1>3 DEF Check
  <2>2. QED
    BY <2>1, CheckFields DEF Progress
<1>4. ASSUME NEW q \in Answered(c.folders), q.status.items = 0,
             n = [Sending(c, "stop", 0) EXCEPT !.current = q.current]
      PROVE  Progress(c, n)
  <2>1. q.current = TRUE
    BY <1>4, StopMeansCurrent, CheckFields
  <2>2. n = [Sending(c, "stop", 0) EXCEPT !.current = TRUE]
    BY <1>4, <2>1
  <2>3. QED
    BY <2>2, StopIsProgress, CheckFields
<1>5. ASSUME NEW q \in Answered(c.folders),
             n = [Sending(c, "waiting", q.status.items) EXCEPT !.synthetic = FALSE]
      PROVE  Progress(c, n)
  <2> DEFINE s == Sending(c, "waiting", q.status.items)
  <2>1. q.status.items \in Nat
    BY StopMeansCurrent, CheckFields
  <2>2. /\ s \in Check /\ s.pc = "send" /\ s.reply = "waiting" /\ s.stale = c.stale
        /\ s.cancelled = c.cancelled /\ s.last = c.last /\ s.current = c.current
    <3>1. "waiting" \in Replies
      BY DEF Replies
    <3>2. QED
      BY <2>1, <3>1, SendingIs
  <2> HIDE DEF s
  <2>3. /\ n \in Check /\ n.pc = "send" /\ n.reply = "waiting" /\ n.stale = c.stale
        /\ n.cancelled = c.cancelled /\ n.last = c.last /\ n.current = c.current
    BY <1>5, <2>2 DEF Check, s
  <2>4. QED
    BY <2>3, CheckFields DEF Progress
<1>6. \/ n \in {c, Sending(c, "error", 0), [c EXCEPT !.synthetic = FALSE]}
      \/ \E q \in Answered(c.folders) :
           \/ q.status.items = 0 /\ n = [Sending(c, "stop", 0) EXCEPT !.current = q.current]
           \/ n = [Sending(c, "waiting", q.status.items) EXCEPT !.synthetic = FALSE]
    BY DEF LaterRead
<1>7. QED
    BY <1>1, <1>2, <1>3, <1>4, <1>5, <1>6

-----------------------------------------------------------------------------
(* What the actions have in common.                                         *)

LEMMA QueueTypes ==
    ASSUME TypeOK
    PROVE  pending \in Seq(Messages) /\ wire \in Seq(Messages)
<1>1. pending \in Seq(Event) /\ Event \subseteq Messages
    BY DEF TypeOK, Messages
<1>2. pending \in Seq(Messages)
    BY <1>1, SeqMonotonic
<1>3. QED
    BY <1>2 DEF TypeOK, Messages

\* Jawaka sends a message, if the connection is there.
LEMMA SentIs ==
    ASSUME TypeOK, NEW m \in Messages, wire' = Sent(m), pending' = pending
    PROVE  /\ wire' \in Seq(Messages) /\ pending' \in Seq(Event)
           /\ \A a : In(wire', a) => In(wire, a) \/ a = m
           /\ \A a : Waits(pending', wire', a) => Waits(pending, wire, a) \/ a = m
           /\ \A a, b : Precedes(pending', wire', a, b) =>
                Waits(pending, wire, a) /\ (Precedes(pending, wire, a, b) \/ b = m)
           /\ linked => \A g, h : QueueLeads(pending, wire, g, h) =>
                                    QueueLeads(pending', wire', g, Handled(h, m))
<1>1. pending \in Seq(Messages) /\ wire \in Seq(Messages)
    BY QueueTypes
<1>2. wire' \in {wire, Append(wire, m)} /\ (linked => wire' = Append(wire, m))
    BY DEF Sent
<1>3. wire' \in Seq(Messages) /\ pending' \in Seq(Event)
    BY <1>1, <1>2, AppendProperties DEF TypeOK
<1>4. \A a : In(wire', a) => In(wire, a) \/ a = m
    BY <1>1, <1>2, AppendIn
<1>5. /\ \A a : Waits(pending', wire', a) => Waits(pending, wire, a) \/ a = m
      /\ \A a, b : Precedes(pending', wire', a, b) =>
           Waits(pending, wire, a) /\ (Precedes(pending, wire, a, b) \/ b = m)
  <2>1. /\ \A a : Waits(pending, wire', a) => Waits(pending, wire, a) \/ a = m
        /\ \A a, b : Precedes(pending, wire', a, b) =>
             Waits(pending, wire, a) /\ (Precedes(pending, wire, a, b) \/ b = m)
    <3>1. CASE wire' = wire
      BY <1>1, <3>1, PrecedesWaits
    <3>2. CASE wire' = Append(wire, m)
      <4>1. Append(wire, m) \in {wire, Append(wire, m)}
        OBVIOUS
      <4>2. /\ \A a : Waits(pending, Append(wire, m), a) => Waits(pending, wire, a) \/ a = m
            /\ \A a, b : Precedes(pending, Append(wire, m), a, b) =>
                 Precedes(pending, wire, a, b) \/ (Waits(pending, wire, a) /\ b = m)
        BY <1>1, <4>1, SentIsMore
      <4>3. QED
        BY <1>1, <3>2, <4>2, PrecedesWaits
    <3>3. QED
      BY <1>2, <3>1, <3>2
  <2>2. QED
    BY <2>1
<1>6. linked => \A g, h : QueueLeads(pending, wire, g, h) =>
                            QueueLeads(pending', wire', g, Handled(h, m))
    BY <1>1, <1>2, QueueLeadsOn
<1>7. QED
    BY <1>3, <1>4, <1>5, <1>6

\* The run loop takes the next event.
LEMMA TakeIs ==
    ASSUME TypeOK, NEW name \in {"game.check", "game.cancel", "game.abort"}, Take(name)
    PROVE  /\ loop = "up" /\ Next1 \in Event /\ Next1.name = name /\ Next1.launch \in Launches
           /\ wire' \in Seq(Messages) /\ pending' \in Seq(Event)
           /\ Waits(pending, wire, Next1) /\ Fewer(pending, wire, pending', wire')
           /\ \A a : Waits(pending', wire', a) => Precedes(pending, wire, Next1, a)
           /\ Reconciled(Next1) \in MaybeLaunch
           /\ \A h : QueueLeads(pending, wire, gameState, h) =>
                       QueueLeads(pending', wire', Reconciled(Next1), h)
<1>1. pending \in Seq(Messages) /\ wire \in Seq(Messages) /\ pending \in Seq(Event)
    BY QueueTypes DEF TypeOK
<1>2. \/ pending # <<>> /\ Next1 = Head(pending) /\ pending' = Tail(pending) /\ wire' = wire
      \/ pending = <<>> /\ wire # <<>> /\ Next1 = Head(wire) /\ pending' = pending /\ wire' = Tail(wire)
    BY DEF Take, Next1
<1>3. loop = "up" /\ Next1.name = name
    BY DEF Take
<1>4. wire' \in Seq(Messages) /\ pending' \in Seq(Event)
    BY <1>1, <1>2, HeadTailProperties
<1>5. /\ Next1 \in Messages /\ Waits(pending, wire, Next1) /\ Fewer(pending, wire, pending', wire')
      /\ \A a : Waits(pending', wire', a) => Precedes(pending, wire, Next1, a)
    BY <1>1, <1>2, TakenIsFewer
<1>6. Next1 \in Event /\ Next1.launch \in Launches
    BY <1>3, <1>5, MessageIs
<1>7. Reconciled(Next1) = Handled(gameState, Next1)
    BY DEF Reconciled, Handled
<1>8. gameState \in MaybeLaunch
    BY DEF TypeOK
<1>9. Reconciled(Next1) \in MaybeLaunch
    BY <1>5, <1>7, <1>8, HandledIs
<1>10. \A h : QueueLeads(pending, wire, gameState, h) =>
                QueueLeads(pending', wire', Reconciled(Next1), h)
    BY <1>1, <1>2, <1>7, <1>8, QueueLeadsFromHead
<1>11. QED
    BY <1>3, <1>4, <1>5, <1>6, <1>9, <1>10

\* A goroutine that cannot go on reading: it has ended, or has a last reply to write.
Calm(c, d) ==
    /\ d \in Check /\ d.pc # "probe" /\ d.current = c.current
    /\ d.pc = "send" => /\ c.pc = "send" /\ d.cancelled /\ d.reply = c.reply
                        /\ d.elapsed = c.elapsed /\ d.last = c.last
                        /\ c.stale => d.stale

LEMMA CancelledIs ==
    ASSUME IInv
    PROVE  /\ Cancelled \in [Launches -> Check]
           /\ \A l \in Launches : /\ Calm(check[l], Cancelled[l])
                                  /\ Cancelled[l].pc # "none" => l \in begun
                                  /\ l # gameCheckID => Cancelled[l] = check[l]
<1>1. /\ check \in [Launches -> Check] /\ gameCheckID \in MaybeLaunch
      /\ cancelSet => gameCheckID \in Launches
    BY DEF IInv, TypeOK, MaybeLaunch
<1>2. CASE ~cancelSet
  <2>1. Cancelled = check
    BY <1>2 DEF Cancelled
  <2>2. ASSUME NEW l \in Launches PROVE Calm(check[l], check[l])
    BY <1>1, <1>2 DEF IInv, GoroutineInv, OneLiveCheck, Calm
  <2>3. QED
    BY <1>1, <2>1, <2>2 DEF IInv, BegunInv
<1>3. CASE cancelSet
  <2> DEFINE k == gameCheckID
             c == check[k]
             d == IF c.pc = "send" THEN [c EXCEPT !.cancelled = TRUE] ELSE Done(c)
  <2>1. k \in Launches /\ c \in Check /\ Cancelled = [check EXCEPT ![k] = d]
    BY <1>1, <1>3 DEF Cancelled
  <2>2. Calm(c, d) /\ d.pc # "none"
    <3>1. CASE c.pc = "send"
      <4>1. /\ d \in Check /\ d.pc = "send" /\ d.cancelled /\ d.reply = c.reply
            /\ d.elapsed = c.elapsed /\ d.last = c.last /\ d.stale = c.stale /\ d.current = c.current
        BY <2>1, <3>1 DEF Check
      <4>2. QED
        BY <3>1, <4>1 DEF Calm
    <3>2. CASE c.pc # "send"
      BY <2>1, <3>2, DoneIs DEF Calm
    <3>3. QED
      BY <3>1, <3>2
  <2>3. k \in begun
    BY <1>1, <2>1, MessageIs DEF IInv, BegunInv
  <2> HIDE DEF d
  <2>4. d \in Check
    BY <2>2 DEF Calm
  <2>5. ASSUME NEW l \in Launches, l # k PROVE Calm(check[l], check[l])
    BY <1>1, <2>5 DEF IInv, GoroutineInv, OneLiveCheck, Calm
  <2>6. Cancelled \in [Launches -> Check] /\ Cancelled[k] = d
    BY <1>1, <2>1, <2>4
  <2>7. \A l \in Launches : l # k => Cancelled[l] = check[l]
    BY <1>1, <2>1
  <2>8. QED
    BY <2>2, <2>3, <2>5, <2>6, <2>7 DEF IInv, BegunInv
<1>4. QED
    BY <1>2, <1>3

\* No check goes on, and the run loop holds on to none.
LEMMA CalmChecks ==
    ASSUME IInv, check' \in [Launches -> Check], loop # "stopped", loop' # "stopped",
           \A l \in Launches : Calm(check[l], check'[l])
    PROVE  /\ GoroutineInv'
           /\ launch' = launch /\ (told' = "stop" => told = "stop") => StopOnlyWhenCurrent'
           /\ \A l \in Launches : Alive(check'[l]) => Alive(check[l])
<1>1. OneLiveCheck'
    BY DEF OneLiveCheck, Calm
<1>2. ASSUME NEW l \in Launches
      PROVE  /\ check'[l].pc # "probe"
             /\ check'[l].pc = "send" => /\ check'[l].cancelled
                                         /\ check'[l].reply = "stop" => check'[l].current
                                         /\ check'[l].last = 0 => check'[l].elapsed <= FirstReplyBudget
    BY DEF IInv, GoroutineInv, Calm
<1>3. GoroutineInv'
    BY <1>1, <1>2 DEF GoroutineInv
<1>4. launch' = launch /\ (told' = "stop" => told = "stop") => StopOnlyWhenCurrent'
  <2>1. launch # NoLaunch => launch \in Launches
    BY DEF IInv, TypeOK, MaybeLaunch
  <2>2. \A l \in Launches : check'[l].current = check[l].current
    BY DEF Calm
  <2>3. QED
    BY <2>1, <2>2 DEF IInv, StopOnlyWhenCurrent
<1>5. \A l \in Launches : Alive(check'[l]) => Alive(check[l])
    BY CheckFields DEF Alive, Calm, IInv, TypeOK
<1>6. QED
    BY <1>3, <1>4, <1>5


LEMMA BegunLaunch == IInv => (launch # NoLaunch => launch \in Launches) /\ launch \in MaybeLaunch
BY DEF IInv, TypeOK, MaybeLaunch

\* Messages leave the queues, and no launch gets a check it had not.
LEMMA FewerIs ==
    ASSUME IInv, Fewer(pending, wire, pending', wire'), UNCHANGED jawaka,
           gameCheckID' \in {gameCheckID, NoLaunch},
           \A l \in Launches : check'[l].pc # "none" => l \in begun
    PROVE  BegunInv' /\ OrderInv'
<1>1. /\ \A a : Waits(pending', wire', a) => Waits(pending, wire, a)
      /\ \A a, b : Precedes(pending', wire', a, b) => Precedes(pending, wire, a, b)
    BY DEF Fewer
<1>2. launch' = launch /\ phase' = phase /\ begun' = begun
    BY DEF jawaka
<1>3. BegunInv /\ OrderInv
    BY DEF IInv
<1>4. BegunInv'
    BY <1>1, <1>2, <1>3 DEF BegunInv
<1>5. OrderInv'
  <2>1. /\ launch # NoLaunch => ~Waits(pending', wire', AbortOf(launch))
        /\ phase = "checking" => ~Waits(pending', wire', CancelOf(launch))
        /\ \A l \in Launches : ~Precedes(pending', wire', CancelOf(l), CheckOf(l))
    BY <1>1, <1>3 DEF OrderInv
  <2>2. ASSUME launch # NoLaunch, NEW l \in Launches,
               \/ Precedes(pending', wire', CheckOf(launch), CheckOf(l))
               \/ gameCheckID' = launch /\ Waits(pending', wire', CheckOf(l))
        PROVE  l = launch
    BY <1>1, <1>3, <2>2 DEF OrderInv
  <2>3. QED
    BY <1>2, <2>1, <2>2 DEF OrderInv
<1>6. QED
    BY <1>4, <1>5

LEMMA InitInv == Init => IInv
<1> SUFFICES ASSUME Init PROVE IInv
    OBVIOUS
<1>1. /\ wire = <<>> /\ pending = <<>> /\ ~linked /\ loop = "dialing" /\ told = "none"
      /\ gameCheckID = NoLaunch /\ ~cancelSet /\ phase # "checking"
      /\ \A l \in Launches : check[l].pc = "none"
    BY UnstartedIs DEF Init
<1>2. \A a, b : ~Waits(pending, wire, a) /\ ~Precedes(pending, wire, a, b)
    BY <1>1, NothingIn DEF Waits, Precedes
<1>3. TypeOK
  <2>1. wire \in Seq(Event \cup StateAnswer) /\ pending \in Seq(Event)
    BY <1>1
  <2>2. check \in [Launches -> Check]
    BY UnstartedIs DEF Init
  <2>3. launch \in MaybeLaunch /\ phase \in {"none", "checking", "playing"} /\ begun \subseteq Launches
    BY DEF Init, MaybeLaunch
  <2>4. drops \in 0..MaxDrops
    BY GameCheckAssumption DEF Init
  <2>5. QED
    BY <1>1, <2>1, <2>2, <2>3, <2>4 DEF Init, TypeOK, MaybeLaunch
<1>4. GoroutineInv /\ StopOnlyWhenCurrent
    BY <1>1 DEF GoroutineInv, OneLiveCheck, StopOnlyWhenCurrent
<1>5. BegunInv /\ OrderInv
  <2>1. BegunInv
    BY <1>1, <1>2 DEF BegunInv, Init
  <2>2. OrderInv
    BY <1>1, <1>2, <1>3, GameCheckAssumption DEF OrderInv
  <2>3. QED
    BY <2>1, <2>2
<1>6. OnceInv /\ RunInv
    BY <1>1 DEF OnceInv, RunInv, Alive
<1>7. QED
    BY <1>3, <1>4, <1>5, <1>6 DEF IInv

-----------------------------------------------------------------------------
(* Jawaka.                                                                  *)

LEMMA LaunchStep ==
    ASSUME IInv, NEW l \in Launches, Launch(l)
    PROVE  IInv'
<1> DEFINE m == CheckOf(l)
<1>1. /\ launch = NoLaunch /\ l \notin begun /\ l # NoLaunch
      /\ launch' = l /\ phase' = "checking" /\ begun' = begun \cup {l} /\ told' = "none"
      /\ wire' = Sent(m) /\ pending' = pending
      /\ UNCHANGED <<linked, drops, loop, gameState, gameCheckID, cancelSet, check>>
    BY MessageIs DEF Launch, CheckOf
<1>2. m \in Messages /\ m \in Event /\ m.launch = l /\ m.name = "game.check"
    BY MessageIs DEF Messages
<1> HIDE DEF m
<1>3. TypeOK /\ GoroutineInv /\ BegunInv /\ OrderInv /\ OnceInv /\ RunInv
    BY DEF IInv
<1>4. /\ wire' \in Seq(Messages) /\ pending' \in Seq(Event)
      /\ \A a : Waits(pending', wire', a) => Waits(pending, wire, a) \/ a = m
      /\ \A a, b : Precedes(pending', wire', a, b) =>
           Waits(pending, wire, a) /\ (Precedes(pending, wire, a, b) \/ b = m)
      /\ linked => \A g, h : QueueLeads(pending, wire, g, h) =>
                               QueueLeads(pending', wire', g, Handled(h, m))
    BY <1>1, <1>2, <1>3, SentIs
<1>5. TypeOK'
    BY <1>1, <1>3, <1>4 DEF TypeOK, Messages, MaybeLaunch
<1>6. GoroutineInv' /\ StopOnlyWhenCurrent'
    BY <1>1, <1>3 DEF GoroutineInv, OneLiveCheck, StopOnlyWhenCurrent
<1>7. BegunInv'
    BY <1>1, <1>2, <1>3, <1>4 DEF BegunInv
<1>8. \A e \in Event : e.launch = l => ~Waits(pending, wire, e)
    BY <1>1, <1>3 DEF BegunInv
<1>9. OrderInv'
  <2>1. ~Waits(pending', wire', AbortOf(l)) /\ ~Waits(pending', wire', CancelOf(l))
    BY <1>2, <1>4, <1>8, MessageIs
  <2>2. ASSUME NEW k \in Launches PROVE ~Precedes(pending', wire', CancelOf(k), CheckOf(k))
    <3>1. k # l => ~(CheckOf(k) = m)
      BY <1>2, MessageIs
    <3>2. k = l => ~Waits(pending, wire, CancelOf(k))
      BY <1>8, MessageIs
    <3>3. ~Precedes(pending, wire, CancelOf(k), CheckOf(k))
      BY <1>3 DEF OrderInv
    <3>4. QED
      BY <1>4, <3>1, <3>2, <3>3
  <2>3. \A k : ~Precedes(pending', wire', CheckOf(l), CheckOf(k))
    BY <1>4, <1>8, MessageIs
  <2>4. gameCheckID # l
    BY <1>1, <1>3 DEF BegunInv
  <2>5. QED
    BY <1>1, <2>1, <2>2, <2>3, <2>4 DEF OrderInv
<1>10. OnceInv'
  <2>1. check[l].pc = "none"
    BY <1>1, <1>3 DEF BegunInv
  <2>2. QED
    BY <1>1, <1>3, <2>1 DEF OnceInv, Alive
<1>11. RunInv'
  <2>1. \A h : Handled(h, m) = l
    BY <1>2 DEF Handled
  <2>2. CASE linked /\ loop = "up"
    <3>1. QueueLeads(pending', wire', gameState, l)
      BY <1>3, <1>4, <2>1, <2>2 DEF RunInv
    <3>2. QED
      BY <1>1, <2>2, <3>1 DEF RunInv
  <2>3. CASE linked /\ loop = "asked"
    <3>1. QueueLeads(pending', wire', NoLaunch, l)
      BY <1>3, <1>4, <2>1, <2>3 DEF RunInv
    <3>2. QED
      BY <1>1, <2>3, <3>1 DEF RunInv
  <2>4. QED
    BY <1>1, <2>2, <2>3 DEF RunInv
<1>12. QED
    BY <1>5, <1>6, <1>7, <1>9, <1>10, <1>11 DEF IInv

\* a message about the launch that is being checked
LEMMA AboutIs ==
    ASSUME IInv, phase = "checking", NEW m \in Messages, wire' = Sent(m), pending' = pending,
           m.launch = launch, m \in Event,
           begun' = begun, UNCHANGED <<linked, drops, loop, gameState, gameCheckID, cancelSet, check>>,
           UNCHANGED told, launch' \in {launch, NoLaunch}, phase' \in {"none", "checking", "playing"},
           phase' = "checking" => launch' = launch
    PROVE  TypeOK' /\ GoroutineInv' /\ StopOnlyWhenCurrent' /\ BegunInv' /\ launch \in Launches
<1>1. TypeOK /\ GoroutineInv /\ BegunInv /\ StopOnlyWhenCurrent
    BY DEF IInv
<1>2. /\ wire' \in Seq(Messages) /\ pending' \in Seq(Event)
      /\ \A a : Waits(pending', wire', a) => Waits(pending, wire, a) \/ a = m
    BY <1>1, SentIs
<1>3. launch \in Launches /\ launch # NoLaunch /\ launch \in begun
    BY <1>1, MessageIs DEF BegunInv, TypeOK, MaybeLaunch
<1>4. TypeOK'
    BY <1>1, <1>2, <1>3 DEF TypeOK, Messages, MaybeLaunch
<1>5. GoroutineInv' /\ StopOnlyWhenCurrent'
    BY <1>1, <1>3 DEF GoroutineInv, OneLiveCheck, StopOnlyWhenCurrent
<1>6. BegunInv'
  <2>1. \A e \in Event : Waits(pending', wire', e) => e.launch \in begun
    BY <1>1, <1>2, <1>3 DEF BegunInv
  <2>2. QED
    BY <1>1, <1>3, <2>1 DEF BegunInv
<1>7. QED
    BY <1>3, <1>4, <1>5, <1>6

LEMMA ResendStep ==
    ASSUME IInv, Resend
    PROVE  IInv'
<1> DEFINE m == CheckOf(launch)
<1>1. /\ phase = "checking" /\ linked /\ wire' = Sent(m) /\ pending' = pending
      /\ launch' = launch /\ phase' = phase /\ begun' = begun /\ told' = told
      /\ UNCHANGED <<linked, drops, loop, gameState, gameCheckID, cancelSet, check>>
    BY DEF Resend, CheckOf, jawaka
<1>2. TypeOK /\ OrderInv /\ OnceInv /\ RunInv
    BY DEF IInv
<1>3. launch \in Launches /\ launch # NoLaunch
    BY <1>1, BegunLaunch DEF IInv, BegunInv
<1>4. m \in Messages /\ m \in Event /\ m.launch = launch /\ m.name = "game.check"
    BY <1>3, MessageIs DEF Messages
<1>5. TypeOK' /\ GoroutineInv' /\ StopOnlyWhenCurrent' /\ BegunInv'
    BY <1>1, <1>4, AboutIs
<1> HIDE DEF m
<1>6. /\ \A a : In(wire', a) => In(wire, a) \/ a = m
      /\ \A a : Waits(pending', wire', a) => Waits(pending, wire, a) \/ a = m
      /\ \A a, b : Precedes(pending', wire', a, b) =>
           Waits(pending, wire, a) /\ (Precedes(pending, wire, a, b) \/ b = m)
      /\ \A g, h : QueueLeads(pending, wire, g, h) =>
                     QueueLeads(pending', wire', g, Handled(h, m))
    BY <1>1, <1>2, <1>4, SentIs
<1>7. OrderInv'
  <2>1. ~Waits(pending', wire', AbortOf(launch)) /\ ~Waits(pending', wire', CancelOf(launch))
    BY <1>1, <1>2, <1>3, <1>4, <1>6, MessageIs DEF OrderInv
  <2>2. ASSUME NEW k \in Launches PROVE ~Precedes(pending', wire', CancelOf(k), CheckOf(k))
    <3>1. k # launch => ~(CheckOf(k) = m)
      BY <1>4, MessageIs
    <3>2. k = launch => ~Waits(pending, wire, CancelOf(k))
      BY <1>1, <1>2 DEF OrderInv
    <3>3. ~Precedes(pending, wire, CancelOf(k), CheckOf(k))
      BY <1>2 DEF OrderInv
    <3>4. QED
      BY <1>6, <3>1, <3>2, <3>3
  <2>3. ASSUME NEW k \in Launches, k # launch
        PROVE  /\ ~Precedes(pending', wire', CheckOf(launch), CheckOf(k))
               /\ ~(gameCheckID' = launch /\ Waits(pending', wire', CheckOf(k)))
    <3>1. CheckOf(k) # m
      BY <1>4, <2>3, MessageIs
    <3>2. /\ ~Precedes(pending, wire, CheckOf(launch), CheckOf(k))
          /\ ~(gameCheckID = launch /\ Waits(pending, wire, CheckOf(k)))
      BY <1>2, <1>3, <2>3 DEF OrderInv
    <3>3. QED
      BY <1>1, <1>6, <3>1, <3>2
  <2>4. QED
    BY <1>1, <2>1, <2>2, <2>3 DEF OrderInv
<1>8. OnceInv'
  <2>1. loop = "up" /\ (told = "stop" \/ Alive(check[launch])) => gameCheckID = launch
    BY <1>1, <1>2, <1>3 DEF OnceInv
  <2>2. \A a \in StateAnswer : In(wire', a) => In(wire, a)
    BY <1>4, <1>6, MessageIs
  <2>3. QED
    BY <1>1, <1>2, <2>1, <2>2 DEF OnceInv
<1>9. RunInv'
  <2>1. \A h : Handled(h, m) = launch
    BY <1>4 DEF Handled
  <2>2. CASE loop = "up"
    <3>1. QueueLeads(pending', wire', gameState, launch)
      BY <1>1, <1>2, <1>6, <2>1, <2>2 DEF RunInv
    <3>2. QED
      BY <1>1, <2>2, <3>1 DEF RunInv
  <2>3. CASE loop = "asked"
    <3>1. QueueLeads(pending', wire', NoLaunch, launch)
      BY <1>1, <1>2, <1>6, <2>1, <2>3 DEF RunInv
    <3>2. QED
      BY <1>1, <2>3, <3>1 DEF RunInv
  <2>4. QED
    BY <1>1, <2>2, <2>3 DEF RunInv
<1>10. QED
    BY <1>5, <1>7, <1>8, <1>9 DEF IInv

\* The launch ends, or is played without the check: the order of what waits is kept,
\* and what leads to the launch leads to what it has become.
LEMMA EndStep ==
    ASSUME IInv, Abort \/ PlayAnyway
    PROVE  IInv'
<1> DEFINE m == IF Abort THEN AbortOf(launch) ELSE CancelOf(launch)
<1>1. /\ phase = "checking" /\ wire' = Sent(m) /\ pending' = pending
      /\ phase' \in {"none", "playing"} /\ begun' = begun /\ told' = told
      /\ UNCHANGED <<linked, drops, loop, gameState, gameCheckID, cancelSet, check>>
      /\ \/ launch' = NoLaunch /\ m = AbortOf(launch)
         \/ launch' = launch /\ m = CancelOf(launch)
  <2>1. CASE Abort
    <3>1. m = AbortOf(launch)
      BY <2>1
    <3>2. QED
      BY <2>1, <3>1 DEF Abort, AbortOf
  <2>2. CASE ~Abort
    <3>1. PlayAnyway /\ m = CancelOf(launch)
      BY <2>2
    <3>2. QED
      BY <3>1 DEF PlayAnyway, CancelOf
  <2>3. QED
    BY <2>1, <2>2
<1> HIDE DEF m
<1>2. TypeOK /\ OrderInv /\ OnceInv /\ RunInv
    BY DEF IInv
<1>3. launch \in Launches /\ launch # NoLaunch
    BY <1>1, BegunLaunch DEF IInv, BegunInv
<1>4. /\ m \in Messages /\ m \in Event /\ m.launch = launch /\ m.name \in {"game.abort", "game.cancel"}
      /\ \/ launch' = NoLaunch /\ m.name = "game.abort"
         \/ launch' = launch /\ m.name = "game.cancel" /\ m # AbortOf(launch)
      /\ \A k \in Launches : CheckOf(k) # m
    BY <1>1, <1>3, MessageIs DEF Messages
<1>5. TypeOK' /\ GoroutineInv' /\ StopOnlyWhenCurrent' /\ BegunInv'
    BY <1>1, <1>4, AboutIs
<1>6. /\ \A a : In(wire', a) => In(wire, a) \/ a = m
      /\ \A a : Waits(pending', wire', a) => Waits(pending, wire, a) \/ a = m
      /\ \A a, b : Precedes(pending', wire', a, b) =>
           Waits(pending, wire, a) /\ (Precedes(pending, wire, a, b) \/ b = m)
      /\ linked => \A g, h : QueueLeads(pending, wire, g, h) =>
                               QueueLeads(pending', wire', g, Handled(h, m))
    BY <1>1, <1>2, <1>4, SentIs
<1>7. /\ \A k \in Launches : Waits(pending', wire', CheckOf(k)) => Waits(pending, wire, CheckOf(k))
      /\ \A a : \A k \in Launches : Precedes(pending', wire', a, CheckOf(k)) =>
                                      Precedes(pending, wire, a, CheckOf(k))
      /\ \A a \in StateAnswer : In(wire', a) => In(wire, a)
    BY <1>4, <1>6, MessageIs
<1>8. OrderInv'
  <2>1. launch' # NoLaunch => ~Waits(pending', wire', AbortOf(launch))
    BY <1>2, <1>3, <1>4, <1>6 DEF OrderInv
  <2>2. \A k \in Launches : ~Precedes(pending', wire', CancelOf(k), CheckOf(k))
    BY <1>2, <1>7 DEF OrderInv
  <2>3. ASSUME NEW k \in Launches, k # launch
        PROVE  /\ ~Precedes(pending', wire', CheckOf(launch), CheckOf(k))
               /\ ~(gameCheckID' = launch /\ Waits(pending', wire', CheckOf(k)))
    <3>1. /\ ~Precedes(pending, wire, CheckOf(launch), CheckOf(k))
          /\ ~(gameCheckID = launch /\ Waits(pending, wire, CheckOf(k)))
      BY <1>2, <1>3, <2>3 DEF OrderInv
    <3>2. QED
      BY <1>1, <1>7, <3>1
  <2>4. launch' = NoLaunch \/ launch' = launch
    BY <1>1
  <2>5. QED
    BY <1>1, <2>1, <2>2, <2>3, <2>4 DEF OrderInv
<1>9. OnceInv'
  <2>1. loop = "up" /\ (told = "stop" \/ Alive(check[launch])) => gameCheckID = launch
    BY <1>1, <1>2, <1>3 DEF OnceInv
  <2>2. launch' = NoLaunch \/ launch' = launch
    BY <1>1
  <2>3. QED
    BY <1>1, <1>2, <1>7, <2>1, <2>2 DEF OnceInv
<1>10. RunInv'
  <2>1. Handled(launch, m) = launch'
    BY <1>4 DEF Handled
  <2>2. Handled(NoLaunch, m) = NoLaunch
    BY <1>3, <1>4 DEF Handled
  <2>3. CASE linked /\ loop = "up"
    <3>1. QueueLeads(pending', wire', gameState, launch')
      BY <1>2, <1>6, <2>1, <2>3 DEF RunInv
    <3>2. QED
      BY <1>1, <2>3, <3>1 DEF RunInv
  <2>4. CASE linked /\ loop = "asked"
    <3>1. PICK h \in {launch, NoLaunch} :
               /\ QueueLeads(pending, wire, NoLaunch, h)
               /\ In(wire, Message("state", NoLaunch)) => h = launch
      BY <1>2, <2>4 DEF RunInv
    <3>2. QueueLeads(pending', wire', NoLaunch, Handled(h, m))
      BY <1>6, <2>4, <3>1
    <3>3. Message("state", NoLaunch) \in StateAnswer
      BY MessageIs DEF MaybeLaunch
    <3>4. In(wire', Message("state", NoLaunch)) => Handled(h, m) = launch'
      BY <1>7, <2>1, <3>1, <3>3
    <3>5. Handled(h, m) \in {launch', NoLaunch}
      BY <2>1, <2>2, <3>1
    <3>6. QED
      BY <1>1, <2>4, <3>2, <3>4, <3>5 DEF RunInv
  <2>5. QED
    BY <1>1, <2>3, <2>4 DEF RunInv
<1>11. QED
    BY <1>5, <1>8, <1>9, <1>10 DEF IInv

LEMMA AnswerStateStep ==
    ASSUME IInv, AnswerState
    PROVE  IInv'
<1> DEFINE m == Message("state", launch)
<1>1. /\ loop = "asked" /\ linked /\ wire' = Sent(m) /\ pending' = pending
      /\ UNCHANGED <<launch, phase, begun, told, linked, drops, loop, gameState, gameCheckID, cancelSet, check>>
    BY DEF AnswerState, Sent, jawaka
<1>2. TypeOK /\ BegunInv /\ OrderInv /\ OnceInv /\ RunInv
    BY DEF IInv
<1>3. /\ m \in Messages /\ m \in StateAnswer /\ m.name = "state" /\ m.launch = launch
      /\ \A e \in Event : e # m
    BY BegunLaunch, MessageIs DEF Messages
<1>4. m = Message("state", NoLaunch) => launch = NoLaunch
    BY <1>3, MessageIs DEF MaybeLaunch
<1> HIDE DEF m
<1>5. /\ wire' \in Seq(Messages) /\ pending' \in Seq(Event)
      /\ \A a : In(wire', a) => In(wire, a) \/ a = m
      /\ \A a : Waits(pending', wire', a) => Waits(pending, wire, a) \/ a = m
      /\ \A a, b : Precedes(pending', wire', a, b) =>
           Waits(pending, wire, a) /\ (Precedes(pending, wire, a, b) \/ b = m)
      /\ \A g, h : QueueLeads(pending, wire, g, h) =>
                     QueueLeads(pending', wire', g, Handled(h, m))
    BY <1>1, <1>2, <1>3, SentIs
<1>6. TypeOK'
    BY <1>1, <1>2, <1>5 DEF TypeOK, Messages
<1>7. GoroutineInv' /\ StopOnlyWhenCurrent'
    BY <1>1 DEF IInv, GoroutineInv, OneLiveCheck, StopOnlyWhenCurrent
<1>8. /\ \A e \in Event : Waits(pending', wire', e) => Waits(pending, wire, e)
      /\ \A a : \A e \in Event : Precedes(pending', wire', a, e) => Precedes(pending, wire, a, e)
    BY <1>3, <1>5
<1>9. BegunInv'
    BY <1>1, <1>2, <1>8 DEF BegunInv
<1>10. OrderInv'
  <2>1. /\ launch # NoLaunch => ~Waits(pending', wire', AbortOf(launch))
        /\ phase = "checking" => ~Waits(pending', wire', CancelOf(launch))
    BY <1>2, <1>8, BegunLaunch, MessageIs DEF OrderInv, BegunInv
  <2>2. \A k \in Launches : ~Precedes(pending', wire', CancelOf(k), CheckOf(k))
    BY <1>2, <1>8, MessageIs DEF OrderInv
  <2>3. ASSUME launch # NoLaunch, NEW k \in Launches, k # launch
        PROVE  /\ ~Precedes(pending', wire', CheckOf(launch), CheckOf(k))
               /\ ~(gameCheckID' = launch /\ Waits(pending', wire', CheckOf(k)))
    <3>1. /\ ~Precedes(pending, wire, CheckOf(launch), CheckOf(k))
          /\ ~(gameCheckID = launch /\ Waits(pending, wire, CheckOf(k)))
      BY <1>2, <2>3 DEF OrderInv
    <3>2. QED
      BY <1>1, <1>8, <3>1, MessageIs
  <2>4. QED
    BY <1>1, <2>1, <2>2, <2>3 DEF OrderInv
<1>11. OnceInv'
    BY <1>1, <1>2, <1>3, <1>5 DEF OnceInv
<1>12. RunInv'
  <2>1. PICK h \in {launch, NoLaunch} : QueueLeads(pending, wire, NoLaunch, h)
                                        /\ (In(wire, Message("state", NoLaunch)) => h = launch)
    BY <1>1, <1>2 DEF RunInv
  <2>2. Handled(h, m) = h
    BY <1>3 DEF Handled
  <2>3. QueueLeads(pending', wire', NoLaunch, h)
    BY <1>5, <2>1, <2>2
  <2>4. In(wire', Message("state", NoLaunch)) => h = launch
    BY <1>4, <1>5, <2>1
  <2>5. QED
    BY <1>1, <2>1, <2>3, <2>4 DEF RunInv
<1>13. QED
    BY <1>6, <1>7, <1>9, <1>10, <1>11, <1>12 DEF IInv

LEMMA DropStep ==
    ASSUME IInv, Drop
    PROVE  IInv'
<1>1. /\ ~linked' /\ drops' = drops + 1 /\ drops < MaxDrops
      /\ UNCHANGED <<launch, phase, begun, told, wire, loop, pending, gameState, gameCheckID, cancelSet, check>>
    BY DEF Drop, jawaka
<1>2. TypeOK'
  <2>1. drops' \in 0..MaxDrops
    BY <1>1, GameCheckAssumption DEF IInv, TypeOK
  <2>2. linked' \in BOOLEAN
    BY DEF Drop
  <2>3. QED
    BY <1>1, <2>1, <2>2 DEF IInv, TypeOK
<1>3. GoroutineInv' /\ StopOnlyWhenCurrent'
    BY <1>1 DEF IInv, GoroutineInv, OneLiveCheck, StopOnlyWhenCurrent
<1>4. BegunInv' /\ OrderInv'
    BY <1>1, FewerIs DEF IInv, BegunInv, Fewer, jawaka
<1>5. OnceInv'
    BY <1>1 DEF IInv, OnceInv
<1>6. RunInv'
    BY <1>1 DEF RunInv
<1>7. QED
    BY <1>2, <1>3, <1>4, <1>5, <1>6 DEF IInv

-----------------------------------------------------------------------------
(* Connect and readResponse.                                                *)

\* A connection begins, or does not come about: nothing waits.
LEMMA EmptyStep ==
    ASSUME IInv, Dial \/ HandshakeFails
    PROVE  IInv'
<1>1. /\ wire' = <<>> /\ pending' = <<>> /\ loop \in {"dialing", "asked"}
      /\ \/ loop' = "asked" /\ linked' = TRUE /\ loop = "dialing"
         \/ loop' = "dialing" /\ linked' = FALSE
      /\ drops' = drops \/ (drops < MaxDrops /\ drops' = drops + 1)
      /\ UNCHANGED <<launch, phase, begun, told, gameState, gameCheckID, cancelSet, check>>
    BY DEF Dial, HandshakeFails, jawaka
<1>2. TypeOK'
  <2>1. wire' \in Seq(Event \cup StateAnswer) /\ pending' \in Seq(Event)
    BY <1>1
  <2>2. drops' \in 0..MaxDrops
    BY <1>1, GameCheckAssumption DEF IInv, TypeOK
  <2>3. loop' \in {"dialing", "asked", "up", "stopped"} /\ linked' \in BOOLEAN
    BY <1>1
  <2>4. QED
    BY <1>1, <2>1, <2>2, <2>3 DEF IInv, TypeOK
<1>3. GoroutineInv' /\ StopOnlyWhenCurrent'
    BY <1>1 DEF IInv, GoroutineInv, OneLiveCheck, StopOnlyWhenCurrent
<1>4. BegunInv' /\ OrderInv'
  <2>1. Fewer(pending, wire, pending', wire')
    BY <1>1, EmptyIsFewer
  <2>2. QED
    BY <1>1, <2>1, FewerIs DEF IInv, BegunInv, jawaka
<1>5. OnceInv'
    BY <1>1, NothingIn DEF IInv, OnceInv
<1>6. RunInv'
  <2>1. NoLaunch \in MaybeLaunch
    BY DEF MaybeLaunch
  <2>2. QueueLeads(<<>>, <<>>, NoLaunch, NoLaunch)
    BY <2>1, LeadsNowhere DEF QueueLeads
  <2>3. QED
    BY <1>1, <2>2, NothingIn DEF RunInv
<1>7. QED
    BY <1>2, <1>3, <1>4, <1>5, <1>6 DEF IInv

LEMMA QueueEventStep ==
    ASSUME IInv, QueueEvent
    PROVE  IInv'
<1>1. /\ loop = "asked" /\ wire # <<>> /\ Head(wire).name # "state"
      /\ pending' = Append(pending, Head(wire)) /\ wire' = Tail(wire)
      /\ UNCHANGED <<launch, phase, begun, told, linked, drops, loop, gameState, gameCheckID, cancelSet, check>>
    BY DEF QueueEvent, jawaka
<1>2. /\ pending \in Seq(Messages) /\ wire \in Seq(Messages) /\ pending \in Seq(Event)
      /\ OnceInv /\ RunInv
    BY QueueTypes DEF IInv, TypeOK
<1>3. Head(wire) \in Event /\ Tail(wire) \in Seq(Messages) /\ \A a : In(Tail(wire), a) => In(wire, a)
    BY <1>1, <1>2, TailIn, MessageIs
<1>4. TypeOK'
  <2>1. pending' \in Seq(Event)
    BY <1>1, <1>2, <1>3, AppendProperties
  <2>2. QED
    BY <1>1, <1>3, <2>1 DEF IInv, TypeOK, Messages
<1>5. GoroutineInv' /\ StopOnlyWhenCurrent'
    BY <1>1 DEF IInv, GoroutineInv, OneLiveCheck, StopOnlyWhenCurrent
<1>6. BegunInv' /\ OrderInv'
  <2>1. Fewer(pending, wire, pending', wire')
    BY <1>1, <1>2, ReadIsFewer
  <2>2. QED
    BY <1>1, <2>1, FewerIs DEF IInv, BegunInv, jawaka
<1>7. OnceInv'
    BY <1>1, <1>2, <1>3 DEF OnceInv
<1>8. RunInv'
  <2>1. \A h : QueueLeads(pending, wire, NoLaunch, h) => QueueLeads(pending', wire', NoLaunch, h)
    BY <1>1, <1>2, QueueLeadsAside
  <2>2. \A a : In(wire', a) => In(wire, a)
    BY <1>1, <1>3
  <2>3. QED
    BY <1>1, <1>2, <2>1, <2>2 DEF RunInv
<1>9. QED
    BY <1>4, <1>5, <1>6, <1>7, <1>8 DEF IInv

LEMMA StoppedStep ==
    ASSUME IInv, Stopped, UNCHANGED jawaka, UNCHANGED <<told, drops, gameState>>
    PROVE  IInv'
<1>1. /\ loop' = "stopped" /\ linked' = FALSE /\ wire' = <<>> /\ pending' = <<>>
      /\ gameCheckID' = NoLaunch /\ cancelSet' = FALSE
      /\ check' = [l \in Launches |-> Unstarted]
      /\ UNCHANGED <<launch, phase, begun, told, drops, gameState>>
    BY DEF Stopped, jawaka
<1>2. check' \in [Launches -> Check] /\ \A l \in Launches : check'[l].pc = "none"
    BY <1>1, UnstartedIs
<1>3. TypeOK'
  <2>1. wire' \in Seq(Event \cup StateAnswer) /\ pending' \in Seq(Event)
    BY <1>1
  <2>2. QED
    BY <1>1, <1>2, <2>1 DEF IInv, TypeOK, MaybeLaunch
<1>4. GoroutineInv'
    BY <1>1, <1>2 DEF GoroutineInv, OneLiveCheck
<1>5. BegunInv' /\ OrderInv'
  <2>1. Fewer(pending, wire, pending', wire')
    BY <1>1, EmptyIsFewer
  <2>2. QED
    BY <1>1, <1>2, <2>1, FewerIs
<1>6. StopOnlyWhenCurrent' /\ OnceInv' /\ RunInv'
    BY <1>1 DEF StopOnlyWhenCurrent, OnceInv, RunInv
<1>7. QED
    BY <1>3, <1>4, <1>5, <1>6 DEF IInv

\* The snapshot says that no game runs: who was told to stop would be running one.
LEMMA ReadStateStep ==
    ASSUME IInv, ReadState
    PROVE  IInv'
<1>1. CASE Head(wire).launch # NoLaunch
    BY <1>1, StoppedStep DEF ReadState
<1>2. CASE Head(wire).launch = NoLaunch
  <2>1. /\ loop = "asked" /\ wire # <<>> /\ Head(wire).name = "state" /\ Head(wire).launch = NoLaunch
        /\ loop' = "up" /\ gameState' = NoLaunch /\ wire' = Tail(wire)
        /\ UNCHANGED <<launch, phase, begun, told, linked, drops, pending, gameCheckID, cancelSet, check>>
    BY <1>2 DEF ReadState, jawaka
  <2>2. /\ pending \in Seq(Messages) /\ wire \in Seq(Messages)
        /\ OnceInv /\ RunInv
    BY QueueTypes DEF IInv
  <2>3. /\ Head(wire) \in StateAnswer /\ Head(wire) = Message("state", NoLaunch)
        /\ In(wire, Head(wire)) /\ Tail(wire) \in Seq(Messages)
    BY <2>1, <2>2, TailIn, MessageIs
  <2>4. TypeOK'
    BY <2>1, <2>3 DEF IInv, TypeOK, Messages, MaybeLaunch
  <2>5. GoroutineInv' /\ StopOnlyWhenCurrent'
    BY <2>1 DEF IInv, GoroutineInv, OneLiveCheck, StopOnlyWhenCurrent
  <2>6. BegunInv' /\ OrderInv'
    <3>1. Fewer(pending, wire, pending', wire')
      BY <2>1, <2>2, ReadIsFewer
    <3>2. QED
      BY <2>1, <3>1, FewerIs DEF IInv, BegunInv, jawaka
  <2>7. OnceInv'
    <3>1. launch # NoLaunch => told # "stop" /\ ~Alive(check[launch])
      BY <2>1, <2>2, <2>3, BegunLaunch DEF OnceInv
    <3>2. QED
      BY <2>1, <3>1 DEF OnceInv
  <2>8. RunInv'
    <3>1. linked => QueueLeads(pending, wire, NoLaunch, launch)
      BY <2>1, <2>2, <2>3 DEF RunInv
    <3>2. linked => QueueLeads(pending, Tail(wire), NoLaunch, launch)
      BY <2>1, <2>2, <3>1, QueueLeadsPastState
    <3>3. QED
      BY <2>1, <3>2 DEF RunInv
  <2>9. QED
    BY <2>4, <2>5, <2>6, <2>7, <2>8 DEF IInv
<1>3. QED
    BY <1>1, <1>2

-----------------------------------------------------------------------------
(* The run loop.                                                            *)

\* A check of another launch than the last one is taken.  If it is the launch in
\* progress, nothing of another waits behind it; if it is not, the run loop did not
\* hold on to the launch in progress, which is therefore not checked again.
LEMMA NewCheckIs ==
    ASSUME IInv, Take("game.check"), Next1.launch # gameCheckID,
           gameCheckID' = Next1.launch, gameState' = Reconciled(Next1),
           UNCHANGED <<launch, phase, begun, linked, loop>>,
           told' = "stop" => told = "stop",
           \A k \in Launches : check'[k].pc # "none" => k \in begun,
           \A k \in Launches : k # Next1.launch /\ Alive(check'[k]) => Alive(check[k])
    PROVE  BegunInv' /\ OrderInv' /\ OnceInv' /\ RunInv'
           /\ (launch # NoLaunch /\ told = "stop" => Next1.launch # launch)
<1> DEFINE l == Next1.launch
<1>1. TypeOK /\ BegunInv /\ OrderInv /\ OnceInv /\ RunInv
    BY DEF IInv
<1>2. /\ loop = "up" /\ Next1 = CheckOf(l) /\ l \in Launches /\ Next1 \in Event
      /\ Waits(pending, wire, CheckOf(l)) /\ Fewer(pending, wire, pending', wire')
      /\ \A a : Waits(pending', wire', a) => Precedes(pending, wire, CheckOf(l), a)
      /\ \A h : QueueLeads(pending, wire, gameState, h) => QueueLeads(pending', wire', gameState', h)
  <2>1. /\ loop = "up" /\ Next1 \in Event /\ Next1.name = "game.check" /\ l \in Launches
        /\ Waits(pending, wire, Next1) /\ Fewer(pending, wire, pending', wire')
        /\ \A a : Waits(pending', wire', a) => Precedes(pending, wire, Next1, a)
        /\ \A h : QueueLeads(pending, wire, gameState, h) =>
                    QueueLeads(pending', wire', Reconciled(Next1), h)
    BY <1>1, TakeIs
  <2>2. Next1 = CheckOf(l)
    BY <2>1, MessageIs
  <2>3. QED
    BY <2>1, <2>2
<1> HIDE DEF l
<1>3. /\ \A a : Waits(pending', wire', a) => Waits(pending, wire, a)
      /\ \A a, b : Precedes(pending', wire', a, b) => Precedes(pending, wire, a, b)
    BY <1>2 DEF Fewer
<1>4. l \in begun /\ gameCheckID' = l /\ gameCheckID # l
    BY <1>1, <1>2 DEF BegunInv, l
<1>5. BegunInv'
    BY <1>1, <1>3, <1>4 DEF BegunInv
<1>6. OrderInv'
  <2>1. /\ launch # NoLaunch => ~Waits(pending', wire', AbortOf(launch))
        /\ phase = "checking" => ~Waits(pending', wire', CancelOf(launch))
        /\ \A k \in Launches : ~Precedes(pending', wire', CancelOf(k), CheckOf(k))
    BY <1>1, <1>3 DEF OrderInv
  <2>2. ASSUME launch # NoLaunch, NEW k \in Launches, k # launch
        PROVE  /\ ~Precedes(pending', wire', CheckOf(launch), CheckOf(k))
               /\ ~(gameCheckID' = launch /\ Waits(pending', wire', CheckOf(k)))
    <3>1. ~Precedes(pending, wire, CheckOf(launch), CheckOf(k))
      BY <1>1, <2>2 DEF OrderInv
    <3>2. QED
      BY <1>2, <1>3, <1>4, <3>1
  <2>3. QED
    BY <2>1, <2>2 DEF OrderInv
<1>7. ASSUME launch # NoLaunch, told = "stop" \/ Alive(check[launch])
      PROVE  l # launch /\ phase # "checking" /\ ~Waits(pending, wire, CheckOf(launch))
  <2>1. gameCheckID = launch => l = launch
    BY <1>1, <1>2, <1>7 DEF OrderInv
  <2>2. QED
    BY <1>1, <1>2, <1>4, <1>7, <2>1 DEF OnceInv
<1>8. OnceInv'
  <2> SUFFICES ASSUME launch # NoLaunch, l # launch, told' = "stop" \/ Alive(check'[launch])
               PROVE  phase # "checking" /\ ~Waits(pending', wire', CheckOf(launch))
    BY <1>2, <1>4 DEF OnceInv
  <2>1. launch \in Launches
    BY BegunLaunch
  <2>2. told = "stop" \/ Alive(check[launch])
    BY <2>1 DEF l
  <2>3. QED
    BY <1>3, <1>7, <2>2
<1>9. RunInv'
    BY <1>1, <1>2 DEF RunInv
<1>10. QED
    BY <1>5, <1>6, <1>7, <1>8, <1>9 DEF l

LEMMA StartCheckStep ==
    ASSUME IInv, StartCheck
    PROVE  IInv'
<1> DEFINE l == Next1.launch
<1>1. PICK c \in {Fresh(S) : S \in Selections} \cup {Sending(Fresh({}), "error", 0)} :
           check' = [Cancelled EXCEPT ![l] = c]
    BY DEF StartCheck
<1>2. /\ Take("game.check") /\ l # gameCheckID /\ gameCheckID' = l /\ cancelSet' = TRUE
      /\ gameState' = Reconciled(Next1)
      /\ UNCHANGED <<launch, phase, begun, told, linked, drops, loop>>
    BY DEF StartCheck, jawaka
<1>3. /\ c \in Check /\ c.pc \in {"probe", "send"} /\ ~c.stale /\ c.elapsed = 0
      /\ c.pc = "send" => c.reply = "error"
  <2>1. CASE c = Sending(Fresh({}), "error", 0)
    <3>1. "error" \in Replies /\ {} \in SUBSET Folders
      BY DEF Replies
    <3>2. QED
      BY <2>1, <3>1, FreshIs, SendingIs
  <2>2. CASE c \in {Fresh(S) : S \in Selections}
    BY <2>2, FreshIs DEF Selections
  <2>3. QED
    BY <2>1, <2>2
<1>4. /\ loop = "up" /\ l \in Launches
      /\ wire' \in Seq(Messages) /\ pending' \in Seq(Event) /\ Waits(pending, wire, Next1)
      /\ Next1 \in Event /\ Reconciled(Next1) \in MaybeLaunch
    BY <1>2, TakeIs DEF IInv
<1> HIDE DEF l
<1>5. /\ Cancelled \in [Launches -> Check]
      /\ \A k \in Launches : Calm(check[k], Cancelled[k]) /\ (Cancelled[k].pc # "none" => k \in begun)
    BY CancelledIs
<1>6. /\ check' \in [Launches -> Check] /\ check'[l] = c
      /\ \A k \in Launches : k # l => check'[k] = Cancelled[k]
    BY <1>1, <1>3, <1>4, <1>5
<1>7. TypeOK'
    BY <1>2, <1>4, <1>6, MessageIs DEF IInv, TypeOK, Messages, MaybeLaunch
<1>8. GoroutineInv'
  <2>1. ASSUME NEW k \in Launches
        PROVE  /\ check'[k].pc = "probe" => k = l /\ ~check'[k].stale
               /\ check'[k].pc = "send" /\ ~check'[k].cancelled => k = l
               /\ check'[k].pc = "send" /\ check'[k].reply = "stop" => check'[k].current
               /\ check'[k].pc \in {"probe", "send"} /\ check'[k].last = 0 =>
                    check'[k].elapsed <= FirstReplyBudget
    <3>1. CASE k = l
      BY <1>3, <1>6, <3>1, BudgetIs
    <3>2. CASE k # l
      BY <1>5, <1>6, <3>2 DEF Calm, IInv, GoroutineInv
    <3>3. QED
      BY <3>1, <3>2
  <2>2. OneLiveCheck'
    BY <1>2, <2>1 DEF OneLiveCheck
  <2>3. QED
    BY <1>2, <1>4, <2>1, <2>2 DEF GoroutineInv
<1>9. l \in begun
    BY <1>4 DEF IInv, BegunInv, l
<1>10. \A k \in Launches : check'[k].pc # "none" => k \in begun
    BY <1>5, <1>6, <1>9
<1>11. \A k \in Launches : k # l /\ Alive(check'[k]) => Alive(check[k])
    BY <1>5, <1>6, CheckFields DEF Alive, Calm, IInv, TypeOK
<1>12. /\ BegunInv' /\ OrderInv' /\ OnceInv' /\ RunInv'
       /\ launch # NoLaunch /\ told = "stop" => l # launch
    BY <1>2, <1>10, <1>11, NewCheckIs DEF l
<1>13. StopOnlyWhenCurrent'
  <2>1. launch # NoLaunch /\ told = "stop" => check'[launch].current = check[launch].current
    BY <1>5, <1>6, <1>12, BegunLaunch DEF Calm
  <2>2. QED
    BY <1>2, <2>1 DEF IInv, StopOnlyWhenCurrent
<1>14. QED
    BY <1>7, <1>8, <1>12, <1>13 DEF IInv

LEMMA RejectCheckStep ==
    ASSUME IInv, RejectCheck
    PROVE  IInv'
<1>1. /\ Take("game.check") /\ Next1.launch # gameCheckID /\ gameCheckID' = Next1.launch
      /\ cancelSet' = FALSE /\ check' = Cancelled /\ gameState' = Reconciled(Next1)
      /\ told' \in {told, "error"}
      /\ UNCHANGED <<launch, phase, begun, linked, drops, loop>>
    BY DEF RejectCheck, Heard, jawaka
<1>2. /\ loop = "up" /\ Next1.launch \in Launches
      /\ wire' \in Seq(Messages) /\ pending' \in Seq(Event) /\ Reconciled(Next1) \in MaybeLaunch
    BY <1>1, TakeIs DEF IInv
<1>3. /\ check' \in [Launches -> Check]
      /\ \A k \in Launches : Calm(check[k], check'[k]) /\ (check'[k].pc # "none" => k \in begun)
    BY <1>1, CancelledIs
<1>4. TypeOK'
    BY <1>1, <1>2, <1>3 DEF IInv, TypeOK, Messages, MaybeLaunch, Replies
<1>5. /\ GoroutineInv' /\ StopOnlyWhenCurrent'
      /\ \A k \in Launches : Alive(check'[k]) => Alive(check[k])
    BY <1>1, <1>2, <1>3, CalmChecks
<1>6. BegunInv' /\ OrderInv' /\ OnceInv' /\ RunInv'
    BY <1>1, <1>3, <1>5, NewCheckIs
<1>7. QED
    BY <1>4, <1>5, <1>6 DEF IInv

LEMMA RepeatedCheckStep ==
    ASSUME IInv, RepeatedCheck
    PROVE  IInv'
<1>1. /\ Take("game.check") /\ gameState' = Reconciled(Next1)
      /\ UNCHANGED <<launch, phase, begun, told, linked, drops, loop, gameCheckID, cancelSet, check>>
    BY DEF RepeatedCheck, jawaka
<1>2. /\ loop = "up"
      /\ wire' \in Seq(Messages) /\ pending' \in Seq(Event) /\ Reconciled(Next1) \in MaybeLaunch
      /\ Fewer(pending, wire, pending', wire')
      /\ \A h : QueueLeads(pending, wire, gameState, h) => QueueLeads(pending', wire', gameState', h)
    BY <1>1, TakeIs DEF IInv
<1>3. TypeOK'
    BY <1>1, <1>2 DEF IInv, TypeOK, Messages
<1>4. GoroutineInv' /\ StopOnlyWhenCurrent'
    BY <1>1 DEF IInv, GoroutineInv, OneLiveCheck, StopOnlyWhenCurrent
<1>5. BegunInv' /\ OrderInv'
    BY <1>1, <1>2, FewerIs DEF IInv, BegunInv, jawaka
<1>6. OnceInv'
    BY <1>1, <1>2 DEF IInv, OnceInv, Fewer
<1>7. RunInv'
    BY <1>1, <1>2 DEF IInv, RunInv
<1>8. QED
    BY <1>3, <1>4, <1>5, <1>6, <1>7 DEF IInv

\* The end of a launch is read: it is not in progress any more, or goes on without
\* the check, and no check of it follows.
LEMMA EndCheckStep ==
    ASSUME IInv, EndCheck
    PROVE  IInv'
<1> DEFINE l == Next1.launch
<1>1. PICK name \in {"game.cancel", "game.abort"} : Take(name)
    BY DEF EndCheck
<1>2. /\ gameState' = Reconciled(Next1)
      /\ UNCHANGED <<launch, phase, begun, told, linked, drops, loop>>
      /\ \/ l = gameCheckID /\ check' = Cancelled /\ cancelSet' = FALSE /\ gameCheckID' = NoLaunch
         \/ l # gameCheckID /\ UNCHANGED <<check, cancelSet, gameCheckID>>
    BY DEF EndCheck, jawaka
<1>3. /\ loop = "up" /\ l \in Launches /\ Next1 \in Event /\ Next1.name = name
      /\ wire' \in Seq(Messages) /\ pending' \in Seq(Event) /\ Reconciled(Next1) \in MaybeLaunch
      /\ Waits(pending, wire, Next1) /\ Fewer(pending, wire, pending', wire')
      /\ \A a : Waits(pending', wire', a) => Precedes(pending, wire, Next1, a)
      /\ \A h : QueueLeads(pending, wire, gameState, h) => QueueLeads(pending', wire', gameState', h)
    BY <1>1, <1>2, TakeIs DEF IInv
<1>4. Next1 = CancelOf(l) \/ Next1 = AbortOf(l)
    BY <1>3, MessageIs
<1> HIDE DEF l
<1>5. TypeOK /\ BegunInv /\ OrderInv /\ OnceInv /\ RunInv
    BY DEF IInv
<1>6. /\ check' \in [Launches -> Check]
      /\ \A k \in Launches : /\ check'[k].pc # "none" => k \in begun
                             /\ Alive(check'[k]) => Alive(check[k])
      /\ GoroutineInv' /\ StopOnlyWhenCurrent'
  <2>1. CASE check' = Cancelled
    <3>1. /\ check' \in [Launches -> Check]
          /\ \A k \in Launches : Calm(check[k], check'[k]) /\ (check'[k].pc # "none" => k \in begun)
      BY <2>1, CancelledIs
    <3>2. QED
      BY <1>2, <1>3, <3>1, CalmChecks
  <2>2. CASE UNCHANGED <<check, cancelSet, gameCheckID>>
    <3>1. GoroutineInv' /\ StopOnlyWhenCurrent'
      BY <1>2, <2>2 DEF IInv, GoroutineInv, OneLiveCheck, StopOnlyWhenCurrent
    <3>2. QED
      BY <1>5, <2>2, <3>1 DEF TypeOK, BegunInv
  <2>3. QED
    BY <1>2, <2>1, <2>2
<1>7. TypeOK'
  <2>1. /\ gameCheckID' \in MaybeLaunch /\ cancelSet' \in BOOLEAN
        /\ cancelSet' => gameCheckID' # NoLaunch
    <3>1. CASE cancelSet' = FALSE /\ gameCheckID' = NoLaunch
      BY <3>1 DEF MaybeLaunch
    <3>2. CASE UNCHANGED <<cancelSet, gameCheckID>>
      BY <1>5, <3>2 DEF TypeOK
    <3>3. QED
      BY <1>2, <3>1, <3>2
  <2>2. gameState' \in MaybeLaunch /\ wire' \in Seq(Event \cup StateAnswer)
    BY <1>2, <1>3 DEF Messages
  <2>3. QED
    BY <1>2, <1>3, <1>5, <1>6, <2>1, <2>2 DEF TypeOK
<1>8. BegunInv' /\ OrderInv'
    BY <1>2, <1>3, <1>6, FewerIs DEF jawaka
<1>9. OnceInv'
  <2> SUFFICES ASSUME launch # NoLaunch, told = "stop" \/ Alive(check'[launch])
               PROVE  \/ gameCheckID' = launch
                      \/ phase # "checking" /\ ~Waits(pending', wire', CheckOf(launch))
    BY <1>2, <1>3 DEF OnceInv
  <2>1. told = "stop" \/ Alive(check[launch])
    BY <1>6, BegunLaunch
  <2>2. CASE gameCheckID = launch /\ l = launch
    <3>1. Next1 = CancelOf(launch)
      BY <1>3, <1>4, <1>5, <2>2 DEF OrderInv
    <3>2. phase # "checking"
      BY <1>3, <1>5, <3>1 DEF OrderInv
    <3>3. ~Precedes(pending, wire, CancelOf(launch), CheckOf(launch))
      BY <1>5, BegunLaunch DEF OrderInv
    <3>4. QED
      BY <1>3, <3>1, <3>2, <3>3
  <2>3. CASE gameCheckID = launch /\ l # launch
    BY <1>2, <2>3
  <2>4. CASE gameCheckID # launch
    <3>1. phase # "checking" /\ ~Waits(pending, wire, CheckOf(launch))
      BY <1>3, <1>5, <2>1, <2>4 DEF OnceInv
    <3>2. QED
      BY <1>3, <3>1 DEF Fewer
  <2>5. QED
    BY <2>2, <2>3, <2>4
<1>10. RunInv'
    BY <1>2, <1>3, <1>5 DEF RunInv
<1>11. QED
    BY <1>6, <1>7, <1>8, <1>9, <1>10 DEF IInv

LEMMA LifecycleLostStep ==
    ASSUME IInv, LifecycleLost
    PROVE  IInv'
<1>1. /\ loop = "up" /\ ~linked /\ loop' = "dialing" /\ cancelSet' = FALSE
      /\ gameCheckID' \in {gameCheckID, NoLaunch}
      /\ check' = [l \in Launches |-> [Cancelled[l] EXCEPT !.stale = @ \/ Cancelled[l].pc = "send"]]
      /\ UNCHANGED <<launch, phase, begun, told, linked, wire, drops, pending, gameState>>
    BY DEF LifecycleLost, jawaka
<1>2. ASSUME NEW l \in Launches
      PROVE  /\ check'[l] \in Check /\ Calm(check[l], check'[l]) /\ ~Alive(check'[l])
             /\ check'[l].pc # "none" => l \in begun
  <2> DEFINE c == Cancelled[l]
             d == [c EXCEPT !.stale = @ \/ c.pc = "send"]
  <2>1. c \in Check /\ Calm(check[l], c) /\ (c.pc # "none" => l \in begun)
    BY CancelledIs
  <2>2. check'[l] = d
    BY <1>1
  <2> HIDE DEF c
  <2>3. /\ d \in Check /\ d.pc = c.pc /\ d.cancelled = c.cancelled /\ d.reply = c.reply
        /\ d.elapsed = c.elapsed /\ d.last = c.last /\ d.current = c.current
    BY <2>1 DEF Check
  <2>4. d.pc = "send" => d.stale
    BY <2>1 DEF Check
  <2> HIDE DEF d
  <2>5. Calm(check[l], d)
    BY <2>1, <2>3, <2>4 DEF Calm
  <2>6. ~Alive(d)
    BY <2>1, <2>3, <2>4 DEF Alive, Calm
  <2>7. QED
    BY <2>1, <2>2, <2>3, <2>5, <2>6
<1>3. check' \in [Launches -> Check]
  <2>1. check' = [l \in Launches |-> check'[l]]
    BY <1>1
  <2>2. QED
    BY <1>2, <2>1
<1>4. TypeOK'
    BY <1>1, <1>3 DEF IInv, TypeOK, MaybeLaunch
<1>5. GoroutineInv' /\ StopOnlyWhenCurrent'
    BY <1>1, <1>2, <1>3, CalmChecks
<1>6. BegunInv' /\ OrderInv'
    BY <1>1, <1>2, FewerIs DEF Fewer, jawaka
<1>7. OnceInv' /\ RunInv'
    BY <1>1, <1>2 DEF OnceInv, RunInv
<1>8. QED
    BY <1>4, <1>5, <1>6, <1>7 DEF IInv

-----------------------------------------------------------------------------
(* runGameCheck.                                                            *)

LEMMA ProbeStep ==
    ASSUME IInv, NEW l \in Launches, Probe(l)
    PROVE  IInv'
<1> DEFINE c == check[l]
<1>1. /\ c.pc = "probe"
      /\ UNCHANGED <<launch, phase, begun, told, linked, wire, drops, loop, pending,
                     gameState, gameCheckID, cancelSet>>
    BY DEF Probe, jawaka
<1>2. TypeOK /\ GoroutineInv /\ BegunInv /\ OrderInv /\ OnceInv /\ RunInv /\ StopOnlyWhenCurrent
    BY DEF IInv
<1>3. c \in Check /\ check \in [Launches -> Check]
    BY <1>2 DEF TypeOK
<1>4. /\ l = gameCheckID /\ cancelSet /\ ~c.stale /\ Alive(c) /\ l \in begun
      /\ c.last = 0 => c.elapsed <= FirstReplyBudget
    BY <1>1, <1>2 DEF GoroutineInv, OneLiveCheck, BegunInv, Alive
<1>5. loop = "up"
  <2>1. loop # "stopped"
    BY <1>1, <1>2, UnstartedIs DEF GoroutineInv
  <2>2. loop \notin {"dialing", "asked"}
    BY <1>2, <1>4 DEF OnceInv
  <2>3. QED
    BY <1>2, <2>1, <2>2 DEF TypeOK
<1>6. PICK n : check' = [check EXCEPT ![l] = n] /\ Progress(c, n)
  <2>1. CASE c.last > 0
    <3>1. PICK n \in LaterRead(c) : check' = [check EXCEPT ![l] = n]
      BY <2>1 DEF Probe
    <3>2. QED
      BY <1>1, <1>3, <2>1, <3>1, LaterReadIs
  <2>2. CASE ~(c.last > 0) /\ Remaining(c) <= 0
    <3>1. check' = [check EXCEPT ![l] = Sending(c, "error", 0)]
      BY <2>2 DEF Probe
    <3>2. "error" \in Replies /\ 0 \in Nat
      BY DEF Replies
    <3>3. Progress(c, Sending(c, "error", 0))
      BY <1>3, <1>4, <3>2, SendingIsProgress
    <3>4. QED
      BY <3>1, <3>3
  <2>3. CASE ~(c.last > 0) /\ ~(Remaining(c) <= 0)
    <3>1. PICK d \in 0..ReadTimeout(c) : \E n \in FirstRead(c, d) : check' = [check EXCEPT ![l] = n]
      BY <2>3 DEF Probe
    <3>2. PICK n \in FirstRead(c, d) : check' = [check EXCEPT ![l] = n]
      BY <3>1
    <3>3. c.last \in Nat /\ c.elapsed \in Nat
      BY <1>3, CheckFields
    <3>4. Remaining(c) > 0 /\ c.elapsed <= FirstReplyBudget
      BY <1>4, <2>3, <3>3, BudgetIs DEF Remaining
    <3>5. Progress(c, n)
      BY <1>1, <1>3, <3>4, FirstReadIs
    <3>6. QED
      BY <3>2, <3>5
  <2>4. QED
    BY <2>1, <2>2, <2>3
<1> HIDE DEF c
<1>7. /\ n \in Check /\ n.pc \in {"probe", "send"} /\ n.stale = c.stale
      /\ c.current => n.current
      /\ n.pc = "send" /\ n.reply = "stop" => n.current
      /\ n.last = 0 => n.elapsed <= FirstReplyBudget
    BY <1>6 DEF Progress
<1>8. /\ check' \in [Launches -> Check] /\ check'[l] = n
      /\ \A k \in Launches : k # l => check'[k] = check[k]
    BY <1>3, <1>6, <1>7
<1>9. TypeOK'
    BY <1>1, <1>2, <1>8 DEF TypeOK
<1>10. GoroutineInv'
  <2>1. OneLiveCheck'
    BY <1>1, <1>2, <1>4, <1>7, <1>8 DEF GoroutineInv, OneLiveCheck
  <2>2. ASSUME NEW k \in Launches
        PROVE  /\ check'[k].pc = "send" /\ ~check'[k].cancelled => k = gameCheckID /\ cancelSet
               /\ check'[k].pc = "send" /\ check'[k].reply = "stop" => check'[k].current
               /\ check'[k].pc \in {"probe", "send"} /\ check'[k].last = 0 =>
                    check'[k].elapsed <= FirstReplyBudget
    <3>1. CASE k = l
      BY <1>4, <1>7, <1>8, <3>1
    <3>2. CASE k # l
      BY <1>2, <1>8, <3>2 DEF GoroutineInv
    <3>3. QED
      BY <3>1, <3>2
  <2>3. QED
    BY <1>1, <1>5, <2>1, <2>2 DEF GoroutineInv
<1>11. StopOnlyWhenCurrent'
  <2>1. launch # NoLaunch /\ check[launch].current => check'[launch].current
    BY <1>7, <1>8, BegunLaunch DEF c
  <2>2. QED
    BY <1>1, <1>2, <2>1 DEF StopOnlyWhenCurrent
<1>12. BegunInv' /\ OrderInv'
    BY <1>1, <1>2, <1>4, <1>8, FewerIs DEF BegunInv, Fewer, jawaka
<1>13. OnceInv'
    BY <1>1, <1>2, <1>4, <1>5, <1>8, BegunLaunch DEF OnceInv
<1>14. RunInv'
    BY <1>1, <1>2 DEF RunInv
<1>15. QED
    BY <1>9, <1>10, <1>11, <1>12, <1>13, <1>14 DEF IInv

LEMMA ReplyStep ==
    ASSUME IInv, NEW l \in Launches, Reply(l)
    PROVE  IInv'
<1> DEFINE c == check[l]
           ok == linked /\ ~c.stale
           on == [c EXCEPT !.pc = "probe", !.last = c.items, !.elapsed = 0]
           n == IF ok /\ c.reply = "waiting" /\ ~c.cancelled THEN on ELSE Done(c)
<1>1. /\ c.pc = "send" /\ check' = [check EXCEPT ![l] = n]
      /\ \/ told' = told
         \/ ok /\ l = launch /\ told' = c.reply
      /\ UNCHANGED <<launch, phase, begun, linked, wire, drops, loop, pending,
                     gameState, gameCheckID, cancelSet>>
    BY DEF Reply, Heard, jawaka
<1>2. TypeOK /\ GoroutineInv /\ BegunInv /\ OrderInv /\ OnceInv /\ RunInv /\ StopOnlyWhenCurrent
    BY DEF IInv
<1>3. c \in Check /\ check \in [Launches -> Check]
    BY <1>2 DEF TypeOK
<1>4. /\ ~c.cancelled => l = gameCheckID /\ cancelSet
      /\ c.reply = "stop" => c.current
      /\ l \in begun
    BY <1>1, <1>2 DEF GoroutineInv, BegunInv
<1>5. /\ on \in Check /\ on.pc = "probe" /\ on.stale = c.stale /\ on.elapsed = 0
      /\ on.current = c.current
    BY <1>3, CheckFields DEF Check
<1>6. Done(c) \in Check /\ Done(c).pc = "done" /\ Done(c).current = c.current
    BY <1>3, DoneIs
<1> HIDE DEF c, on
<1>7. /\ n \in Check /\ n.pc \in {"probe", "done"} /\ n.current = c.current
      /\ n.pc = "probe" => ok /\ ~c.cancelled /\ ~n.stale /\ n.elapsed = 0
    BY <1>5, <1>6
<1> HIDE DEF n
<1>8. /\ check' \in [Launches -> Check] /\ check'[l] = n
      /\ \A k \in Launches : k # l => check'[k] = check[k]
    BY <1>1, <1>3, <1>7
<1>9. ok => Alive(c)
    BY <1>1 DEF Alive
<1>10. \A k \in Launches : Alive(check'[k]) => Alive(check[k])
    BY <1>7, <1>8, <1>9 DEF Alive, c
<1>11. loop # "stopped"
    BY <1>1, <1>2, UnstartedIs DEF GoroutineInv, c
<1>12. TypeOK'
    BY <1>1, <1>2, <1>3, <1>8, CheckFields DEF TypeOK
<1>13. GoroutineInv'
  <2>1. OneLiveCheck'
    BY <1>1, <1>2, <1>4, <1>7, <1>8 DEF GoroutineInv, OneLiveCheck
  <2>2. ASSUME NEW k \in Launches
        PROVE  /\ check'[k].pc = "send" /\ ~check'[k].cancelled => k = gameCheckID /\ cancelSet
               /\ check'[k].pc = "send" /\ check'[k].reply = "stop" => check'[k].current
               /\ check'[k].pc \in {"probe", "send"} /\ check'[k].last = 0 =>
                    check'[k].elapsed <= FirstReplyBudget
    <3>1. CASE k = l
      BY <1>7, <1>8, <3>1, BudgetIs
    <3>2. CASE k # l
      BY <1>2, <1>8, <3>2 DEF GoroutineInv
    <3>3. QED
      BY <3>1, <3>2
  <2>3. QED
    BY <1>1, <1>11, <2>1, <2>2 DEF GoroutineInv
<1>14. StopOnlyWhenCurrent'
  <2>1. launch # NoLaunch => check'[launch].current = check[launch].current
    BY <1>7, <1>8, BegunLaunch DEF c
  <2>2. told' = "stop" /\ launch # NoLaunch => told = "stop" \/ check[launch].current
    BY <1>1, <1>4 DEF c
  <2>3. QED
    BY <1>1, <1>2, <2>1, <2>2 DEF StopOnlyWhenCurrent
<1>15. BegunInv' /\ OrderInv'
    BY <1>1, <1>2, <1>4, <1>8, FewerIs DEF BegunInv, Fewer, jawaka
<1>16. OnceInv'
  <2>1. loop \in {"dialing", "asked"} => told' = told
    BY <1>1, <1>2, <1>9 DEF OnceInv, c
  <2>2. launch # NoLaunch /\ (told' = "stop" \/ Alive(check'[launch])) =>
          told = "stop" \/ Alive(check[launch])
    BY <1>1, <1>9, <1>10, BegunLaunch DEF c
  <2>3. QED
    BY <1>1, <1>2, <1>10, <2>1, <2>2 DEF OnceInv
<1>17. RunInv'
    BY <1>1, <1>2 DEF RunInv
<1>18. QED
    BY <1>12, <1>13, <1>14, <1>15, <1>16, <1>17 DEF IInv

-----------------------------------------------------------------------------
(* The theorems.                                                            *)

LEMMA StepInv == IInv /\ [Next]_vars => IInv'
<1> SUFFICES ASSUME IInv, [Next]_vars PROVE IInv'
    OBVIOUS
<1>1. CASE UNCHANGED vars
    BY <1>1 DEF vars, IInv, TypeOK, GoroutineInv, OneLiveCheck, StopOnlyWhenCurrent,
                BegunInv, OrderInv, OnceInv, RunInv
<1>2. CASE Jawaka
    BY <1>2, ResendStep, EndStep, DropStep, LaunchStep DEF Jawaka
<1>3. CASE Connect
    BY <1>3, EmptyStep, AnswerStateStep, QueueEventStep, ReadStateStep DEF Connect
<1>4. CASE HandleEvent
  <2>1. CASE ReplyFails
    BY <2>1, StoppedStep DEF ReplyFails
  <2>2. QED
    BY <1>4, <2>1, StartCheckStep, RepeatedCheckStep, RejectCheckStep, EndCheckStep,
       LifecycleLostStep DEF HandleEvent
<1>5. CASE StopService
    BY <1>5, StoppedStep DEF StopService
<1>6. ASSUME NEW l \in Launches, RunGameCheck(l) PROVE IInv'
    BY <1>6, ProbeStep, ReplyStep DEF RunGameCheck
<1>7. QED
    BY <1>1, <1>2, <1>3, <1>4, <1>5, <1>6 DEF Next

LEMMA Inductive == Spec => []IInv
BY InitInv, StepInv, PTL DEF Spec

\* At every moment at most one check reads the upstream: that of the last game.check,
\* which the run loop can still cancel, on the connection that asked for it.
THEOREM OneCheckSafety == Spec => []CheckInv
<1>1. IInv => CheckInv
    BY DEF IInv, CheckInv, GoroutineInv
<1>2. QED
    BY <1>1, Inductive, PTL

\* Jawaka is told to stop the service and start the game only on answers in which
\* all the folders are idle and complete, here and at every peer, however checks,
\* replies, repeated events and lost connections interleave.
THEOREM StopSafety == Spec => []StopOnlyWhenCurrent
<1>1. IInv => StopOnlyWhenCurrent
    BY DEF IInv
<1>2. QED
    BY <1>1, Inductive, PTL

\* When nothing is in flight on a connection that is up, the game state the controller
\* reports is Jawaka's launch: what was put aside during the handshake and handled
\* after the snapshot leads there from the snapshot.
THEOREM ConvergenceSafety == Spec => []GameStateConverges
<1>1. IInv => GameStateConverges
  <2> SUFFICES ASSUME IInv, loop = "up", linked, wire = <<>>, pending = <<>>
               PROVE  gameState = launch
    BY DEF GameStateConverges
  <2>1. PICK k \in MaybeLaunch : Leads(gameState, <<>>, k) /\ Leads(k, <<>>, launch)
    BY DEF IInv, RunInv, QueueLeads
  <2>2. gameState \in MaybeLaunch
    BY DEF IInv, TypeOK
  <2>3. QED
    BY <2>1, <2>2, LeadsNowhere
<1>2. QED
    BY <1>1, Inductive, PTL

\* A check writes its first reply before ack_ms are over, whatever the durations of
\* the probes, of the retries and of ack_ms itself (runGameCheck).
THEOREM FirstReplySafety == Spec => []FirstReplyLeavesMargin
<1>1. IInv => FirstReplyLeavesMargin
  <2> SUFFICES ASSUME IInv, NEW l \in Launches, check[l].pc = "send", check[l].last = 0
               PROVE  check[l].elapsed < AckMS
    BY DEF FirstReplyLeavesMargin
  <2>1. check[l] \in Check /\ check[l].elapsed <= FirstReplyBudget
    BY DEF IInv, TypeOK, GoroutineInv
  <2>2. check[l].elapsed \in Nat /\ AckMS \in Nat
    BY <2>1, CheckFields, GameCheckAssumption
  <2>3. QED
    BY <2>1, <2>2, BudgetIs
<1>2. QED
    BY <1>1, Inductive, PTL
=============================================================================
