--------------------------- MODULE Waitlist_proofs ---------------------------
(***************************************************************************)
(* What TLAPS proves of Waitlist for any parties, hosts, settings and      *)
(* attempts, with or without overlapping requests, lost jobs and crashes:  *)
(* a party that is gone stays gone, and as many parties hold a claim as    *)
(* tables were offered. Where requests do not overlap and do not die, the  *)
(* positions are dense and nobody is overtaken.                            *)
(***************************************************************************)
EXTENDS Waitlist, FiniteSetTheorems, TLAPS

-----------------------------------------------------------------------------
(* The shape of the state, and what is under way.                          *)

Stages == {"idle", "insert", "list", "number", "schedule", "revert", "end", "throw",
           "expire", "next", "mark"}
Lists == {s \in Seq(Guest) : Len(s) <= Cardinality(Guest)}
Work == [pc : Stages, who : Guest \cup {None}, count : 0 .. Cardinality(Guest),
         list : Lists, then : {None, "end", "schedule", "throw"}]
Job == [st : JobStates, tries : 0 .. Attempts - 1]

Typed ==
  /\ setting \in Settings
  /\ status \in [Guest -> Status]
  /\ position \in [Guest -> 0 .. Cardinality(Guest)]
  /\ arrived \in Seq(Guest)
  /\ offered \in Nat
  /\ queue \in [Guest -> Job]
  /\ h \in [Proc -> Work]

\* Work that has notified its party and has not let go of it: it will schedule
\* the party's expiry, or take the party back.
Marks(x) == x.pc \in {"schedule", "revert"} \/ x.then = "schedule"

\* What one request or job is about.
Sound(a, x) ==
  /\ x.then # None <=> x.pc \in {"list", "number"}
  /\ x.pc = "insert" =>
       a \in Host /\ x.who \in Guest /\ status[x.who] = "none" /\ x.count < Cardinality(Guest)
  /\ Marks(x) => x.who \in Guest /\ status[x.who] \notin {"none", "waiting"}
  /\ x.pc = "mark" => x.who \in Guest /\ status[x.who] # "none"
  /\ a \in Guest /\ x # Idle => status[a] # "none"

\* No two of them insert, or have notified, the same party.
Apart(x, y) ==
  /\ x.pc = "insert" /\ y.pc = "insert" => x.who # y.who
  /\ Marks(x) /\ Marks(y) => x.who # y.who

AllSound ==
  /\ \A a \in Proc : Sound(a, h[a])
  /\ \A a, b \in Proc : a # b => Apart(h[a], h[b])
  /\ \A g \in Guest : status[g] = "none" => queue[g] = NoJob

\* The tables on offer: those a party claims, and those an expired claim is
\* handing on.
Claims == {g \in Guest : status[g] = "notified"}
HandedOn == {g \in Guest : h[g].pc \in {"next", "mark"}}

\* The parties a host has called: a job's party counts once the job lets go.
Called ==
  {g \in Guest : /\ status[g] \notin {"none", "waiting"}
                 /\ \A a \in Guest : Marks(h[a]) => h[a].who # g}

Tables ==
  /\ Cardinality(Claims) + Cardinality(HandedOn) <= offered
  /\ offered <= Cardinality(Called)

\* Nobody at work beside another, and nobody's work cut short.
Calm == ~May("overlap") /\ ~May("crash")
Numbered == {position[g] : g \in Waiting} = 1 .. Cardinality(Waiting)

Dense ==
  Calm =>
    /\ \A a, b \in Proc : h[a] # Idle /\ h[b] # Idle => a = b
    /\ (\A a \in Proc : h[a].pc \notin {"list", "number"}) => Numbered
    /\ \A a \in Proc : h[a].pc = "insert" => h[a].count = Cardinality(Waiting)
    /\ \A a \in Proc : h[a].pc = "number" => h[a].list \in SetToSeqs(Waiting)

\* Nobody is taken back to the queue either.
Steady == setting.may \cap {"overlap", "crash", "error", "lost"} = {}
InTurn ==
  \A i, j \in DOMAIN arrived :
    i < j /\ {arrived[i], arrived[j]} \subseteq Waiting =>
      position[arrived[i]] < position[arrived[j]]
Turns ==
  /\ \A i \in DOMAIN arrived : status[arrived[i]] # "none"
  /\ Steady => /\ InTurn
               /\ \A a \in Proc : h[a].pc # "revert"
               /\ \A a \in Proc : h[a].pc = "number" => h[a].list \in InOrder

WInv == Typed /\ AllSound /\ Tables /\ Dense /\ Turns

-----------------------------------------------------------------------------
(* Sets of parties, and orders of them.                                    *)

LEMMA Sized ==
  ASSUME NEW S \in SUBSET Guest
  PROVE  /\ IsFiniteSet(S) /\ Cardinality(S) \in Nat
         /\ Cardinality(S) <= Cardinality(Guest)
         /\ S # Guest => Cardinality(S) < Cardinality(Guest)
BY WaitlistAssumption, FS_Subset, FS_CardinalityType

LEMMA OneMore ==
  ASSUME NEW S \in SUBSET Guest, NEW g \in Guest, g \notin S
  PROVE  Cardinality(S \cup {g}) = Cardinality(S) + 1
BY Sized, FS_AddElement

\* An order of a set of parties lists each of them once.
LEMMA Listed ==
  ASSUME NEW S \in SUBSET Guest, NEW s \in SetToSeqs(S)
  PROVE  /\ s \in Lists /\ DOMAIN s = 1 .. Cardinality(S)
         /\ \A i \in DOMAIN s : s[i] \in S
         /\ \A i, j \in DOMAIN s : s[i] = s[j] => i = j
         /\ \A g \in S : \E i \in DOMAIN s : s[i] = g
<1> DEFINE n == Cardinality(S)
<1>1. n \in Nat /\ n <= Cardinality(Guest) /\ IsFiniteSet(S)
  BY Sized
<1>2. s \in [1 .. n -> S] /\ \A i, j \in 1 .. n : i # j => s[i] # s[j]
  BY DEF SetToSeqs
<1>3. s \in Seq(Guest) /\ Len(s) = n
  BY <1>1, <1>2
<1>4. \A g \in S : \E i \in 1 .. n : s[i] = g
  <2> DEFINE I == {s[i] : i \in 1 .. n}
  <2>1. ExistsBijection(1 .. n, I)
    <3>1. s \in Bijection(1 .. n, I)
      BY <1>2 DEF Bijection, Injection, Surjection, IsInjective
    <3> QED BY <3>1 DEF ExistsBijection
  <2>2. Cardinality(I) = n
    BY <1>1, <2>1, FS_CountingElements
  <2>3. I \subseteq S
    BY <1>2
  <2>4. I = S
    BY <1>1, <2>2, <2>3, FS_Subset
  <2> QED BY <2>4
<1> QED BY <1>1, <1>2, <1>3, <1>4 DEF Lists

-----------------------------------------------------------------------------
(* The shape is kept.                                                      *)

\* What a step of a may do to the parties without disturbing anyone's work.
Allowed(a) ==
  \A g \in Guest :
    /\ status[g] # "none" => status'[g] # "none"
    /\ status[g] # "waiting" /\ status'[g] = "waiting" =>
         \A b \in Proc \ {a} : Marks(h[b]) => h[b].who # g
    /\ status[g] = "none" /\ status'[g] # "none" =>
         \A b \in Proc \ {a} : h[b].pc = "insert" => h[b].who # g

LEMMA WorkGoesOn ==
  ASSUME Typed, AllSound, NEW a \in Proc, NEW x \in Work, h' = [h EXCEPT ![a] = x],
         Allowed(a), Sound(a, x)', \A b \in Proc \ {a} : Apart(x, h[b])
  PROVE  /\ h' \in [Proc -> Work]
         /\ \A b \in Proc : Sound(b, h[b])'
         /\ \A b, c \in Proc : b # c => Apart(h'[b], h'[c])
<1>1. h' \in [Proc -> Work] /\ h'[a] = x /\ \A b \in Proc \ {a} : h'[b] = h[b]
  BY DEF Typed
<1>2. ASSUME NEW b \in Proc PROVE Sound(b, h[b])'
  <2>1. CASE b = a
    BY <1>1, <2>1 DEF Sound
  <2>2. CASE b # a
    <3>1. PICK y \in Work : y = h[b] /\ y = h'[b] /\ Sound(b, y)
      BY <1>1, <2>2 DEF Typed, AllSound
    <3>2. Sound(b, y)'
      BY <2>2, <3>1 DEF Sound, Allowed
    <3> QED BY <3>1, <3>2 DEF Sound
  <2> QED BY <2>1, <2>2
<1>3. ASSUME NEW b \in Proc, NEW c \in Proc, b # c PROVE Apart(h'[b], h'[c])
  <2>1. CASE b # a /\ c # a
    BY <1>1, <1>3, <2>1 DEF AllSound
  <2>2. CASE b = a \/ c = a
    BY <1>1, <1>3, <2>2 DEF Apart
  <2> QED BY <2>1, <2>2
<1> QED BY <1>1, <1>2, <1>3

ShapeInv == Typed /\ AllSound

LEMMA ShapeGoesOn ==
  ASSUME ShapeInv, NEW a \in Proc, NEW x \in Work, h' = [h EXCEPT ![a] = x],
         Allowed(a), Sound(a, x)', \A b \in Proc \ {a} : Apart(x, h[b]),
         setting' = setting, status' \in [Guest -> Status],
         position' \in [Guest -> 0 .. Cardinality(Guest)], arrived' \in Seq(Guest),
         offered' \in Nat, queue' \in [Guest -> Job],
         \A g \in Guest : status'[g] = "none" => queue'[g] = NoJob
  PROVE  ShapeInv'
<1>1. h' \in [Proc -> Work] /\ \A b \in Proc : Sound(b, h[b])'
  BY WorkGoesOn DEF ShapeInv
<1>2. \A b, c \in Proc : b # c => Apart(h'[b], h'[c])
  BY WorkGoesOn DEF ShapeInv
<1>3. Typed'
  BY <1>1 DEF ShapeInv, Typed
<1>4. AllSound'
  BY <1>1, <1>2 DEF AllSound, Apart
<1> QED BY <1>3, <1>4 DEF ShapeInv

\* Work that gives way to nothing.
LEMMA IdleWork ==
  /\ Idle \in Work /\ ~Marks(Idle)
  /\ <<>> \in Lists /\ Cardinality(Guest) \in Nat
<1>1. Cardinality(Guest) \in Nat
  BY Sized
<1>2. <<>> \in Lists
  BY <1>1 DEF Lists
<1> QED BY <1>1, <1>2, WaitlistAssumption DEF Idle, Work, Stages, Marks

LEMMA JoinShape ==
  ASSUME ShapeInv, NEW a \in Host, NEW g \in Guest, Join(a, g)
  PROVE  ShapeInv'
<1>1. PICK x : x = [Idle EXCEPT !.pc = "insert", !.who = g, !.count = Cardinality(Waiting)]
  OBVIOUS
<1>2. status[g] = "none" /\ ~Joining(g)
  BY DEF Join, ComesNext, Came
<1>3. Cardinality(Waiting) \in Nat /\ Cardinality(Waiting) < Cardinality(Guest)
  <2>1. Waiting \in SUBSET Guest /\ Waiting # Guest
    BY <1>2 DEF Waiting
  <2> QED BY <2>1, Sized
<1>4. /\ x \in Work /\ x.pc = "insert" /\ x.who = g /\ x.then = None
      /\ x.count = Cardinality(Waiting)
  <2>1. x = [pc |-> "insert", who |-> g, count |-> Cardinality(Waiting), list |-> <<>>,
             then |-> None]
    BY <1>1 DEF Idle
  <2>2. Cardinality(Waiting) \in 0 .. Cardinality(Guest)
    BY <1>3, IdleWork
  <2> QED BY <2>1, <2>2, IdleWork DEF Work, Stages
<1>5. a \in Proc /\ a \notin Guest /\ \A b \in Proc \ {a} : Apart(x, h[b])
  BY <1>2, <1>4, WaitlistAssumption DEF Joining, Apart, Marks, Proc, ShapeInv, AllSound, Sound
<1>6. UNCHANGED <<setting, status, position, arrived, offered, queue>> /\ h' = [h EXCEPT ![a] = x]
  BY <1>1 DEF Join, Does, Rows
<1>7. Sound(a, x)'
  BY <1>2, <1>3, <1>4, <1>5, <1>6, WaitlistAssumption DEF Sound, Marks
<1>8. Allowed(a)
  BY <1>6 DEF Allowed
<1> QED BY <1>4, <1>5, <1>6, <1>7, <1>8, ShapeGoesOn DEF ShapeInv, Typed, AllSound

\* Work that no longer inserts and has notified nobody is at odds with nobody's.
LEMMA FreeApart ==
  ASSUME NEW x, x.pc # "insert", ~Marks(x), NEW y
  PROVE  Apart(x, y)
BY DEF Apart

LEMMA LeaveShape ==
  ASSUME ShapeInv, NEW a \in Host, NEW g \in Guest, NEW to \in Gone, Leave(a, g, to)
  PROVE  ShapeInv'
<1>1. PICK x : x = Renumber(Idle, "end")
  OBVIOUS
<1>2. x \in Work /\ x.pc = "list" /\ x.then = "end" /\ ~Marks(x)
  BY <1>1, IdleWork, WaitlistAssumption DEF Idle, Renumber, Work, Stages, Marks
<1>3. /\ UNCHANGED <<setting, position, arrived, offered, queue>> /\ h' = [h EXCEPT ![a] = x]
      /\ status' = [status EXCEPT ![g] = to] /\ status[g] # "none"
      /\ to \in Status \ {"none", "waiting"}
  BY <1>1 DEF Leave, Does, SetStatus, Gone, Status
<1>4. Allowed(a) /\ status' \in [Guest -> Status]
  BY <1>3 DEF Allowed, ShapeInv, Typed
<1>5. Sound(a, x)'
  BY <1>2, WaitlistAssumption DEF Sound
<1>6. a \in Proc /\ \A b \in Proc \ {a} : Apart(x, h[b])
  BY <1>2, FreeApart DEF Proc
<1>7. \A f \in Guest : status'[f] = "none" => queue'[f] = NoJob
  BY <1>3, <1>4 DEF ShapeInv, AllSound, Allowed
<1> QED BY <1>2, <1>3, <1>4, <1>5, <1>6, <1>7, ShapeGoesOn DEF ShapeInv, Typed

\* Whoever is at work on an expiry is a party that joined.
LEMMA AtWork ==
  ASSUME ShapeInv, NEW a \in Proc
  PROVE  /\ h[a] \in Work /\ Sound(a, h[a])
         /\ \A b \in Proc \ {a} : h[b] \in Work /\ Sound(b, h[b]) /\ Apart(h[a], h[b])
BY DEF ShapeInv, Typed, AllSound

LEMMA MarkShape ==
  ASSUME ShapeInv, NEW a \in Proc, NEW y \in Work, y.who \in Guest, status[y.who] # "none",
         a \in Guest => status[a] # "none", Mark(a, y),
         UNCHANGED <<setting, position, arrived, queue>>, offered' \in Nat
  PROVE  ShapeInv'
<1>1. CASE status[y.who] = "waiting"
  <2>1. PICK x : x = [y EXCEPT !.pc = "list", !.then = "schedule"]
    OBVIOUS
  <2>2. x \in Work /\ x.pc = "list" /\ x.then = "schedule" /\ x.who = y.who /\ Marks(x)
    BY <2>1 DEF Work, Stages, Marks
  <2>3. h' = [h EXCEPT ![a] = x] /\ status' = [status EXCEPT ![y.who] = "notified"]
    BY <1>1, <2>1 DEF Mark, AfterMark, Renumber, SetStatus, Does
  <2>4. Allowed(a) /\ status' \in [Guest -> Status] /\ status'[y.who] = "notified"
    BY <2>3 DEF Allowed, ShapeInv, Typed, Status
  <2>5. Sound(a, x)'
    BY <2>2, <2>4, WaitlistAssumption DEF Sound, Allowed
  <2>6. \A b \in Proc \ {a} : Apart(x, h[b])
    BY <1>1, <2>2, AtWork DEF Apart, Sound
  <2>7. \A f \in Guest : status'[f] = "none" => queue'[f] = NoJob
    BY <2>4 DEF ShapeInv, AllSound, Allowed
  <2> QED BY <2>2, <2>3, <2>4, <2>5, <2>6, <2>7, ShapeGoesOn DEF ShapeInv, Typed
<1>2. CASE status[y.who] # "waiting"
  <2>1. PICK x : x = Over("end")
    OBVIOUS
  <2>2. x \in Work /\ x.pc = "end" /\ x.then = None /\ ~Marks(x)
    BY <2>1, IdleWork, WaitlistAssumption DEF Over, Idle, Work, Stages, Marks
  <2>3. h' = [h EXCEPT ![a] = x] /\ status' = status
    BY <1>2, <2>1 DEF Mark, Does
  <2>4. Sound(a, x)'
    BY <2>2, <2>3 DEF Sound
  <2>5. \A b \in Proc \ {a} : Apart(x, h[b])
    BY <2>2, FreeApart
  <2> QED BY <2>2, <2>3, <2>4, <2>5, ShapeGoesOn DEF ShapeInv, Typed, AllSound, Allowed
<1> QED BY <1>1, <1>2

LEMMA NotifyShape ==
  ASSUME ShapeInv, NEW a \in Proc, NEW g \in Guest, Notify(a, g)
  PROVE  ShapeInv'
<1>1. PICK y : y = [Idle EXCEPT !.who = g]
  OBVIOUS
<1>2. y \in Work /\ y.who = g
  BY <1>1, IdleWork DEF Idle, Work
<1>3. status[y.who] # "none" /\ Mark(a, y) /\ a \notin Guest
  BY <1>1, <1>2, WaitlistAssumption DEF Notify
<1> QED BY <1>2, <1>3, MarkShape DEF Notify, ShapeInv, Typed

LEMMA MarkNextShape ==
  ASSUME ShapeInv, NEW g \in Guest, MarkNext(g)
  PROVE  ShapeInv'
<1>1. g \in Proc /\ h[g] \in Work /\ Sound(g, h[g]) /\ h[g].pc = "mark"
  BY AtWork DEF MarkNext, Proc
<1>2. h[g].who \in Guest /\ status[h[g].who] # "none" /\ status[g] # "none"
  BY <1>1 DEF Sound, Idle
<1> QED BY <1>1, <1>2, MarkShape DEF MarkNext, ShapeInv, Typed

LEMMA InsertShape ==
  ASSUME ShapeInv, NEW a \in Proc, Insert(a)
  PROVE  ShapeInv'
<1>1. PICK g : g = h[a].who
  OBVIOUS
<1>2. /\ h[a] \in Work /\ g \in Guest /\ status[g] = "none" /\ h[a].count < Cardinality(Guest)
      /\ a \in Host
  BY <1>1, AtWork DEF Insert, Sound
<1>3. /\ UNCHANGED <<setting, offered, queue>> /\ h' = [h EXCEPT ![a] = Idle]
      /\ status' = [status EXCEPT ![g] = "waiting"]
      /\ position' = [position EXCEPT ![g] = h[a].count + 1] /\ arrived' = Append(arrived, g)
  BY <1>1 DEF Insert, Does, SetStatus, CalculatePosition
<1>4. /\ status' \in [Guest -> Status] /\ position' \in [Guest -> 0 .. Cardinality(Guest)]
      /\ arrived' \in Seq(Guest)
  <2>1. h[a].count + 1 \in 0 .. Cardinality(Guest)
    BY <1>2, IdleWork DEF Work
  <2> QED BY <1>2, <1>3, <2>1 DEF ShapeInv, Typed, Status
<1>5. Allowed(a)
  <2>1. \A b \in Proc \ {a} : /\ Marks(h[b]) => h[b].who # g
                              /\ h[b].pc = "insert" => h[b].who # g
    BY <1>1, <1>2, AtWork DEF Insert, Sound, Apart
  <2> QED BY <1>2, <1>3, <2>1 DEF Allowed, ShapeInv, Typed
<1>6. Sound(a, Idle)'
  BY IdleWork DEF Sound, Idle
<1>7. \A b \in Proc \ {a} : Apart(Idle, h[b])
  BY IdleWork, FreeApart DEF Idle
<1>8. \A f \in Guest : status'[f] = "none" => queue'[f] = NoJob
  BY <1>2, <1>3 DEF ShapeInv, Typed, AllSound
<1> QED BY <1>3, <1>4, <1>5, <1>6, <1>7, <1>8, IdleWork, ShapeGoesOn DEF ShapeInv, Typed

\* A step that leaves the parties alone and goes on with its work, about the
\* same party if any.
LEMMA WorkShape ==
  ASSUME ShapeInv, NEW a \in Proc, NEW x \in Work, h' = [h EXCEPT ![a] = x],
         UNCHANGED <<setting, status, arrived>>, offered' \in Nat,
         position' \in [Guest -> 0 .. Cardinality(Guest)], queue' \in [Guest -> Job],
         \A g \in Guest : status[g] = "none" => queue'[g] = NoJob,
         x.then # None <=> x.pc \in {"list", "number"}, x.pc # "insert",
         Marks(x) => Marks(h[a]) /\ x.who = h[a].who,
         x.pc = "mark" => x.who \in Guest /\ status[x.who] # "none",
         a \in Guest /\ x # Idle => status[a] # "none"
  PROVE  ShapeInv'
<1>1. Sound(a, h[a])
  BY AtWork
<1>2. Sound(a, x)'
  BY <1>1 DEF Sound
<1>3. \A b \in Proc \ {a} : Apart(x, h[b])
  BY AtWork DEF Apart
<1>4. Allowed(a)
  BY DEF Allowed
<1> QED BY <1>2, <1>3, <1>4, ShapeGoesOn DEF ShapeInv, Typed

LEMMA ListShape ==
  ASSUME ShapeInv, NEW a \in Proc, ListWaiting(a)
  PROVE  ShapeInv'
<1>1. PICK s \in InOrder : Does(a, [h[a] EXCEPT !.pc = "number", !.list = s])
  BY DEF ListWaiting
<1>2. s \in Lists
  BY Listed DEF InOrder, Waiting
<1>3. PICK y \in Work : y = h[a] /\ Sound(a, y) /\ y.pc = "list"
  BY AtWork DEF ListWaiting
<1>4. PICK x : x = [y EXCEPT !.pc = "number", !.list = s]
  OBVIOUS
<1>5. /\ x \in Work /\ x.pc = "number" /\ x.then = y.then /\ x.who = y.who /\ y # Idle
      /\ h' = [h EXCEPT ![a] = x]
  <2>1. x \in Work /\ x.pc = "number" /\ x.then = y.then /\ x.who = y.who
    BY <1>2, <1>4 DEF Work, Stages
  <2>2. y # Idle
    BY <1>3 DEF Idle
  <2>3. h' = [h EXCEPT ![a] = x]
    BY <1>1, <1>3, <1>4 DEF Does
  <2> QED BY <2>1, <2>2, <2>3
<1>6. /\ UNCHANGED <<setting, status, arrived, position, offered, queue>>
      /\ x.then # None /\ (Marks(x) => Marks(h[a])) /\ (a \in Guest => status[a] # "none")
  BY <1>3, <1>5 DEF ListWaiting, Rows, Sound, Marks
<1> QED BY <1>3, <1>5, <1>6, WorkShape DEF ShapeInv, Typed, AllSound

LEMMA NumberShape ==
  ASSUME ShapeInv, NEW a \in Proc, Number(a)
  PROVE  ShapeInv'
<1>1. PICK y \in Work : y = h[a] /\ Sound(a, y) /\ y.pc = "number"
  BY AtWork DEF Number
<1>2. PICK x : x = [y EXCEPT !.pc = y.then, !.list = <<>>, !.then = None]
  OBVIOUS
<1>3. y.then \in {"end", "schedule", "throw"}
  BY <1>1 DEF Sound, Work
<1>4. /\ x \in Work /\ x.pc = y.then /\ x.then = None /\ x.who = y.who /\ y # Idle
      /\ h' = [h EXCEPT ![a] = x]
  BY <1>1, <1>2, <1>3, IdleWork DEF Work, Stages, Number, Does, Idle
<1>5. UNCHANGED <<setting, status, arrived, offered, queue>>
  BY DEF Number
<1>6. position' \in [Guest -> 0 .. Cardinality(Guest)]
  <2> DEFINE place(g) == CHOOSE i \in DOMAIN y.list : y.list[i] = g
  <2>0. position' = [g \in Guest |-> IF Contains(y.list, g) THEN place(g) ELSE position[g]]
    BY <1>1 DEF Number
  <2> SUFFICES ASSUME NEW g \in Guest, Contains(y.list, g)
               PROVE  place(g) \in 0 .. Cardinality(Guest)
    <3> HIDE DEF place
    <3> QED BY <2>0 DEF ShapeInv, Typed
  <2>1. y.list \in Seq(Guest) /\ Len(y.list) <= Cardinality(Guest) /\ Cardinality(Guest) \in Nat
    BY IdleWork DEF Work, Lists
  <2>2. \E i \in DOMAIN y.list : y.list[i] = g
    BY <2>1 DEF Contains
  <2>3. place(g) \in DOMAIN y.list
    BY <2>2
  <2> QED BY <2>1, <2>3
<1>7. /\ x.pc \notin {"list", "number", "insert", "mark"}
      /\ Marks(x) => Marks(h[a])
      /\ a \in Guest => status[a] # "none"
  BY <1>1, <1>3, <1>4, WaitlistAssumption DEF Marks, Sound
<1> QED BY <1>1, <1>4, <1>5, <1>6, <1>7, WorkShape DEF ShapeInv, Typed, AllSound

\* Jobs of the queue.
LEMMA Jobs ==
  ASSUME NEW job \in Job
  PROVE  /\ Scheduled(job) \in Job /\ Ended(job) \in Job /\ Taken(job) \in Job
         /\ Thrown(job, Attempts, FALSE) \in Job
         /\ \A x \in Stalled(job) : x \in Job
<1>1. job.tries \in Nat /\ job.st \in JobStates /\ job.tries < Attempts /\ Attempts \in Nat
  BY WaitlistAssumption DEF Job
<1>2. Ended(job) \in Job /\ Taken(job) \in Job /\ [job EXCEPT !.st = "ready"] \in Job
  BY DEF Job, JobStates, Ended, Taken
<1>3. Scheduled(job) \in Job
  BY WaitlistAssumption DEF Scheduled, Ready, Job, JobStates
<1>4. Thrown(job, Attempts, FALSE) \in Job
  BY <1>1, <1>2 DEF Thrown, IsFinalAttempt, Job, JobStates
<1> QED BY <1>2, <1>3, <1>4 DEF Stalled

LEMMA ScheduleShape ==
  ASSUME ShapeInv, NEW a \in Proc, Schedule(a)
  PROVE  ShapeInv'
<1>1. PICK y \in Work : y = h[a] /\ Sound(a, y) /\ y.pc = "schedule"
  BY AtWork DEF Schedule
<1>2. Marks(y) /\ y # Idle /\ y.then = None /\ y.who \in Guest /\ status[y.who] # "none"
  BY <1>1 DEF Marks, Idle, Sound
<1>3. PICK x : /\ x = Over("end") \/ x = Go(y, "revert")
               /\ h' = [h EXCEPT ![a] = x]
  BY <1>1 DEF Schedule, Does, AfterError
<1>4. /\ x \in Work /\ x.then = None /\ x.pc \in {"end", "revert"}
      /\ Marks(x) => Marks(h[a]) /\ x.who = h[a].who
  <2>1. CASE x = Over("end")
    BY <2>1, IdleWork, WaitlistAssumption DEF Over, Idle, Work, Stages, Marks
  <2>2. CASE x = Go(y, "revert")
    BY <1>1, <1>2, <2>2 DEF Go, Work, Stages
  <2> QED BY <1>3, <2>1, <2>2
<1>5. /\ queue' \in [Guest -> Job]
      /\ \A g \in Guest : status[g] = "none" => queue'[g] = NoJob
  <2>1. queue' = queue \/ queue' = [queue EXCEPT ![y.who] = Scheduled(queue[y.who])]
    BY <1>1 DEF Schedule
  <2>2. queue[y.who] \in Job /\ Scheduled(queue[y.who]) \in Job
    BY <1>2, Jobs DEF ShapeInv, Typed
  <2> QED BY <1>2, <2>1, <2>2 DEF ShapeInv, Typed, AllSound
<1>6. UNCHANGED <<setting, status, position, arrived, offered>> /\ (a \in Guest => status[a] # "none")
  BY <1>1, <1>2 DEF Schedule, Rows, Sound
<1> QED BY <1>3, <1>4, <1>5, <1>6, WorkShape DEF ShapeInv, Typed

LEMMA RevertShape ==
  ASSUME ShapeInv, NEW a \in Proc, Revert(a), offered' \in Nat
  PROVE  ShapeInv'
<1>1. PICK y \in Work : y = h[a] /\ Sound(a, y) /\ y.pc = "revert"
  BY AtWork DEF Revert
<1>2. Marks(y) /\ y # Idle /\ y.who \in Guest /\ status[y.who] \notin {"none", "waiting"}
  BY <1>1 DEF Marks, Idle, Sound
<1>3. PICK x : /\ x = Renumber(Idle, "throw") \/ x = Over("throw")
               /\ h' = [h EXCEPT ![a] = x]
  BY <1>1 DEF Revert, Does
<1>4. /\ x \in Work /\ x.pc \in {"list", "throw"} /\ ~Marks(x)
      /\ x.then # None <=> x.pc = "list"
  <2>1. CASE x = Over("throw")
    BY <2>1, IdleWork, WaitlistAssumption DEF Over, Idle, Work, Stages, Marks
  <2>2. CASE x = Renumber(Idle, "throw")
    BY <2>2, IdleWork, WaitlistAssumption DEF Renumber, Idle, Work, Stages, Marks
  <2> QED BY <1>3, <2>1, <2>2
<1>5. /\ status' = [status EXCEPT ![y.who] = Reverted(status[y.who])]
      /\ UNCHANGED <<setting, position, arrived, queue>>
  BY <1>1 DEF Revert, SetStatus
<1>6. /\ status' \in [Guest -> Status]
      /\ \A g \in Guest : status[g] = "none" <=> status'[g] = "none"
  BY <1>2, <1>5 DEF ShapeInv, Typed, Reverted, Status
<1>7. Allowed(a)
  <2>1. \A b \in Proc \ {a} : Marks(h[b]) => h[b].who # y.who
    BY <1>1, <1>2, AtWork DEF Apart
  <2> QED BY <1>2, <1>5, <1>6, <2>1 DEF Allowed, ShapeInv, Typed
<1>8. Sound(a, x)'
  BY <1>1, <1>2, <1>4, <1>6 DEF Sound
<1>9. \A b \in Proc \ {a} : Apart(x, h[b])
  BY <1>4, FreeApart
<1> QED BY <1>3, <1>4, <1>5, <1>6, <1>7, <1>8, <1>9, ShapeGoesOn DEF ShapeInv, Typed, AllSound

LEMMA EndShape ==
  ASSUME ShapeInv, NEW a \in Proc, Finish(a) \/ Crash(a)
  PROVE  ShapeInv'
<1>1. h' = [h EXCEPT ![a] = Idle] /\ UNCHANGED <<setting, status, position, arrived, offered>>
  BY DEF Finish, Crash, Does, Rows
<1>2. a \in Guest => status[a] # "none"
  <2>1. h[a] # Idle
    <3>1. CASE Finish(a)
      <4>1. h[a].pc # "idle"
        BY <3>1 DEF Finish
      <4> QED BY <4>1 DEF Idle
    <3>2. CASE Crash(a)
      BY <3>2 DEF Crash
    <3> QED BY <3>1, <3>2
  <2> QED BY <2>1, AtWork DEF Sound
<1>3. /\ queue' \in [Guest -> Job]
      /\ \A g \in Guest : status[g] = "none" => queue'[g] = NoJob
  <2>1. CASE queue' = queue
    BY <2>1 DEF ShapeInv, Typed, AllSound
  <2>2. CASE queue' # queue
    <3>1. PICK job : /\ queue' = [queue EXCEPT ![a] = job]
                     /\ job = Ended(queue[a]) \/ job = Thrown(queue[a], Attempts, FALSE)
      BY <2>2 DEF Finish, Crash
    <3>2. a \in Guest
      BY <2>2, <3>1 DEF Finish, Crash, Proc
    <3> QED BY <1>2, <3>1, <3>2, Jobs DEF ShapeInv, Typed, AllSound
  <2> QED BY <2>1, <2>2
<1> QED BY <1>1, <1>3, IdleWork, WorkShape DEF ShapeInv, Typed, Idle

LEMMA ByHandShape ==
  ASSUME ShapeInv, NEW g \in Guest, ExpireByHand(g)
  PROVE  ShapeInv'
<1>1. /\ status' = [status EXCEPT ![g] = Expired(status[g])] /\ status[g] # "none"
      /\ UNCHANGED <<setting, position, arrived, offered, queue>> /\ h' = [h EXCEPT ![g] = h[g]]
  BY DEF ExpireByHand, SetStatus, ShapeInv, Typed, Proc
<1>2. /\ status' \in [Guest -> Status] /\ Allowed(g)
      /\ \A f \in Guest : status'[f] \in {"none", "waiting"} => status'[f] = status[f]
  BY <1>1 DEF ShapeInv, Typed, Expired, Status, Allowed
<1>3. PICK y \in Work : y = h[g] /\ Sound(g, y) /\ \A b \in Proc \ {g} : Apart(y, h[b])
  BY AtWork DEF Proc
<1>4. Sound(g, y)'
  BY <1>1, <1>2, <1>3 DEF Sound, ShapeInv, Typed
<1> QED BY <1>1, <1>2, <1>3, <1>4, ShapeGoesOn DEF ShapeInv, Typed, AllSound, Proc

LEMMA JobShape ==
  ASSUME ShapeInv, NEW g \in Guest, Fire(g) \/ Stall(g)
  PROVE  ShapeInv'
<1>1. status[g] # "none" /\ h[g] = Idle
  BY DEF Fire, Stall, Enter, ShapeInv, AllSound, NoJob
<1>2. PICK x : /\ x = Idle \/ x = [Idle EXCEPT !.pc = "expire", !.who = g]
               /\ h' = [h EXCEPT ![g] = x]
  BY <1>1 DEF Fire, Stall, Does, ShapeInv, Typed, Proc
<1>3. x \in Work /\ x.pc \in {"idle", "expire"} /\ x.then = None /\ ~Marks(x)
  BY <1>2, IdleWork, WaitlistAssumption DEF Idle, Work, Stages, Marks
<1>4. \E job \in Job : queue' = [queue EXCEPT ![g] = job]
  BY Jobs DEF Fire, Stall, ShapeInv, Typed
<1>5. /\ queue' \in [Guest -> Job]
      /\ \A f \in Guest : status[f] = "none" => queue'[f] = NoJob
  BY <1>1, <1>4 DEF ShapeInv, Typed, AllSound
<1>6. UNCHANGED <<setting, status, position, arrived, offered>>
  BY DEF Fire, Stall, Rows
<1> QED BY <1>1, <1>2, <1>3, <1>5, <1>6, WorkShape DEF ShapeInv, Typed, Proc

LEMMA ExpireShape ==
  ASSUME ShapeInv, NEW g \in Guest, Expire(g)
  PROVE  ShapeInv'
<1>1. g \in Proc /\ h[g].pc = "expire" /\ status[g] # "none"
  BY AtWork DEF Expire, Proc, Sound, Idle
<1>2. PICK x : x \in {Over("next"), Over("end")} /\ h' = [h EXCEPT ![g] = x]
  BY DEF Expire, Does, AfterExpire
<1>3. x \in Work /\ x.pc \in {"next", "end"} /\ x.then = None /\ ~Marks(x)
  BY <1>2, IdleWork, WaitlistAssumption DEF Over, Idle, Work, Stages, Marks
<1>4. /\ status' = [status EXCEPT ![g] = Expired(status[g])]
      /\ UNCHANGED <<setting, position, arrived, offered, queue>>
  BY DEF Expire, SetStatus
<1>5. /\ status' \in [Guest -> Status] /\ Allowed(g)
      /\ \A f \in Guest : status'[f] = "none" => status[f] = "none"
  BY <1>1, <1>4 DEF ShapeInv, Typed, Expired, Status, Allowed
<1>6. Sound(g, x)' /\ \A b \in Proc \ {g} : Apart(x, h[b])
  BY <1>1, <1>3, <1>5, FreeApart DEF Sound
<1> QED BY <1>1, <1>2, <1>3, <1>4, <1>5, <1>6, ShapeGoesOn DEF ShapeInv, Typed, AllSound

LEMMA OfferShape ==
  ASSUME ShapeInv, NEW g \in Guest, OfferNext(g)
  PROVE  ShapeInv'
<1>1. PICK y \in Work : y = h[g] /\ Sound(g, y) /\ y.pc = "next" /\ g \in Proc
  BY AtWork DEF OfferNext, Proc
<1>2. y.then = None /\ y # Idle
  BY <1>1 DEF Sound, Idle
<1>3. PICK x : /\ h' = [h EXCEPT ![g] = x]
               /\ \/ x = Over("end")
                  \/ \E f \in Waiting : x = [y EXCEPT !.pc = "mark", !.who = f]
  <2>1. ASSUME NEW s \in InOrder, s # <<>> PROVE s[1] \in Waiting
    <3>1. s \in Lists /\ \A i \in DOMAIN s : s[i] \in Waiting
      BY Listed DEF InOrder, Waiting
    <3> QED BY <2>1, <3>1 DEF Lists
  <2> QED BY <1>1, <2>1 DEF OfferNext, Does
<1>4. /\ x \in Work /\ x.pc \in {"end", "mark"} /\ x.then = None /\ ~Marks(x)
      /\ x.pc = "mark" => x.who \in Guest /\ status[x.who] # "none"
  <2>1. CASE x = Over("end")
    BY <2>1, IdleWork, WaitlistAssumption DEF Over, Idle, Work, Stages, Marks
  <2>2. ASSUME NEW f \in Waiting, x = [y EXCEPT !.pc = "mark", !.who = f]
        PROVE  <1>4!1 /\ <1>4!2
    BY <1>2, <2>2, WaitlistAssumption DEF Waiting, Work, Stages, Marks
  <2> QED BY <1>3, <2>1, <2>2
<1>5. UNCHANGED <<setting, status, position, arrived, offered, queue>> /\ status[g] # "none"
  BY <1>1, <1>2 DEF OfferNext, Rows, Sound
<1> QED BY <1>1, <1>3, <1>4, <1>5, WorkShape DEF ShapeInv, Typed, AllSound

-----------------------------------------------------------------------------
(* Tables and claims. An expiry takes the claim before it looks for a      *)
(* successor, and the successor's claim is the same table's.               *)

LEMMA Subsets ==
  ASSUME NEW S \in SUBSET Guest, NEW T \in SUBSET S
  PROVE  Cardinality(T) <= Cardinality(S)
BY Sized, FS_Subset

LEMMA OneLess ==
  ASSUME NEW S \in SUBSET Guest, NEW g \in S
  PROVE  Cardinality(S \ {g}) = Cardinality(S) - 1 /\ Cardinality(S) >= 1
<1>1. IsFiniteSet(S) /\ Cardinality(S) \in Nat
  BY Sized
<1>2. Cardinality(S) # 0
  BY <1>1, FS_EmptySet
<1>3. Cardinality(S \ {g}) = Cardinality(S) - 1
  BY <1>1, FS_RemoveElement
<1> QED BY <1>1, <1>2, <1>3

LEMMA Counted ==
  /\ Claims \in SUBSET Guest /\ HandedOn \in SUBSET Guest /\ Called \in SUBSET Guest
  /\ Cardinality(Claims) \in Nat /\ Cardinality(HandedOn) \in Nat
  /\ Cardinality(Called) \in Nat
BY Sized DEF Claims, HandedOn, Called

\* A step that adds no claim and calls nobody back.
LEMMA TablesGoOn ==
  ASSUME ShapeInv, Tables, NEW a \in Proc, NEW x, h' = [h EXCEPT ![a] = x], offered' = offered,
         a \in Guest /\ x.pc \in {"next", "mark"} => h[a].pc \in {"next", "mark"},
         a \in Guest /\ Marks(x) => Marks(h[a]) /\ x.who = h[a].who,
         \A g \in Guest : status'[g] = "notified" => status[g] = "notified",
         \A g \in Called : status'[g] \notin {"none", "waiting"}
  PROVE  Tables'
<1>1. h'[a] = x /\ \A b \in Proc \ {a} : h'[b] = h[b]
  BY DEF ShapeInv, Typed
<1>2. Claims' \subseteq Claims
  BY DEF Claims
<1>3. HandedOn' \subseteq HandedOn
  BY <1>1 DEF HandedOn, Proc
<1>4. Called \subseteq Called'
  BY <1>1 DEF Called, Proc
<1>5. /\ Cardinality(Claims') <= Cardinality(Claims)
      /\ Cardinality(HandedOn') <= Cardinality(HandedOn)
      /\ Cardinality(Called) <= Cardinality(Called')
  BY <1>2, <1>3, <1>4, Counted, Subsets, Sized DEF Called
<1>6. Cardinality(Claims') \in Nat /\ Cardinality(HandedOn') \in Nat /\ Cardinality(Called') \in Nat
  BY Sized DEF Claims, HandedOn, Called
<1> QED BY <1>5, <1>6, Counted DEF Tables, ShapeInv, Typed

\* A table of a host.
LEMMA NotifyTables ==
  ASSUME ShapeInv, Tables, NEW a \in Host, NEW g \in Guest, Notify(a, g)
  PROVE  Tables'
<1>1. PICK x : x = AfterMark([Idle EXCEPT !.who = g])
  OBVIOUS
<1>2. /\ h' = [h EXCEPT ![a] = x] /\ status' = [status EXCEPT ![g] = "notified"]
      /\ status[g] = "waiting" /\ offered' = offered + 1
  BY <1>1 DEF Notify, Mark, Does, SetStatus, Idle
<1>3. \A b \in Guest : h'[b] = h[b] /\ (Marks(h[b]) => h[b].who # g)
  <2>1. \A b \in Guest : b # a /\ b \in Proc
    BY WaitlistAssumption DEF Proc
  <2> QED BY <1>2, <2>1, AtWork DEF ShapeInv, Typed, Sound
<1>4. Claims' = Claims \cup {g} /\ g \notin Claims
  BY <1>2 DEF Claims, ShapeInv, Typed
<1>5. Called' = Called \cup {g} /\ g \notin Called
  BY <1>2, <1>3 DEF Called, ShapeInv, Typed
<1>6. HandedOn' = HandedOn
  BY <1>3 DEF HandedOn
<1>7. /\ Cardinality(Claims') = Cardinality(Claims) + 1
      /\ Cardinality(Called') = Cardinality(Called) + 1
  BY <1>4, <1>5, Counted, OneMore
<1> QED BY <1>2, <1>6, <1>7, Counted DEF Tables, ShapeInv, Typed

\* A table of an expired claim.
LEMMA MarkNextTables ==
  ASSUME ShapeInv, Tables, NEW g \in Guest, MarkNext(g)
  PROVE  Tables'
<1>1. PICK y \in Work : y = h[g] /\ Sound(g, y) /\ y.pc = "mark" /\ g \in Proc
  BY AtWork DEF MarkNext, Proc
<1>2. y.who \in Guest /\ ~Marks(y)
  BY <1>1, WaitlistAssumption DEF Sound, Marks
<1>3. CASE status[y.who] = "waiting"
  <2>1. PICK x : x = [y EXCEPT !.pc = "list", !.then = "schedule"]
    OBVIOUS
  <2>2. x.pc = "list" /\ x.then = "schedule" /\ x.who = y.who /\ Marks(x)
    BY <2>1 DEF Work, Marks
  <2>3. /\ h' = [h EXCEPT ![g] = x] /\ status' = [status EXCEPT ![y.who] = "notified"]
        /\ offered' = offered
    BY <1>1, <1>3, <2>1 DEF MarkNext, Mark, AfterMark, Renumber, SetStatus, Does
  <2>4. h'[g] = x /\ \A b \in Proc \ {g} : h'[b] = h[b]
    BY <1>1, <2>3 DEF ShapeInv, Typed
  <2>5. Claims' = Claims \cup {y.who} /\ y.who \notin Claims
    BY <1>2, <1>3, <2>3 DEF Claims, ShapeInv, Typed
  <2>6. HandedOn' = HandedOn \ {g} /\ g \in HandedOn
    BY <1>1, <2>2, <2>4 DEF HandedOn, Proc
  <2>7. Called' = Called
    <3>1. \A f \in Guest \ {y.who} : f \in Called' <=> f \in Called
      BY <1>1, <1>2, <2>2, <2>3, <2>4 DEF Called, Proc, ShapeInv, Typed
    <3>2. y.who \notin Called /\ y.who \notin Called'
      BY <1>3, <2>2, <2>4 DEF Called
    <3> QED BY <3>1, <3>2 DEF Called
  <2>8. /\ Cardinality(Claims') = Cardinality(Claims) + 1
        /\ Cardinality(HandedOn') = Cardinality(HandedOn) - 1
    BY <1>2, <2>5, <2>6, Counted, OneMore, OneLess
  <2> QED BY <2>3, <2>7, <2>8, Counted DEF Tables, ShapeInv, Typed
<1>4. CASE status[y.who] # "waiting"
  <2>1. PICK x : x = Over("end")
    OBVIOUS
  <2>2. x.pc = "end" /\ ~Marks(x)
    BY <2>1, WaitlistAssumption DEF Over, Idle, Marks
  <2>3. h' = [h EXCEPT ![g] = x] /\ status' = status /\ offered' = offered
    BY <1>1, <1>4, <2>1 DEF MarkNext, Mark, Does
  <2> QED BY <1>1, <2>2, <2>3, TablesGoOn DEF Called
<1> QED BY <1>3, <1>4

LEMMA ExpireTables ==
  ASSUME ShapeInv, Tables, NEW g \in Guest, Expire(g)
  PROVE  Tables'
<1>1. PICK x : x = Over(AfterExpire(status[g]))
  OBVIOUS
<1>2. /\ g \in Proc /\ h[g].pc = "expire" /\ h' = [h EXCEPT ![g] = x]
      /\ status' = [status EXCEPT ![g] = Expired(status[g])] /\ offered' = offered
  BY <1>1 DEF Expire, Does, SetStatus, Proc
<1>3. /\ ~Marks(x) /\ h'[g] = x /\ \A b \in Proc \ {g} : h'[b] = h[b]
      /\ ~Marks(h[g])
  <2>1. h[g].then = None
    BY <1>2, AtWork DEF Sound
  <2> QED BY <1>1, <1>2, <2>1, WaitlistAssumption
        DEF Over, AfterExpire, Idle, Marks, ShapeInv, Typed
<1>4. CASE status[g] = "notified"
  <2>1. x.pc = "next"
    BY <1>1, <1>4 DEF Over, AfterExpire, Idle
  <2>2. Claims' = Claims \ {g} /\ g \in Claims
    BY <1>2, <1>4 DEF Claims, Expired, ShapeInv, Typed
  <2>3. HandedOn' = HandedOn \cup {g} /\ g \notin HandedOn
    BY <1>2, <1>3, <2>1 DEF HandedOn, Proc
  <2>4. Called' = Called
    <3>1. \A f \in Guest : status'[f] \notin {"none", "waiting"} <=> status[f] \notin {"none", "waiting"}
      BY <1>2, <1>4 DEF Expired, ShapeInv, Typed
    <3>2. \A b \in Guest : Marks(h'[b]) <=> Marks(h[b])
      BY <1>3 DEF Proc
    <3>3. \A b \in Guest : Marks(h[b]) => h'[b] = h[b]
      BY <1>3 DEF Proc
    <3> QED BY <3>1, <3>2, <3>3 DEF Called
  <2>5. /\ Cardinality(Claims') = Cardinality(Claims) - 1
        /\ Cardinality(HandedOn') = Cardinality(HandedOn) + 1
    BY <2>2, <2>3, Counted, OneMore, OneLess
  <2> QED BY <1>2, <2>4, <2>5, Counted DEF Tables, ShapeInv, Typed
<1>5. CASE status[g] # "notified"
  <2>1. x.pc = "end" /\ status' = status
    BY <1>1, <1>2, <1>5 DEF Over, AfterExpire, Idle, Expired, ShapeInv, Typed
  <2> QED BY <1>2, <1>3, <2>1, TablesGoOn DEF Called
<1> QED BY <1>4, <1>5

\* A party taken back by a host gives the host's table back, one taken back by a
\* job only its claim.
LEMMA RevertTables ==
  ASSUME ShapeInv, Tables, NEW a \in Proc, Revert(a)
  PROVE  Tables' /\ offered' \in Nat
<1>1. PICK y \in Work : y = h[a] /\ Sound(a, y) /\ y.pc = "revert"
  BY AtWork DEF Revert
<1>2. Marks(y) /\ y.who \in Guest
  BY <1>1 DEF Marks, Sound
<1>3. PICK x : /\ x = Renumber(Idle, "throw") \/ x = Over("throw")
               /\ h' = [h EXCEPT ![a] = x]
  BY <1>1 DEF Revert, Does
<1>4. x.pc \in {"list", "throw"} /\ ~Marks(x)
  BY <1>3, WaitlistAssumption DEF Over, Renumber, Idle, Marks
<1>5. /\ status' = [status EXCEPT ![y.who] = Reverted(status[y.who])]
      /\ offered' = IF status[y.who] = "notified" /\ a \in Host THEN offered - 1 ELSE offered
  BY <1>1 DEF Revert, SetStatus
<1>6. CASE status[y.who] = "notified" /\ a \in Host
  <2>1. Claims' = Claims \ {y.who} /\ y.who \in Claims
    BY <1>2, <1>5, <1>6 DEF Claims, Reverted, ShapeInv, Typed
  <2>2. \A b \in Guest : h'[b] = h[b] /\ b \in Proc \ {a}
    BY <1>3, <1>6, WaitlistAssumption DEF ShapeInv, Typed, Proc
  <2>3. HandedOn' = HandedOn
    BY <2>2 DEF HandedOn
  <2>4. Called' = Called \ {y.who} /\ y.who \in Called
    <3>1. \A b \in Guest : Marks(h[b]) => h[b].who # y.who
      BY <1>1, <1>2, <2>2, AtWork DEF Apart
    <3> QED BY <1>2, <1>5, <1>6, <2>2, <3>1 DEF Called, Reverted, ShapeInv, Typed
  <2>5. /\ Cardinality(Claims') = Cardinality(Claims) - 1 /\ Cardinality(Claims) >= 1
        /\ Cardinality(Called') = Cardinality(Called) - 1
    BY <2>1, <2>4, Counted, OneLess
  <2> QED BY <1>5, <1>6, <2>3, <2>5, Counted DEF Tables, ShapeInv, Typed
<1>7. CASE status[y.who] # "notified" \/ a \notin Host
  <2>1. \A g \in Called : status'[g] \notin {"none", "waiting"}
    BY <1>1, <1>2, <1>5, <1>7 DEF Called, Reverted, Proc, ShapeInv, Typed
  <2>2. \A g \in Guest : status'[g] = "notified" => status[g] = "notified"
    BY <1>5 DEF Reverted, ShapeInv, Typed
  <2> QED BY <1>3, <1>4, <1>5, <1>7, <2>1, <2>2, TablesGoOn DEF ShapeInv, Typed
<1> QED BY <1>6, <1>7

-----------------------------------------------------------------------------
(* The positions. Where requests do not overlap and do not die, one         *)
(* request or job is at work at a time, and leaves the positions renumbered. *)

\* When a is at work, or enters, nobody else is at work.
LEMMA Alone ==
  ASSUME ShapeInv, Dense, Calm, NEW a \in Proc, Quiet \/ h[a] # Idle
  PROVE  /\ \A b \in Proc \ {a} : h[b] = Idle
         /\ h[a].pc \notin {"list", "number"} => Numbered
<1>1. \A b \in Proc \ {a} : h[b] = Idle
  BY DEF Dense, Quiet
<1> QED BY <1>1 DEF Dense, Idle

LEMMA OrdersGoOn ==
  ASSUME ShapeInv, Dense, Turns, NEW a \in Proc, NEW x, h' = [h EXCEPT ![a] = x],
         setting' = setting,
         Calm => /\ Quiet \/ h[a] # Idle
                 /\ x.pc \notin {"list", "number"} => Numbered'
                 /\ x.pc = "insert" => x.count = Cardinality(Waiting')
                 /\ x.pc = "number" => x.list \in SetToSeqs(Waiting'),
         Steady => /\ InTurn' /\ x.pc # "revert"
                   /\ x.pc = "number" => x.list \in InOrder',
         \A i \in DOMAIN arrived' : status'[arrived'[i]] # "none"
  PROVE  Dense' /\ Turns'
<1>1. Calm' = Calm /\ Steady' = Steady /\ (Steady => Calm)
  BY DEF Calm, Steady, May
<1>2. h'[a] = x /\ \A b \in Proc \ {a} : h'[b] = h[b]
  BY DEF ShapeInv, Typed
<1>3. Calm => \A b \in Proc \ {a} : h'[b] = Idle
  BY <1>2, Alone
<1>4. Dense'
  <2> SUFFICES ASSUME Calm
               PROVE  /\ \A b, c \in Proc : h'[b] # Idle /\ h'[c] # Idle => b = c
                      /\ (\A b \in Proc : h'[b].pc \notin {"list", "number"}) => Numbered'
                      /\ \A b \in Proc : h'[b].pc = "insert" => h'[b].count = Cardinality(Waiting')
                      /\ \A b \in Proc : h'[b].pc = "number" => h'[b].list \in SetToSeqs(Waiting')
    BY <1>1 DEF Dense
  <2> QED BY <1>2, <1>3 DEF Idle
<1>5. Turns'
  <2> SUFFICES ASSUME Steady
               PROVE  /\ InTurn'
                      /\ \A b \in Proc : h'[b].pc # "revert"
                      /\ \A b \in Proc : h'[b].pc = "number" => h'[b].list \in InOrder'
    BY <1>1 DEF Turns
  <2> QED BY <1>1, <1>2, <1>3 DEF Idle
<1> QED BY <1>4, <1>5

\* A step that leaves the positions as they are: whoever changes the parties that
\* wait renumbers next.
LEMMA OrdersStay ==
  ASSUME ShapeInv, Dense, Turns, NEW a \in Proc, NEW x, h' = [h EXCEPT ![a] = x],
         UNCHANGED <<setting, position, arrived>>,
         Calm => Quiet \/ h[a] # Idle,
         h[a].pc \notin {"list", "number"}, x.pc \notin {"insert", "number"},
         x.pc = "list" \/ Waiting' = Waiting,
         Steady => x.pc # "revert" /\ Waiting' \subseteq Waiting,
         \A g \in Guest : status[g] # "none" => status'[g] # "none"
  PROVE  Dense' /\ Turns'
<1>1. Calm /\ x.pc # "list" => Numbered'
  BY Alone DEF Numbered
<1>2. Steady => InTurn'
  BY DEF Turns, InTurn
<1>3. \A i \in DOMAIN arrived' : status'[arrived'[i]] # "none"
  BY DEF Turns, ShapeInv, Typed
<1> QED BY <1>1, <1>2, <1>3, OrdersGoOn

LEMMA JoinOrders ==
  ASSUME ShapeInv, Dense, Turns, NEW a \in Proc, NEW g \in Guest, Join(a, g)
  PROVE  Dense' /\ Turns'
<1>1. PICK x : x = [Idle EXCEPT !.pc = "insert", !.who = g, !.count = Cardinality(Waiting)]
  OBVIOUS
<1>2. x.pc = "insert" /\ x.count = Cardinality(Waiting)
  BY <1>1 DEF Idle
<1>3. /\ UNCHANGED <<setting, status, position, arrived>> /\ h' = [h EXCEPT ![a] = x]
      /\ (Calm => Quiet) /\ h[a] = Idle
  BY <1>1 DEF Join, Does, Rows, Enter, Calm
<1>4. Calm => Numbered'
  BY <1>3, Alone DEF Numbered, Waiting, Idle
<1>5. Steady => InTurn'
  BY <1>3 DEF Turns, InTurn, Waiting
<1>6. \A i \in DOMAIN arrived' : status'[arrived'[i]] # "none"
  BY <1>3 DEF Turns
<1> QED BY <1>2, <1>3, <1>4, <1>5, <1>6, OrdersGoOn DEF Waiting

\* The newcomer stands behind everyone who waits.
LEMMA InsertOrders ==
  ASSUME ShapeInv, Dense, Turns, NEW a \in Proc, Insert(a)
  PROVE  Dense' /\ Turns'
<1>1. PICK y \in Work : y = h[a] /\ Sound(a, y) /\ y.pc = "insert" /\ y # Idle
  BY AtWork DEF Insert, Idle
<1>2. PICK g \in Guest : g = y.who /\ status[g] = "none"
  BY <1>1 DEF Sound
<1>3. /\ setting' = setting /\ h' = [h EXCEPT ![a] = Idle]
      /\ status' = [status EXCEPT ![g] = "waiting"]
      /\ position' = [position EXCEPT ![g] = y.count + 1] /\ arrived' = Append(arrived, g)
  BY <1>1, <1>2 DEF Insert, Does, SetStatus, CalculatePosition
<1>4. Waiting' = Waiting \cup {g} /\ g \notin Waiting
  BY <1>2, <1>3 DEF Waiting, ShapeInv, Typed
<1>5. PICK n \in Nat : n = Cardinality(Waiting)
  BY Sized DEF Waiting
<1>6. /\ position'[g] = y.count + 1
      /\ \A f \in Guest \ {g} : position'[f] = position[f]
  BY <1>3 DEF ShapeInv, Typed
<1>7. Calm => y.count = n /\ {position[f] : f \in Waiting} = 1 .. n
  BY <1>1, <1>5, Alone DEF Dense, Numbered
<1>8. Calm => Numbered'
  <2> SUFFICES ASSUME Calm PROVE {position'[f] : f \in Waiting \cup {g}} = 1 .. n + 1
    BY <1>4, <1>5, OneMore DEF Numbered, Waiting
  <2>1. {position'[f] : f \in Waiting \cup {g}} = {position[f] : f \in Waiting} \cup {n + 1}
    BY <1>4, <1>6, <1>7 DEF Waiting
  <2> QED BY <1>7, <2>1
<1>9. DOMAIN arrived' = DOMAIN arrived \cup {Len(arrived) + 1}
      /\ arrived'[Len(arrived) + 1] = g
      /\ \A i \in DOMAIN arrived :
           arrived'[i] = arrived[i] /\ arrived[i] \in Guest \ {g} /\ i < Len(arrived) + 1
  <2>1. \A i \in DOMAIN arrived : arrived[i] \in Guest \ {g}
    BY <1>2 DEF Turns, ShapeInv, Typed
  <2> QED BY <1>3, <2>1 DEF ShapeInv, Typed
<1>10. \A i \in DOMAIN arrived' : status'[arrived'[i]] # "none"
  BY <1>3, <1>9 DEF Turns, ShapeInv, Typed
<1>11. Steady => InTurn'
  <2> SUFFICES ASSUME Steady, NEW i \in DOMAIN arrived', NEW j \in DOMAIN arrived', i < j,
                      arrived'[i] \in Waiting', arrived'[j] \in Waiting'
               PROVE  position'[arrived'[i]] < position'[arrived'[j]]
    BY DEF InTurn
  <2>1. Calm
    BY DEF Steady, Calm, May
  <2>2. i \in DOMAIN arrived /\ arrived'[i] = arrived[i] /\ arrived[i] \in Waiting
    BY <1>4, <1>9 DEF ShapeInv, Typed
  <2>3. position'[arrived'[i]] = position[arrived[i]]
    BY <1>6, <1>9, <2>2
  <2>4. CASE j \in DOMAIN arrived
    <3>1. arrived'[j] = arrived[j] /\ arrived[j] \in Waiting
          /\ position'[arrived'[j]] = position[arrived[j]]
      BY <1>4, <1>6, <1>9, <2>4
    <3> QED BY <2>2, <2>3, <2>4, <3>1 DEF Turns, InTurn
  <2>5. CASE j = Len(arrived) + 1
    <3>1. position[arrived[i]] \in 1 .. n
      BY <1>7, <2>1, <2>2
    <3>2. position'[arrived'[j]] = n + 1
      BY <1>6, <1>7, <1>9, <2>1, <2>5
    <3> QED BY <2>3, <3>1, <3>2
  <2> QED BY <1>9, <2>4, <2>5
<1> QED BY <1>1, <1>3, <1>8, <1>10, <1>11, OrdersGoOn DEF Idle

LEMMA ListOrders ==
  ASSUME ShapeInv, Dense, Turns, NEW a \in Proc, ListWaiting(a)
  PROVE  Dense' /\ Turns'
<1>1. PICK y \in Work : y = h[a] /\ y.pc = "list"
  BY AtWork DEF ListWaiting
<1>2. PICK s \in InOrder : Does(a, [y EXCEPT !.pc = "number", !.list = s])
  BY <1>1 DEF ListWaiting
<1>3. PICK x : x = [y EXCEPT !.pc = "number", !.list = s]
  OBVIOUS
<1>4. x.pc = "number" /\ x.list = s /\ h' = [h EXCEPT ![a] = x] /\ h[a] # Idle
  <2>1. x.pc = "number" /\ x.list = s
    BY <1>3 DEF Work
  <2>2. y # Idle
    BY <1>1 DEF Idle
  <2> QED BY <1>1, <1>2, <1>3, <2>1, <2>2 DEF Does
<1>5. UNCHANGED <<setting, status, position, arrived>>
  BY DEF ListWaiting, Rows
<1>6. Waiting' = Waiting /\ InOrder' = InOrder /\ s \in SetToSeqs(Waiting)
  BY <1>5 DEF Waiting, InOrder
<1>7. Steady => InTurn'
  BY <1>5, <1>6 DEF Turns, InTurn
<1>8. \A i \in DOMAIN arrived' : status'[arrived'[i]] # "none"
  BY <1>5 DEF Turns
<1> QED BY <1>4, <1>5, <1>6, <1>7, <1>8, OrdersGoOn

\* The new positions are the places in the list.
LEMMA NumberOrders ==
  ASSUME ShapeInv, Dense, Turns, NEW a \in Proc, Number(a)
  PROVE  Dense' /\ Turns'
<1>1. PICK y \in Work : y = h[a] /\ Sound(a, y) /\ y.pc = "number" /\ y # Idle
  BY AtWork DEF Number, Idle
<1>2. PICK s : s = y.list
  OBVIOUS
<1>3. PICK x : x = [y EXCEPT !.pc = y.then, !.list = <<>>, !.then = None]
  OBVIOUS
<1>4. y.then \in {"end", "schedule", "throw"} /\ x.pc = y.then
  BY <1>1, <1>3 DEF Sound, Work
<1>5. h' = [h EXCEPT ![a] = x] /\ UNCHANGED <<setting, status, arrived>>
  BY <1>1, <1>3 DEF Number, Does
<1> DEFINE place(g) == CHOOSE i \in DOMAIN s : s[i] = g
<1>6. position' = [g \in Guest |-> IF Contains(s, g) THEN place(g) ELSE position[g]]
  BY <1>1, <1>2 DEF Number
<1>7. Waiting' = Waiting
  BY <1>5 DEF Waiting
<1>8. ASSUME Calm
      PROVE  /\ s \in SetToSeqs(Waiting)
             /\ \A i \in DOMAIN s : s[i] \in Waiting /\ position'[s[i]] = i
             /\ \A g \in Waiting : \E i \in DOMAIN s : s[i] = g
  <2>1. s \in SetToSeqs(Waiting)
    BY <1>1, <1>2, <1>8 DEF Dense
  <2>2. /\ s \in Lists
        /\ \A i \in DOMAIN s : s[i] \in Waiting
        /\ \A i, j \in DOMAIN s : s[i] = s[j] => i = j
        /\ \A g \in Waiting : \E i \in DOMAIN s : s[i] = g
    BY <2>1, Listed DEF Waiting
  <2>3. ASSUME NEW i \in DOMAIN s PROVE position'[s[i]] = i
    <3>1. Contains(s, s[i]) /\ s[i] \in Guest
      BY <2>2 DEF Contains, Lists, Waiting
    <3>2. place(s[i]) = i
      BY <2>2
    <3> HIDE DEF place
    <3> QED BY <1>6, <3>1, <3>2
  <2> QED BY <2>1, <2>2, <2>3
<1> HIDE DEF place
<1>9. Calm => Numbered'
  <2> SUFFICES ASSUME Calm
               PROVE  {position'[g] : g \in Waiting} = 1 .. Cardinality(Waiting)
    BY <1>7 DEF Numbered
  <2>1. DOMAIN s = 1 .. Cardinality(Waiting)
    BY <1>8, Listed DEF Waiting
  <2> QED BY <1>8, <2>1
<1>10. Steady => InTurn'
  <2> SUFFICES ASSUME Steady, NEW i \in DOMAIN arrived, NEW j \in DOMAIN arrived, i < j,
                      arrived[i] \in Waiting, arrived[j] \in Waiting
               PROVE  position'[arrived[i]] < position'[arrived[j]]
    BY <1>5, <1>7 DEF InTurn
  <2>1. Calm /\ s \in InOrder
    BY <1>1, <1>2 DEF Steady, Calm, May, Turns
  <2>2. PICK k \in DOMAIN s, l \in DOMAIN s : s[k] = arrived[i] /\ s[l] = arrived[j]
    BY <1>8, <2>1
  <2>3. position[s[k]] < position[s[l]]
    BY <2>2 DEF Turns, InTurn
  <2>4. k \in Nat /\ l \in Nat
    BY <1>8, <2>1, Listed DEF Waiting, Lists
  <2>5. position[s[k]] \in Nat /\ position[s[l]] \in Nat
    BY <2>2, IdleWork DEF ShapeInv, Typed, Waiting
  <2>6. k < l
    BY <2>1, <2>3, <2>4, <2>5 DEF InOrder
  <2> QED BY <1>8, <2>1, <2>2, <2>6
<1>11. \A i \in DOMAIN arrived' : status'[arrived'[i]] # "none"
  BY <1>5 DEF Turns
<1> QED BY <1>1, <1>4, <1>5, <1>9, <1>10, <1>11, OrdersGoOn

\* Seating and cancelling leave the renumbering to do.
LEMMA LeaveOrders ==
  ASSUME ShapeInv, Dense, Turns, NEW a \in Host, NEW g \in Guest, NEW to \in Gone,
         Leave(a, g, to)
  PROVE  Dense' /\ Turns'
<1>1. PICK x : x = Renumber(Idle, "end")
  OBVIOUS
<1>2. x.pc = "list"
  BY <1>1 DEF Renumber, Idle
<1>3. /\ UNCHANGED <<setting, position, arrived>> /\ h' = [h EXCEPT ![a] = x]
      /\ status' = [status EXCEPT ![g] = to] /\ to \notin {"none", "waiting"}
      /\ h[a] = Idle /\ (Calm => Quiet) /\ a \in Proc
  BY <1>1 DEF Leave, Does, SetStatus, Gone, Enter, Calm, Proc
<1>4. Waiting' \subseteq Waiting
  BY <1>3 DEF Waiting, ShapeInv, Typed
<1>5. \A f \in Guest : status[f] # "none" => status'[f] # "none"
  BY <1>3 DEF ShapeInv, Typed
<1>6. h[a].pc = "idle"
  BY <1>3 DEF Idle
<1> QED BY <1>2, <1>3, <1>4, <1>5, <1>6, OrdersStay

\* So does a notification, unless the party no longer waits.
LEMMA MarkOrders ==
  ASSUME ShapeInv, Dense, Turns, NEW a \in Proc, NEW y \in Work, y.who \in Guest, Mark(a, y),
         UNCHANGED <<setting, position, arrived>>, Calm => Quiet \/ h[a] # Idle,
         h[a].pc \notin {"list", "number"}
  PROVE  Dense' /\ Turns'
<1>1. CASE status[y.who] = "waiting"
  <2>1. PICK x : x = [y EXCEPT !.pc = "list", !.then = "schedule"]
    OBVIOUS
  <2>2. x.pc = "list"
    BY <2>1 DEF Work
  <2>3. h' = [h EXCEPT ![a] = x] /\ status' = [status EXCEPT ![y.who] = "notified"]
    BY <1>1, <2>1 DEF Mark, AfterMark, Renumber, SetStatus, Does
  <2>4. Waiting' \subseteq Waiting /\ \A f \in Guest : status[f] # "none" => status'[f] # "none"
    BY <2>3 DEF Waiting, ShapeInv, Typed
  <2> QED BY <2>2, <2>3, <2>4, OrdersStay
<1>2. CASE status[y.who] # "waiting"
  <2>1. PICK x : x = Over("end")
    OBVIOUS
  <2>2. x.pc = "end"
    BY <2>1 DEF Over, Idle
  <2>3. h' = [h EXCEPT ![a] = x] /\ status' = status /\ Waiting' = Waiting
    BY <1>2, <2>1 DEF Mark, Does, Waiting
  <2> QED BY <2>2, <2>3, OrdersStay
<1> QED BY <1>1, <1>2

LEMMA NotifyOrders ==
  ASSUME ShapeInv, Dense, Turns, NEW a \in Host, NEW g \in Guest, Notify(a, g)
  PROVE  Dense' /\ Turns'
<1>1. PICK y : y = [Idle EXCEPT !.who = g]
  OBVIOUS
<1>2. y \in Work /\ y.who = g
  BY <1>1, IdleWork DEF Idle, Work
<1>3. /\ Mark(a, y) /\ UNCHANGED <<setting, position, arrived>> /\ (Calm => Quiet)
      /\ h[a].pc = "idle" /\ a \in Proc
  BY <1>1 DEF Notify, Enter, Calm, Idle, Proc
<1> QED BY <1>2, <1>3, MarkOrders

LEMMA MarkNextOrders ==
  ASSUME ShapeInv, Dense, Turns, NEW g \in Guest, MarkNext(g)
  PROVE  Dense' /\ Turns'
<1>1. g \in Proc /\ h[g] \in Work /\ h[g].who \in Guest /\ h[g].pc = "mark" /\ h[g] # Idle
  BY AtWork DEF MarkNext, Proc, Sound, Idle
<1> QED BY <1>1, MarkOrders DEF MarkNext

LEMMA ScheduleOrders ==
  ASSUME ShapeInv, Dense, Turns, NEW a \in Proc, Schedule(a)
  PROVE  Dense' /\ Turns'
<1>1. PICK y \in Work : y = h[a] /\ y.pc = "schedule" /\ y # Idle
  BY AtWork DEF Schedule, Idle
<1>2. PICK x : /\ x = Over("end") \/ (x = Go(y, "revert") /\ (May("error") \/ May("lost")))
               /\ h' = [h EXCEPT ![a] = x]
  BY <1>1 DEF Schedule, Does, AfterError
<1>3. x.pc \in {"end", "revert"} /\ (Steady => x.pc = "end")
  BY <1>1, <1>2 DEF Over, Idle, Go, Work, Steady, May
<1>4. UNCHANGED <<setting, status, position, arrived>> /\ Waiting' = Waiting
  BY DEF Schedule, Rows, Waiting
<1> QED BY <1>1, <1>2, <1>3, <1>4, OrdersStay

\* A party taken back is numbered next; where nobody is overtaken none is.
LEMMA RevertOrders ==
  ASSUME ShapeInv, Dense, Turns, NEW a \in Proc, Revert(a)
  PROVE  Dense' /\ Turns'
<1>1. PICK y \in Work : y = h[a] /\ Sound(a, y) /\ y.pc = "revert" /\ y # Idle
  BY AtWork DEF Revert, Idle
<1>2. y.who \in Guest /\ ~Steady
  BY <1>1 DEF Sound, Marks, Turns
<1>3. PICK x : /\ \/ x = Renumber(Idle, "throw")
                  \/ x = Over("throw") /\ status[y.who] # "notified"
               /\ h' = [h EXCEPT ![a] = x]
  BY <1>1 DEF Revert, Does
<1>4. /\ status' = [status EXCEPT ![y.who] = Reverted(status[y.who])]
      /\ UNCHANGED <<setting, position, arrived>>
  BY <1>1 DEF Revert, SetStatus
<1>5. /\ x.pc \in {"list", "throw"}
      /\ x.pc = "throw" => status[y.who] # "notified"
  BY <1>3 DEF Over, Renumber, Idle
<1>6. status[y.who] # "notified" => Waiting' = Waiting
  BY <1>2, <1>4 DEF Waiting, Reverted, ShapeInv, Typed
<1>7. \A f \in Guest : status[f] # "none" => status'[f] # "none"
  BY <1>2, <1>4 DEF Reverted, ShapeInv, Typed
<1> QED BY <1>1, <1>2, <1>3, <1>4, <1>5, <1>6, <1>7, OrdersStay

\* Work that ends, or goes on, with the same parties waiting.
LEMMA QuietOrders ==
  ASSUME ShapeInv, Dense, Turns, NEW a \in Proc, NEW x, h' = [h EXCEPT ![a] = x],
         UNCHANGED <<setting, position, arrived>>, Calm => Quiet \/ h[a] # Idle,
         Calm => h[a].pc \notin {"list", "number"},
         x.pc \notin {"insert", "number", "list", "revert"},
         Waiting' = Waiting, \A g \in Guest : status[g] # "none" => status'[g] # "none"
  PROVE  Dense' /\ Turns'
<1>1. Calm => Numbered'
  BY Alone DEF Numbered
<1>2. Steady => InTurn'
  BY DEF Turns, InTurn
<1>3. \A i \in DOMAIN arrived' : status'[arrived'[i]] # "none"
  BY DEF Turns, ShapeInv, Typed
<1> QED BY <1>1, <1>2, <1>3, OrdersGoOn

LEMMA EndOrders ==
  ASSUME ShapeInv, Dense, Turns, NEW a \in Proc, Finish(a) \/ Crash(a)
  PROVE  Dense' /\ Turns'
<1>1. /\ h' = [h EXCEPT ![a] = Idle] /\ UNCHANGED <<setting, status, position, arrived>>
      /\ Waiting' = Waiting
  BY DEF Finish, Crash, Does, Rows, Waiting
<1>2. Calm => h[a].pc \in {"end", "throw"}
  BY DEF Finish, Crash, Calm
<1>3. Calm => h[a] # Idle
  BY <1>2 DEF Idle
<1>4. Idle.pc = "idle"
  BY DEF Idle
<1> QED BY <1>1, <1>2, <1>3, <1>4, QuietOrders

LEMMA ExpireOrders ==
  ASSUME ShapeInv, Dense, Turns, NEW g \in Guest, Expire(g) \/ OfferNext(g)
  PROVE  Dense' /\ Turns'
<1>1. PICK y \in Work : y = h[g] /\ y.pc \in {"expire", "next"} /\ y # Idle
  <2>1. h[g].pc \in {"expire", "next"} /\ h[g] \in Work
    BY AtWork DEF Expire, OfferNext, Proc
  <2> QED BY <2>1 DEF Idle
<1>2. /\ status' = status \/ status' = [status EXCEPT ![g] = Expired(status[g])]
      /\ g \in Proc /\ UNCHANGED <<setting, position, arrived>>
  BY DEF Expire, OfferNext, Rows, SetStatus, Proc
<1>3. Waiting' = Waiting /\ \A f \in Guest : status[f] # "none" => status'[f] # "none"
  BY <1>2 DEF Waiting, Expired, ShapeInv, Typed
<1>4. PICK x : /\ \/ \E pc \in {"next", "end"} : x = Over(pc)
                  \/ \E f : x = [y EXCEPT !.pc = "mark", !.who = f]
               /\ h' = [h EXCEPT ![g] = x]
  BY <1>1 DEF Expire, OfferNext, Does, AfterExpire
<1>5. x.pc \in {"next", "end", "mark"}
  BY <1>1, <1>4 DEF Over, Idle, Work
<1> QED BY <1>1, <1>2, <1>3, <1>4, <1>5, QuietOrders

LEMMA FireOrders ==
  ASSUME ShapeInv, Dense, Turns, NEW g \in Guest, Fire(g)
  PROVE  Dense' /\ Turns'
<1>1. /\ UNCHANGED <<setting, status, position, arrived>> /\ Waiting' = Waiting
      /\ (Calm => Quiet) /\ h[g].pc = "idle" /\ g \in Proc
  BY DEF Fire, Rows, Waiting, Enter, Calm, Idle, Proc
<1>2. PICK x : x = [Idle EXCEPT !.pc = "expire", !.who = g]
  OBVIOUS
<1>3. h' = [h EXCEPT ![g] = x] /\ x.pc = "expire"
  BY <1>2 DEF Fire, Does, Idle
<1> QED BY <1>1, <1>3, QuietOrders

\* Nobody waits whom a host expires, and nobody begins to.
LEMMA ByHandOrders ==
  ASSUME ShapeInv, Dense, Turns, NEW g \in Guest, ExpireByHand(g) \/ Stall(g)
  PROVE  Dense' /\ Turns'
<1>1. UNCHANGED <<setting, position, arrived, h>>
  BY DEF ExpireByHand, Stall, Rows
<1>2. status' = status \/ status' = [status EXCEPT ![g] = Expired(status[g])]
  BY DEF ExpireByHand, Stall, Rows, SetStatus
<1>3. Waiting' = Waiting /\ \A f \in Guest : status[f] # "none" => status'[f] # "none"
  BY <1>2 DEF Waiting, Expired, ShapeInv, Typed
<1>4. Dense'
  BY <1>1, <1>3 DEF Dense, Calm, May, Numbered
<1>5. Turns'
  BY <1>1, <1>3 DEF Turns, Steady, InTurn, InOrder, ShapeInv, Typed
<1> QED BY <1>4, <1>5

-----------------------------------------------------------------------------
(* The other steps give no table away.                                     *)

LEMMA AskTables ==
  ASSUME ShapeInv, Tables, NEW a \in Host, NEW g \in Guest,
         Join(a, g) \/ \E to \in Gone : Leave(a, g, to)
  PROVE  Tables'
<1>1. PICK x : /\ \/ x = [Idle EXCEPT !.pc = "insert", !.who = g, !.count = Cardinality(Waiting)]
                  \/ x = Renumber(Idle, "end")
               /\ h' = [h EXCEPT ![a] = x]
  BY DEF Join, Leave, Does
<1>2. offered' = offered /\ a \in Proc /\ a \notin Guest
  BY WaitlistAssumption DEF Join, Leave, Rows, Proc
<1>3. /\ \A f \in Guest : status'[f] = "notified" => status[f] = "notified"
      /\ \A f \in Called : status'[f] \notin {"none", "waiting"}
  BY DEF Join, Leave, Rows, SetStatus, Gone, Called, ShapeInv, Typed
<1> QED BY <1>1, <1>2, <1>3, TablesGoOn

\* A step of a request or a job that leaves the parties alone.
LEMMA GoesTables ==
  ASSUME ShapeInv, Tables, NEW a \in Proc,
         ListWaiting(a) \/ Number(a) \/ Schedule(a) \/ Finish(a) \/ Crash(a)
  PROVE  Tables'
<1>1. PICK y \in Work : y = h[a] /\ Sound(a, y)
  BY AtWork
<1>2. status' = status /\ offered' = offered
  BY DEF ListWaiting, Number, Schedule, Finish, Crash, Rows
<1>3. PICK x : /\ h' = [h EXCEPT ![a] = x]
               /\ \/ y.pc = "list" /\ \E s : x = [y EXCEPT !.pc = "number", !.list = s]
                  \/ y.pc = "number" /\ x = [y EXCEPT !.pc = y.then, !.list = <<>>, !.then = None]
                  \/ y.pc = "schedule" /\ x = Go(y, "revert")
                  \/ x = Over("end") \/ x = Idle
  BY <1>1 DEF ListWaiting, Number, Schedule, Finish, Crash, Does, AfterError
<1>4. x.pc \notin {"next", "mark"} /\ (Marks(x) => Marks(y) /\ x.who = y.who)
  <2>1. CASE \E s : y.pc = "list" /\ x = [y EXCEPT !.pc = "number", !.list = s]
    BY <2>1 DEF Marks, Work
  <2>2. CASE y.pc = "number" /\ x = [y EXCEPT !.pc = y.then, !.list = <<>>, !.then = None]
    <3>1. y.then \in {"end", "schedule", "throw"}
      BY <1>1, <2>2 DEF Sound, Work
    <3>2. x.pc = y.then /\ x.then = None /\ x.who = y.who
      BY <2>2 DEF Work
    <3> QED BY <3>1, <3>2, WaitlistAssumption DEF Marks
  <2>3. CASE y.pc = "schedule" /\ x = Go(y, "revert")
    BY <2>3 DEF Marks, Work, Go
  <2>4. CASE x = Over("end") \/ x = Idle
    BY <2>4, WaitlistAssumption DEF Marks, Over, Idle
  <2> QED BY <1>3, <2>1, <2>2, <2>3, <2>4
<1> QED BY <1>1, <1>2, <1>3, <1>4, TablesGoOn DEF Called

LEMMA InsertTables ==
  ASSUME ShapeInv, Tables, NEW a \in Proc, Insert(a)
  PROVE  Tables'
<1>1. PICK g \in Guest : g = h[a].who /\ status[g] = "none"
  BY AtWork DEF Insert, Sound
<1>2. /\ h' = [h EXCEPT ![a] = Idle] /\ offered' = offered
      /\ status' = [status EXCEPT ![g] = "waiting"]
  BY <1>1 DEF Insert, Does, SetStatus
<1>3. /\ \A f \in Guest : status'[f] = "notified" => status[f] = "notified"
      /\ \A f \in Called : status'[f] \notin {"none", "waiting"}
  BY <1>1, <1>2 DEF Called, ShapeInv, Typed
<1>4. Idle.pc = "idle" /\ ~Marks(Idle)
  BY IdleWork DEF Idle
<1> QED BY <1>2, <1>3, <1>4, TablesGoOn

LEMMA JobTables ==
  ASSUME ShapeInv, Tables, NEW g \in Guest, Fire(g) \/ OfferNext(g)
  PROVE  Tables'
<1>1. PICK y \in Work : y = h[g] /\ Sound(g, y) /\ g \in Proc
  BY AtWork DEF Proc
<1>2. status' = status /\ offered' = offered
  BY DEF Fire, OfferNext, Rows
<1>3. PICK x : /\ h' = [h EXCEPT ![g] = x]
               /\ \/ x = [Idle EXCEPT !.pc = "expire", !.who = g]
                  \/ x = Over("end")
                  \/ y.pc = "next" /\ \E f : x = [y EXCEPT !.pc = "mark", !.who = f]
  BY <1>1 DEF Fire, OfferNext, Does
<1>4. ~Marks(x) /\ (x.pc \in {"next", "mark"} => y.pc \in {"next", "mark"})
  <2>1. CASE x = [Idle EXCEPT !.pc = "expire", !.who = g]
    BY <2>1, WaitlistAssumption DEF Marks, Idle
  <2>2. CASE x = Over("end")
    BY <2>2, WaitlistAssumption DEF Marks, Over, Idle
  <2>3. CASE \E f : y.pc = "next" /\ x = [y EXCEPT !.pc = "mark", !.who = f]
    <3>1. x.pc = "mark" /\ x.then = y.then
      BY <2>3 DEF Work
    <3> QED BY <1>1, <2>3, <3>1, WaitlistAssumption DEF Marks, Sound
  <2> QED BY <1>3, <2>1, <2>2, <2>3
<1> QED BY <1>1, <1>2, <1>3, <1>4, TablesGoOn DEF Called

LEMMA ByHandTables ==
  ASSUME ShapeInv, Tables, NEW g \in Guest, ExpireByHand(g) \/ Stall(g)
  PROVE  Tables'
<1>1. h' = [h EXCEPT ![g] = h[g]] /\ offered' = offered /\ g \in Proc
  BY DEF ExpireByHand, Stall, Rows, ShapeInv, Typed, Proc
<1>2. status' = status \/ status' = [status EXCEPT ![g] = Expired(status[g])]
  BY DEF ExpireByHand, Stall, Rows, SetStatus
<1>3. /\ \A f \in Guest : status'[f] = "notified" => status[f] = "notified"
      /\ \A f \in Called : status'[f] \notin {"none", "waiting"}
  BY <1>2 DEF Called, Expired, ShapeInv, Typed
<1> QED BY <1>1, <1>3, TablesGoOn

-----------------------------------------------------------------------------
(* The invariant, and what follows from it.                                *)

LEMMA InitWInv ==
  ASSUME Init
  PROVE  WInv
<1>1. /\ Waiting = {} /\ Claims = {} /\ HandedOn = {} /\ Called = {}
      /\ \A a \in Proc : h[a] = Idle /\ h[a].pc = "idle"
  BY DEF Init, Waiting, Claims, HandedOn, Called, Idle, Proc
<1>2. Cardinality({}) = 0
  BY FS_EmptySet
<1>3. Typed
  <2>1. NoJob \in Job
    BY WaitlistAssumption DEF NoJob, Job, JobStates
  <2>2. Cardinality(Guest) \in Nat
    BY IdleWork
  <2> QED BY <2>1, <2>2, IdleWork DEF Init, Typed, Status
<1>4. AllSound
  <2>1. \A a \in Proc : Sound(a, h[a])
    BY <1>1, IdleWork DEF Sound, Idle
  <2>2. \A a, b \in Proc : a # b => Apart(h[a], h[b])
    BY <1>1, IdleWork DEF Apart
  <2> QED BY <2>1, <2>2 DEF AllSound, Init
<1>5. Tables
  BY <1>1, <1>2 DEF Tables, Init
<1>6. Dense
  BY <1>1, <1>2 DEF Dense, Numbered
<1>7. Turns
  BY <1>1 DEF Turns, InTurn, Init
<1> QED BY <1>3, <1>4, <1>5, <1>6, <1>7 DEF WInv

\* Every step keeps the invariant.
LEMMA NextKeeps ==
  ASSUME WInv, [Next]_vars
  PROVE  WInv'
<1> USE DEF WInv
<1>0. ShapeInv
  BY DEF ShapeInv
<1> SUFFICES ShapeInv' /\ Tables' /\ Dense' /\ Turns'
  BY DEF ShapeInv
<1>1. ASSUME NEW a \in Host, NEW g \in Guest, Join(a, g)
      PROVE  ShapeInv' /\ Tables' /\ Dense' /\ Turns'
  BY <1>0, <1>1, JoinShape, AskTables, JoinOrders DEF Proc
<1>2. ASSUME NEW a \in Host, NEW g \in Guest, Notify(a, g)
      PROVE  ShapeInv' /\ Tables' /\ Dense' /\ Turns'
  BY <1>0, <1>2, NotifyShape, NotifyTables, NotifyOrders DEF Proc
<1>3. ASSUME NEW a \in Host, NEW g \in Guest, NEW to \in Gone, Leave(a, g, to)
      PROVE  ShapeInv' /\ Tables' /\ Dense' /\ Turns'
  BY <1>0, <1>3, LeaveShape, AskTables, LeaveOrders
<1>4. ASSUME NEW a \in Proc, Insert(a)
      PROVE  ShapeInv' /\ Tables' /\ Dense' /\ Turns'
  BY <1>0, <1>4, InsertShape, InsertTables, InsertOrders
<1>5. ASSUME NEW a \in Proc, ListWaiting(a)
      PROVE  ShapeInv' /\ Tables' /\ Dense' /\ Turns'
  BY <1>0, <1>5, ListShape, GoesTables, ListOrders
<1>6. ASSUME NEW a \in Proc, Number(a)
      PROVE  ShapeInv' /\ Tables' /\ Dense' /\ Turns'
  BY <1>0, <1>6, NumberShape, GoesTables, NumberOrders
<1>7. ASSUME NEW a \in Proc, Schedule(a)
      PROVE  ShapeInv' /\ Tables' /\ Dense' /\ Turns'
  BY <1>0, <1>7, ScheduleShape, GoesTables, ScheduleOrders
<1>8. ASSUME NEW a \in Proc, Revert(a)
      PROVE  ShapeInv' /\ Tables' /\ Dense' /\ Turns'
  BY <1>0, <1>8, RevertShape, RevertTables, RevertOrders
<1>9. ASSUME NEW a \in Proc, Finish(a) \/ Crash(a)
      PROVE  ShapeInv' /\ Tables' /\ Dense' /\ Turns'
  BY <1>0, <1>9, EndShape, GoesTables, EndOrders
<1>10. ASSUME NEW g \in Guest, ExpireByHand(g)
       PROVE  ShapeInv' /\ Tables' /\ Dense' /\ Turns'
  BY <1>0, <1>10, ByHandShape, ByHandTables, ByHandOrders
<1>11. ASSUME NEW g \in Guest, Fire(g)
       PROVE  ShapeInv' /\ Tables' /\ Dense' /\ Turns'
  BY <1>0, <1>11, JobShape, JobTables, FireOrders
<1>12. ASSUME NEW g \in Guest, Stall(g)
       PROVE  ShapeInv' /\ Tables' /\ Dense' /\ Turns'
  BY <1>0, <1>12, JobShape, ByHandTables, ByHandOrders
<1>13. ASSUME NEW g \in Guest, Expire(g)
       PROVE  ShapeInv' /\ Tables' /\ Dense' /\ Turns'
  BY <1>0, <1>13, ExpireShape, ExpireTables, ExpireOrders
<1>14. ASSUME NEW g \in Guest, OfferNext(g)
       PROVE  ShapeInv' /\ Tables' /\ Dense' /\ Turns'
  BY <1>0, <1>14, OfferShape, JobTables, ExpireOrders
<1>15. ASSUME NEW g \in Guest, MarkNext(g)
       PROVE  ShapeInv' /\ Tables' /\ Dense' /\ Turns'
  BY <1>0, <1>15, MarkNextShape, MarkNextTables, MarkNextOrders
<1>16. CASE UNCHANGED vars
  <2>1. Typed' /\ AllSound'
    BY <1>16 DEF vars, Typed, AllSound, Sound
  <2>2. Tables'
    BY <1>16 DEF vars, Tables, Claims, HandedOn, Called
  <2>3. Dense' /\ Turns'
    BY <1>16 DEF vars, Dense, Calm, May, Numbered, Waiting, Turns, Steady, InTurn, InOrder
  <2> QED BY <2>1, <2>2, <2>3 DEF ShapeInv
<1> QED BY <1>1, <1>2, <1>3, <1>4, <1>5, <1>6, <1>7, <1>8, <1>9, <1>10, <1>11, <1>12, <1>13,
           <1>14, <1>15, <1>16 DEF Next, Ask, Goes, Works

\* Every reachable state satisfies the invariant, whoever comes and whatever fails.
THEOREM AlwaysWInv == Spec => []WInv
<1>1. Init => WInv
  BY InitWInv
<1>2. WInv /\ [Next]_vars => WInv'
  BY NextKeeps
<1> QED BY <1>1, <1>2, PTL DEF Spec

\* Every variable has its type. No more tables are offered than parties were
\* called, so the tables on offer are bounded by the parties.
THEOREM WaitlistTypeCorrect == Spec => []TypeOK
<1>1. ASSUME WInv PROVE TypeOK
  <2>1. Cardinality(Called) <= Cardinality(Guest) /\ Cardinality(Called) \in Nat
    BY Sized DEF Called
  <2>2. offered \in 0 .. Cardinality(Guest)
    BY <1>1, <2>1, IdleWork DEF WInv, Typed, Tables
  <2>3. ASSUME NEW g \in Guest
        PROVE  /\ status[g] \in Status /\ position[g] \in 0 .. Cardinality(Guest)
               /\ queue[g].st \in JobStates /\ queue[g].tries \in 0 .. Attempts - 1
               /\ status[g] = "none" => queue[g] = NoJob
    <3>1. queue[g] \in Job
      BY <1>1 DEF WInv, Typed
    <3> QED BY <1>1, <3>1 DEF WInv, Typed, AllSound, Job
  <2>4. ASSUME NEW a \in Proc
        PROVE  /\ h[a].who \in Guest \cup {None} /\ h[a].count \in 0 .. Cardinality(Guest)
               /\ ToSet(h[a].list) \subseteq Guest
    <3>1. PICK y \in Work : y = h[a]
      BY <1>1 DEF WInv, Typed
    <3>2. y.list \in Seq(Guest)
      BY DEF Work, Lists
    <3>3. ToSet(y.list) \subseteq Guest
      BY <3>2 DEF ToSet
    <3> QED BY <3>1, <3>3 DEF Work
  <2> QED BY <1>1, <2>2, <2>3, <2>4 DEF WInv, Typed, TypeOK
<1> QED BY <1>1, AlwaysWInv, PTL

\* One table is never promised to two parties, whatever overlaps, fails or dies:
\* an expiry gives up the claim before it offers the table to the next party,
\* and the next party's claim is the one given up.
THEOREM NoTablePromisedTwice == Spec => []OneGuestPerTable
<1>1. ASSUME WInv PROVE OneGuestPerTable
  BY <1>1, Counted DEF WInv, Typed, Tables, OneGuestPerTable, Claims
<1> QED BY <1>1, AlwaysWInv, PTL

\* Between requests that neither overlap nor die, the waiting parties hold the
\* positions from one to their number: whatever changes who waits renumbers.
THEOREM QueueHasNoGaps == Spec => []PositionsDense
<1>1. ASSUME WInv, Quiet, ~May("overlap"), ~May("crash") PROVE Numbered
  <2>1. \A a \in Proc : h[a].pc \notin {"list", "number"}
    BY <1>1 DEF Quiet, Idle
  <2> QED BY <1>1, <2>1 DEF WInv, Dense, Calm
<1>2. WInv => PositionsDense
  BY <1>1 DEF PositionsDense, Numbered
<1> QED BY <1>2, AlwaysWInv, PTL

\* As long as no notified party is taken back, a waiting party is never behind
\* one that joined after it: newcomers stand behind everyone, and renumbering
\* keeps the order.
THEOREM NobodyOvertakes == Spec => []KeepsPlace
<1>1. WInv => KeepsPlace
  BY DEF WInv, Turns, Steady, InTurn, KeepsPlace
<1> QED BY <1>1, AlwaysWInv, PTL

\* A party that was seated or cancelled never comes back, whatever is under way:
\* an insertion is for a party that never joined, and an expiry, a notification
\* and a party taken back each look at the status in the step that writes it.
THEOREM GoneIsGone == Spec => GoneStaysGone
<1>1. ASSUME WInv, [Next]_vars, NEW g \in Guest, status[g] \in Gone PROVE status'[g] \in Gone
  <2> USE DEF Gone
  <2>0. ShapeInv /\ status \in [Guest -> Status]
    BY <1>1 DEF WInv, ShapeInv, Typed
  <2>2. ASSUME NEW a \in Host, Ask(a) PROVE status'[g] \in Gone
    <3>1. CASE \E e \in Guest, to \in Gone : Leave(a, e, to)
      BY <1>1, <2>0, <3>1 DEF Leave, SetStatus
    <3>2. CASE \E e \in Guest : Join(a, e)
      BY <1>1, <3>2 DEF Join, Rows
    <3>3. CASE \E e \in Guest : Notify(a, e)
      BY <1>1, <2>0, <3>3 DEF Notify, Mark, SetStatus, Idle
    <3> QED BY <2>2, <3>1, <3>2, <3>3 DEF Ask
  <2>3. ASSUME NEW a \in Proc, Goes(a) \/ Crash(a) PROVE status'[g] \in Gone
    <3>1. CASE Insert(a)
      BY <1>1, <2>0, <3>1, AtWork DEF Insert, SetStatus, Sound
    <3>2. CASE Revert(a)
      BY <1>1, <2>0, <3>2 DEF Revert, SetStatus, Reverted
    <3>3. CASE ListWaiting(a) \/ Number(a) \/ Schedule(a) \/ Finish(a) \/ Crash(a)
      BY <1>1, <3>3 DEF ListWaiting, Number, Schedule, Finish, Crash, Rows
    <3> QED BY <2>3, <3>1, <3>2, <3>3 DEF Goes
  <2>4. ASSUME NEW f \in Guest, ExpireByHand(f) \/ Fire(f) \/ Works(f) \/ Stall(f)
        PROVE  status'[g] \in Gone
    <3>1. CASE ExpireByHand(f) \/ Expire(f)
      BY <1>1, <2>0, <3>1 DEF ExpireByHand, Expire, SetStatus, Expired
    <3>2. CASE MarkNext(f)
      BY <1>1, <2>0, <3>2 DEF MarkNext, Mark, SetStatus
    <3>3. CASE Fire(f) \/ OfferNext(f) \/ Stall(f)
      BY <1>1, <3>3 DEF Fire, OfferNext, Stall, Rows
    <3> QED BY <2>4, <3>1, <3>2, <3>3 DEF Works
  <2>5. CASE UNCHANGED vars
    BY <1>1, <2>5 DEF vars
  <2> QED BY <1>1, <2>2, <2>3, <2>4, <2>5 DEF Next
<1>2. WInv /\ [Next]_vars => [\A g \in Guest : status[g] \in Gone => status'[g] \in Gone]_vars
  BY <1>1
<1> QED BY <1>2, AlwaysWInv, PTL DEF Spec, GoneStaysGone
=============================================================================
