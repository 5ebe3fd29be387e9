------------------------ MODULE BookingClaims_proofs ------------------------
(***************************************************************************)
(* What TLAPS proves of Booking as an implementation of SlotClaims: each   *)
(* step is a step of the claims or leaves them alone, for any number of    *)
(* requests, rows, tables, sessions and instants.                          *)
(***************************************************************************)
EXTENDS BookingClaims, Booking_proofs

-----------------------------------------------------------------------------
(* The invariant.                                                          *)

\* Instants at which a booking can start.
Starts == {w.from : w \in Slot} \cup ({patch.from : patch \in Patch} \ {None})

\* Every window asked for ends after it starts; an edit that moves a booking and
\* leaves its start alone ends it after any start there is.
ForwardSlots ==
  /\ \A w \in Slot : w.from < w.to
  /\ "edit" \in Doors =>
       \A patch \in Patch : MovesSlot(patch) =>
         \A f \in (IF patch.from = None THEN Starts ELSE {patch.from}) : f < patch.to

Onward(w) == w.from < w.to /\ w.from \in Starts

\* The requests that write a row of their own.
Writers == {"confirm", "create", "walkin"}

\* A request still finds the rows as its door needs them.
Fit(q) ==
  /\ q.door \in Writers => ~Exists(q.rsv)
  /\ q.door = "hold" => hold[q.hold].st = "new"
  /\ UsesHold(q) =>
       /\ hold[q.hold].st # "new"
       /\ IsLive(q.hold) => hold[q.hold].table = q.table /\ hold[q.hold].win = q.win
  /\ IF q.door = "hold" THEN \A h \in q.drops : hold[h].st # "new" ELSE q.drops = {}
  /\ q.door = "edit" /\ MovesSlot(q.patch) => q.seen.st \notin NotBooked
  /\ Onward(q.win)

Fits == \A p \in Proc : pc[p] # "idle" => Fit(req[p])

\* No other request has the row or the hold that a request is to write.
Apart ==
  \A p \in Proc, x \in Proc : p # x /\ pc[p] # "idle" =>
    /\ req[p].door \in Writers => req[x].rsv # req[p].rsv
    /\ req[p].door = "hold" => req[x].hold # req[p].hold

OnwardRows == \A r \in Rsv : Exists(r) => Onward(res[r].win)

RInv == IInv /\ Fits /\ Apart /\ OnwardRows

-----------------------------------------------------------------------------
(* Rows and requests.                                                      *)

\* Holds that were written go nowhere: they age and are dropped.
HoldsKeep ==
  \A h \in Hold : hold[h].st # "new" =>
    /\ hold'[h].st # "new"
    /\ IsLive(h)' => IsLive(h) /\ hold'[h].table = hold[h].table /\ hold'[h].win = hold[h].win

LEMMA FitStays ==
  ASSUME NEW CONSTANT q \in Request, WellAsked(q), Fit(q), HoldsKeep,
         q.door \in Writers => ~Exists(q.rsv)',
         q.door = "hold" => hold'[q.hold].st = "new"
  PROVE  Fit(q)'
<1>1. UsesHold(q) => q.hold \in Hold
  BY DEF WellAsked, UsesHold
<1>2. q.drops \subseteq Hold
  BY DEF Request
<1> QED BY <1>1, <1>2 DEF Fit, HoldsKeep, UsesHold

\* What a request finds when it begins.
LEMMA AskFits ==
  ASSUME RInv, ForwardSlots, WholePatch, NEW p \in Proc, Ask(p)
  PROVE  \E q \in Request :
           /\ Serve(p, q) /\ WellAsked(q) /\ Fit(q)
           /\ \A x \in Proc :
                /\ q.door \in Writers => req[x].rsv # q.rsv
                /\ q.door = "hold" => req[x].hold # q.hold
                /\ pc[x] # "idle" =>
                     /\ req[x].door \in Writers => req[x].rsv # q.rsv
                     /\ req[x].door = "hold" => req[x].hold # q.hold
<1> DEFINE Good(q) ==
      /\ Serve(p, q) /\ WellAsked(q) /\ Fit(q)
      /\ \A x \in Proc :
           /\ q.door \in Writers => req[x].rsv # q.rsv
           /\ q.door = "hold" => req[x].hold # q.hold
           /\ pc[x] # "idle" =>
                /\ req[x].door \in Writers => req[x].rsv # q.rsv
                /\ req[x].door = "hold" => req[x].hold # q.hold
<1> USE DEF RInv, IInv, Shape
<1>0. \A w \in Slot : Onward(w)
  BY DEF ForwardSlots, Onward, Starts
<1>00. ASSUME NEW x \in Proc, pc[x] # "idle"
       PROVE  /\ req[x].door \in Writers => req[x].rsv \in Rsv /\ ~Exists(req[x].rsv)
              /\ req[x].door = "hold" => req[x].hold \in Hold /\ hold[req[x].hold].st = "new"
  BY <1>00, Begun DEF Fits, Fit, WellAsked, Writers
<1>1. ASSUME NEW s \in Session, NEW t \in Table, NEW w \in Slot, AskHold(p, s, t, w)
      PROVE  \E q \in Request : Good(q)
  <2>1. PICK h \in Hold : FreshHold(h) /\ Serve(p, Asking("hold", None, h, s, t, w))
    BY <1>1 DEF AskHold
  <2>2. PICK q : q = Asking("hold", None, h, s, t, w)
    OBVIOUS
  <2>3. q \in Request /\ WellAsked(q)
    BY <2>2, AskingHold
  <2>4. Fit(q)
    BY <2>1, <2>2, <1>0 DEF Fit, Asking, FreshHold, UsesHold, Writers
  <2>5. \A x \in Proc : pc[x] # "idle" /\ req[x].door \in Writers => req[x].rsv # q.rsv
    BY <1>00, <2>2, SlotAssumption DEF Asking
  <2> QED BY <2>1, <2>2, <2>3, <2>4, <2>5 DEF Asking, FreshHold, Writers
<1>2. ASSUME NEW h \in Hold, AskConfirm(p, h)
      PROVE  \E q \in Request : Good(q)
  <2>1. PICK r \in Rsv : FreshRsv(r) /\ IsLive(h)
            /\ Serve(p, Asking("confirm", r, h, None, hold[h].table, hold[h].win))
    BY <1>2 DEF AskConfirm
  <2>2. PICK q : q = Asking("confirm", r, h, None, hold[h].table, hold[h].win)
    OBVIOUS
  <2>3. q \in Request /\ WellAsked(q)
    BY <2>1, <2>2, AskingWithHold
  <2>4. hold[h].win \in Slot
    BY <2>1, LiveHold DEF HoldRow
  <2>5. Fit(q)
    BY <2>1, <2>2, <2>4, <1>0 DEF Fit, Asking, FreshRsv, UsesHold, Writers, IsLive
  <2>6. \A x \in Proc : pc[x] # "idle" /\ req[x].door = "hold" => req[x].hold # q.hold
    BY <1>00, <2>1, <2>2 DEF Asking, IsLive
  <2> QED BY <2>1, <2>2, <2>3, <2>5, <2>6 DEF Asking, FreshRsv, Writers
<1>3. ASSUME NEW r \in Rsv, NEW h \in Hold, AskMoveTo(p, r, h)
      PROVE  \E q \in Request : Good(q)
  <2>1. Exists(r) /\ IsLive(h)
            /\ Serve(p, Asking("moveTo", r, h, None, hold[h].table, hold[h].win))
    BY <1>3 DEF AskMoveTo
  <2>2. PICK q : q = Asking("moveTo", r, h, None, hold[h].table, hold[h].win)
    OBVIOUS
  <2>3. q \in Request /\ WellAsked(q)
    BY <2>1, <2>2, AskingWithHold
  <2>4. hold[h].win \in Slot
    BY <2>1, LiveHold DEF HoldRow
  <2>5. Fit(q)
    BY <2>1, <2>2, <2>4, <1>0 DEF Fit, Asking, UsesHold, Writers, IsLive
  <2>6. \A x \in Proc : pc[x] # "idle" =>
          /\ req[x].door = "hold" => req[x].hold # q.hold
          /\ req[x].door \in Writers => req[x].rsv # q.rsv
    BY <1>00, <2>1, <2>2 DEF Asking, IsLive
  <2> QED BY <2>1, <2>2, <2>3, <2>5, <2>6 DEF Asking, Writers
<1>4. ASSUME NEW d \in {"create", "walkin"}, NEW t \in Table, NEW w \in Slot, NEW r \in Rsv,
             FreshRsv(r), Serve(p, Asking(d, r, None, None, t, w))
      PROVE  \E q \in Request : Good(q)
  <2>1. PICK q : q = Asking(d, r, None, None, t, w)
    OBVIOUS
  <2>2. q \in Request /\ WellAsked(q)
    BY <2>1, AskingNew
  <2>3. Fit(q)
    BY <1>4, <2>1, <1>0 DEF Fit, Asking, FreshRsv, UsesHold, Writers
  <2>4. \A x \in Proc : pc[x] # "idle" /\ req[x].door = "hold" => req[x].hold # q.hold
    BY <1>00, <2>1, SlotAssumption DEF Asking
  <2> QED BY <1>4, <2>1, <2>2, <2>3, <2>4 DEF Asking, FreshRsv, Writers
<1>5. ASSUME NEW r \in Rsv, NEW patch \in Patch, AskEdit(p, r, patch)
      PROVE  \E q \in Request : Good(q)
  <2> DEFINE t == Named(patch.table, res[r].table)
             w == PatchedWin(patch, res[r].win)
             seen == [st |-> res[r].st, from |-> res[r].win.from]
  <2>1. Exists(r) /\ (MovesSlot(patch) => res[r].st \notin NotBooked)
            /\ Serve(p, Editing(r, t, w, patch, seen))
    BY <1>5 DEF AskEdit
  <2>2. PICK q : q = Editing(r, t, w, patch, seen)
    OBVIOUS
  <2>3. q \in Request /\ WellAsked(q)
    BY <2>1, <2>2, AskingEdit
  <2>4. res[r] \in Row /\ Onward(res[r].win)
    BY <2>1, ExistingRow DEF OnwardRows
  <2>5. Onward(w)
    <3>1. "edit" \in Doors
      BY <2>1 DEF Serve, Editing
    <3>2. w.from = Named(patch.from, res[r].win.from) /\ w.to = Named(patch.to, res[r].win.to)
      BY DEF PatchedWin
    <3>3. w.from \in Starts
      BY <2>4, <3>2 DEF Onward, Starts, Named
    <3>4. CASE MovesSlot(patch)
      BY <3>1, <3>2, <3>3, <3>4, <2>4 DEF ForwardSlots, WholePatch, Named, Onward
    <3>5. CASE ~MovesSlot(patch)
      BY <3>2, <3>5, <2>4 DEF MovesSlot, Named, Onward
    <3> QED BY <3>4, <3>5
  <2>6. Fit(q)
    BY <2>1, <2>2, <2>5 DEF Fit, Editing, UsesHold, Writers
  <2>7. \A x \in Proc : pc[x] # "idle" =>
          /\ req[x].door = "hold" => req[x].hold # q.hold
          /\ req[x].door \in Writers => req[x].rsv # q.rsv
    BY <1>00, <2>1, <2>2, SlotAssumption DEF Editing
  <2> QED BY <2>1, <2>2, <2>3, <2>6, <2>7 DEF Editing, Writers
<1>6. ASSUME NEW t \in Table, NEW w \in Slot, AskCreate(p, t, w) \/ AskWalkIn(p, t, w)
      PROVE  \E q \in Request : Good(q)
  BY <1>4, <1>6 DEF AskCreate, AskWalkIn
<1> QED BY <1>1, <1>2, <1>3, <1>5, <1>6 DEF Ask

\* Requests in flight go on fitting when none begins and the rows they wait to
\* write are left alone.
LEMMA OthersFit ==
  ASSUME RInv, HoldsKeep,
         \A x \in Proc : req'[x] \in {req[x], NoReq},
         \A x \in Proc : pc'[x] # "idle" =>
           /\ pc[x] # "idle" /\ req'[x] = req[x]
           /\ req[x].door \in Writers => ~Exists(req[x].rsv)'
           /\ req[x].door = "hold" => hold'[req[x].hold].st = "new"
  PROVE  Fits' /\ Apart'
<1> USE DEF RInv, IInv
<1>1. Fits'
  <2> SUFFICES ASSUME NEW x \in Proc, pc'[x] # "idle"
               PROVE  Fit(req[x])'
    BY DEF Fits
  <2>1. PICK q : q = req[x] /\ q = req'[x]
    OBVIOUS
  <2>2. q \in Request /\ WellAsked(q) /\ Fit(q)
    BY <2>1, Begun DEF Fits
  <2>3. Fit(q)'
    BY <2>1, <2>2, FitStays
  <2> QED BY <2>1, <2>3 DEF Fit, UsesHold
<1>2. Apart'
  <2> SUFFICES ASSUME NEW p \in Proc, NEW x \in Proc, p # x, pc'[p] # "idle"
               PROVE  /\ req'[p].door \in Writers => req'[x].rsv # req'[p].rsv
                      /\ req'[p].door = "hold" => req'[x].hold # req'[p].hold
    BY DEF Apart
  <2>1. /\ req[p].door \in Writers => req[x].rsv # req[p].rsv /\ req[p].rsv \in Rsv
        /\ req[p].door = "hold" => req[x].hold # req[p].hold /\ req[p].hold \in Hold
    BY Begun DEF Apart, WellAsked, Writers
  <2> QED BY <2>1, SlotAssumption DEF NoReq, Asking
<1> QED BY <1>1, <1>2

\* What the end of a request leaves to the others.
LEMMA EndFits ==
  ASSUME RInv, NEW p \in Proc, pc[p] # "idle", End(p), HoldsKeep,
         \A r \in Rsv : Exists(r)' =>
           Exists(r) \/ (r = req[p].rsv /\ req[p].door \in Writers),
         \A h \in Hold : hold[h].st = "new" =>
           hold'[h].st = "new" \/ (h = req[p].hold /\ req[p].door = "hold")
  PROVE  Fits' /\ Apart'
<1>1. \A x \in Proc : req'[x] \in {req[x], NoReq} /\ (pc'[x] # "idle" => x # p)
  BY DEF End, RInv, IInv, Shape, Typed
<1>2. ASSUME NEW x \in Proc, pc'[x] # "idle"
      PROVE  /\ pc[x] # "idle" /\ req'[x] = req[x]
             /\ req[x].door \in Writers => ~Exists(req[x].rsv)'
             /\ req[x].door = "hold" => hold'[req[x].hold].st = "new"
  <2>1. x # p /\ pc[x] # "idle" /\ req'[x] = req[x]
    BY <1>1, <1>2 DEF End, RInv, IInv, Shape, Typed
  <2>2. /\ req[p].door \in Writers => req[x].rsv # req[p].rsv
        /\ req[p].door = "hold" => req[x].hold # req[p].hold
    BY <2>1 DEF RInv, Apart
  <2>3. /\ req[x].door \in Writers => req[x].rsv \in Rsv /\ ~Exists(req[x].rsv)
        /\ req[x].door = "hold" => req[x].hold \in Hold /\ hold[req[x].hold].st = "new"
    BY <2>1, Begun DEF RInv, IInv, Fits, Fit, WellAsked, Writers
  <2> QED BY <2>1, <2>2, <2>3
<1> QED BY <1>1, <1>2, OthersFit

\* Dropping holds takes them away for good.
LEMMA DropsKeep ==
  ASSUME NEW hs, hold' = Drop(hs), \A h \in Hold : h \in hs => hold[h].st # "new"
  PROVE  HoldsKeep /\ \A h \in Hold : hold[h].st = "new" => hold'[h].st = "new"
BY DEF Drop, HoldsKeep, IsLive, NoHold

\* The window of every row stays one that ends after it starts.
LEMMA RowsOnward ==
  ASSUME RInv, NEW p \in Proc, pc[p] # "idle",
         \/ res' = res
         \/ req[p].rsv \in Rsv /\ \E row : /\ res' = [res EXCEPT ![req[p].rsv] = row]
                                           /\ row.win = req[p].win
  PROVE  OnwardRows'
<1>1. Onward(req[p].win)
  BY DEF RInv, Fits, Fit
<1> QED BY <1>1 DEF RInv, OnwardRows, Exists, IInv, Shape, Typed

LEMMA StepFits ==
  ASSUME RInv, WholePatch, NEW p \in Proc, Step(p)
  PROVE  Fits' /\ Apart' /\ OnwardRows'
<1> DEFINE q == req[p]
<1> USE DEF RInv, IInv
<1>0. /\ pc[p] # "idle" /\ q \in Request /\ WellAsked(q) /\ Fit(q)
      /\ pc[p] = "passed" \/ ~Settle(p)
  <2>1. pc[p] # "idle" /\ (pc[p] = "passed" \/ ~Settle(p))
    BY DEF Step, Settle, PreCheck, PreCheckFails, ShareVenue, LockTable, Check, Refuse,
           WriteHold, WriteConfirm, WriteMoveTo, WriteCreate, WriteEdit, WriteWalkIn,
           HoldVanished, EditMissed
  <2> QED BY <2>1, Begun DEF Fits
<1>1. CASE PreCheck(p) \/ ShareVenue(p) \/ LockTable(p)
  <2>1. /\ HoldsKeep /\ req' = req /\ res' = res /\ hold' = hold
        /\ \A x \in Proc : pc'[x] # "idle" => pc[x] # "idle"
    BY <1>1, <1>0 DEF PreCheck, ShareVenue, LockTable, HoldsKeep, IsLive, Shape, Typed
  <2>2. \A x \in Proc : pc[x] # "idle" =>
          /\ req[x].door \in Writers => ~Exists(req[x].rsv)'
          /\ req[x].door = "hold" => hold'[req[x].hold].st = "new"
    BY <2>1 DEF Fits, Fit, Exists
  <2> QED BY <2>1, <2>2, <1>0, OthersFit, RowsOnward
<1>2. CASE Check(p)
  <2>1. /\ HoldsKeep /\ res' = res /\ hold' = hold
        /\ \A x \in Proc \ {p} : req'[x] = req[x]
        /\ \A x \in Proc : pc'[x] # "idle" => pc[x] # "idle"
    BY <1>2, <1>0 DEF Check, HoldsKeep, IsLive, Shape, Typed
  <2>2. SameSlot(req'[p], q) /\ req'[p].drops = Replaces(q)
    BY <1>2, Begun DEF Check, SameSlot, Request, Shape, Typed
  <2>3. \A h \in Replaces(q) : h \in Hold /\ hold[h].st # "new"
    BY DEF Replaces, IsLive
  <2>4. ASSUME NEW x \in Proc, pc'[x] # "idle"
        PROVE  Fit(req[x])'
    <3>1. CASE x = p
      BY <3>1, <1>0, <2>1, <2>2, <2>3 DEF Fit, SameSlot, Exists, IsLive, UsesHold, Replaces
    <3>2. CASE x # p
      BY <3>2, <2>1, <2>4 DEF Fits, Fit, Exists, IsLive, UsesHold
    <3> QED BY <3>1, <3>2
  <2>5. Apart'
    BY <2>1, <2>2 DEF Apart, SameSlot
  <2> QED BY <2>1, <2>4, <2>5, <1>0, RowsOnward DEF Fits
<1>3. CASE PreCheckFails(p) \/ HoldVanished(p) \/ EditMissed(p) \/ Refuse(p)
  <2>1. End(p) /\ res' = res
    BY <1>3 DEF PreCheckFails, HoldVanished, EditMissed, Refuse
  <2>2. HoldsKeep /\ \A h \in Hold : hold[h].st = "new" => hold'[h].st = "new"
    <3>1. CASE hold' = hold
      BY <3>1 DEF HoldsKeep, IsLive
    <3>2. CASE Refuse(p) /\ hold' = Drop({q.hold}) /\ q.door = "confirm"
      <4>1. \A h \in Hold : h \in {q.hold} => hold[h].st # "new"
        BY <3>2, <1>0 DEF Fit, UsesHold
      <4> QED BY <3>2, <4>1, DropsKeep
    <3> QED BY <1>3, <3>1, <3>2 DEF PreCheckFails, HoldVanished, EditMissed, Refuse
  <2>3. \A r \in Rsv : Exists(r)' => Exists(r)
    BY <2>1 DEF Exists
  <2> QED BY <2>1, <2>2, <2>3, <1>0, EndFits, RowsOnward
<1>4. CASE WriteHold(p)
  <2>1. End(p) /\ res' = res /\ q.door = "hold" /\ q.hold \in Hold
    BY <1>4, <1>0 DEF WriteHold, WellAsked
  <2>2. HoldsKeep /\ \A h \in Hold : hold[h].st = "new" => hold'[h].st = "new" \/ h = q.hold
    BY <1>4, <1>0, <2>1 DEF WriteHold, Drop, HoldsKeep, Fit, IsLive, NoHold
  <2>3. \A r \in Rsv : Exists(r)' => Exists(r)
    BY <2>1 DEF Exists
  <2> QED BY <2>1, <2>2, <2>3, <1>0, EndFits, RowsOnward
<1>5. CASE WriteConfirm(p) \/ WriteCreate(p) \/ WriteWalkIn(p)
  <2>1. PICK st : res' = [res EXCEPT ![q.rsv] = NewRow(q, st)]
    BY <1>5 DEF WriteConfirm, WriteCreate, WriteWalkIn
  <2>2. End(p) /\ q.door \in Writers /\ q.rsv \in Rsv
    BY <1>5, <1>0 DEF WriteConfirm, WriteCreate, WriteWalkIn, Writers, WellAsked
  <2>3. hold' = hold \/ (hold' = Drop({q.hold}) /\ hold[q.hold].st # "new")
    BY <1>5 DEF WriteConfirm, WriteCreate, WriteWalkIn, IsLive
  <2>4. HoldsKeep /\ \A h \in Hold : hold[h].st = "new" => hold'[h].st = "new"
    BY <2>3, DropsKeep DEF HoldsKeep, IsLive
  <2>5. \A r \in Rsv : Exists(r)' => Exists(r) \/ r = q.rsv
    BY <2>1 DEF Exists, Shape, Typed
  <2>6. NewRow(q, st).win = q.win
    BY DEF NewRow
  <2> QED BY <2>1, <2>2, <2>4, <2>5, <2>6, <1>0, EndFits, RowsOnward
<1>6. CASE WriteMoveTo(p)
  <2>1. End(p) /\ q.rsv \in Rsv /\ Exists(q.rsv) /\ IsLive(q.hold) /\ hold' = Drop({q.hold})
    BY <1>6, <1>0 DEF WriteMoveTo, WellAsked
  <2>2. res[q.rsv] \in Row
    BY <2>1, ExistingRow DEF Shape
  <2>3. PICK row : row = [res[q.rsv] EXCEPT !.table = q.table, !.win = q.win]
    OBVIOUS
  <2>4. row.win = q.win
    BY <2>2, <2>3 DEF Row
  <2>5. res' = [res EXCEPT ![q.rsv] = row]
    BY <1>6, <2>1, <2>2, <2>3 DEF WriteMoveTo, Shape, Typed, Row
  <2>6. HoldsKeep /\ \A h \in Hold : hold[h].st = "new" => hold'[h].st = "new"
    BY <2>1, DropsKeep DEF IsLive
  <2>7. \A r \in Rsv : Exists(r)' => Exists(r)
    BY <2>1, <2>5 DEF Exists, Shape, Typed
  <2> QED BY <2>1, <2>4, <2>5, <2>6, <2>7, <1>0, EndFits, RowsOnward
<1>7. CASE WriteEdit(p)
  <2>1. PICK row \in Row :
          /\ q.rsv \in Rsv /\ res[q.rsv] \in Row /\ res' = [res EXCEPT ![q.rsv] = row]
          /\ IF MovesSlot(q.patch) THEN row.win = q.win ELSE row = res[q.rsv]
    BY <1>7, EditWrites
  <2>2. End(p) /\ hold' = hold
    BY <1>7 DEF WriteEdit
  <2>3. HoldsKeep
    BY <2>2 DEF HoldsKeep, IsLive
  <2>4. \A r \in Rsv : Exists(r)' => Exists(r)
    BY <2>1 DEF Exists, Shape, Typed, Row, Statuses, Live, NotBooked
  <2>5. OnwardRows'
    <3>1. CASE MovesSlot(q.patch)
      BY <3>1, <2>1, <1>0, RowsOnward
    <3>2. CASE ~MovesSlot(q.patch)
      <4>1. res' = res
        BY <3>2, <2>1 DEF Shape, Typed
      <4> QED BY <4>1, <1>0, RowsOnward
    <3> QED BY <3>1, <3>2
  <2> QED BY <2>2, <2>3, <2>4, <2>5, <1>0, EndFits
<1> QED BY <1>1, <1>2, <1>3, <1>4, <1>5, <1>6, <1>7 DEF Step, Settle

LEMMA BeginsFit ==
  ASSUME RInv, ForwardSlots, WholePatch, NEW p \in Proc, Ask(p)
  PROVE  Fits' /\ Apart' /\ OnwardRows'
<1> USE DEF RInv, IInv
<1>1. PICK q \in Request :
        /\ Serve(p, q) /\ WellAsked(q) /\ Fit(q)
        /\ \A x \in Proc :
             /\ q.door \in Writers => req[x].rsv # q.rsv
             /\ q.door = "hold" => req[x].hold # q.hold
             /\ pc[x] # "idle" =>
                  /\ req[x].door \in Writers => req[x].rsv # q.rsv
                  /\ req[x].door = "hold" => req[x].hold # q.hold
  BY AskFits
<1>2. /\ res' = res /\ hold' = hold /\ req' = [req EXCEPT ![p] = q]
      /\ \A x \in Proc \ {p} : pc'[x] = pc[x]
  BY <1>1 DEF Serve, Shape, Typed
<1>3. ASSUME NEW x \in Proc, pc'[x] # "idle"
      PROVE  Fit(req[x])'
  <2>1. Fit(req'[x])
    BY <1>1, <1>2, <1>3 DEF Fits, Shape, Typed
  <2> QED BY <2>1, <1>2 DEF Fit, Exists, IsLive, UsesHold
<1>4. Apart'
  BY <1>1, <1>2 DEF Apart, Shape, Typed
<1>5. OnwardRows'
  BY <1>2 DEF OnwardRows, Exists
<1> QED BY <1>3, <1>4, <1>5 DEF Fits

LEMMA AsideFits ==
  ASSUME RInv, Aside \/ Rest \/ UNCHANGED vars
  PROVE  Fits' /\ Apart' /\ OnwardRows'
<1> USE DEF RInv, IInv
<1>1. req' = req /\ pc' = pc
  BY DEF Aside, ChangeStatus, ReleaseHold, HoldAges, ReadExpired, CleanupExpired, requests,
         Rest, vars
<1>2. \A r \in Rsv : (Exists(r) <=> Exists(r)') /\ (Exists(r) => res'[r].win = res[r].win)
  <2>1. CASE \E r \in Rsv, st \in Statuses : ChangeStatus(r, st)
    <3>1. PICK r \in Rsv, st \in Statuses : ChangeStatus(r, st)
      BY <2>1
    <3>2. Exists(r)
      BY <3>1 DEF ChangeStatus, Transitions, Exists
    <3>3. res[r] \in Row
      BY <3>2, ExistingRow DEF Shape
    <3> QED BY <3>1, <3>2, <3>3 DEF ChangeStatus, Exists, Shape, Typed, Row, Statuses,
                                    Live, NotBooked
  <2>2. CASE res' = res
    BY <2>2 DEF Exists
  <2> QED BY <2>1, <2>2 DEF Aside, ReleaseHold, HoldAges, ReadExpired, CleanupExpired, Rest, vars
<1>3. HoldsKeep /\ \A h \in Hold : hold[h].st = "new" => hold'[h].st = "new"
  <2>1. CASE \E hs \in SUBSET Hold : hold' = Drop(hs) /\ \A h \in hs : IsLive(h)
    <3>1. PICK hs \in SUBSET Hold : hold' = Drop(hs) /\ \A h \in hs : IsLive(h)
      BY <2>1
    <3>2. \A h \in Hold : h \in hs => hold[h].st # "new"
      BY <3>1 DEF IsLive
    <3> QED BY <3>1, <3>2, DropsKeep
  <2>2. CASE \E h \in Hold : HoldAges(h)
    <3>1. PICK h \in Hold : HoldAges(h)
      BY <2>2
    <3>2. hold[h] \in HoldRow
      BY <3>1, LiveHold DEF HoldAges, Shape
    <3> QED BY <3>1, <3>2 DEF HoldAges, HoldsKeep, IsLive, Shape, Typed, HoldRow
  <2>3. CASE hold' = hold
    BY <2>3 DEF HoldsKeep, IsLive
  <2>4. ASSUME NEW h \in Hold, ReleaseHold(h) \/ ReadExpired(h)
        PROVE  \E hs \in SUBSET Hold : hold' = Drop(hs) /\ \A g \in hs : IsLive(g)
    <3> WITNESS {h} \in SUBSET Hold
    <3> QED BY <2>4 DEF ReleaseHold, ReadExpired, Expired
  <2>5. ASSUME CleanupExpired
        PROVE  \E hs \in SUBSET Hold : hold' = Drop(hs) /\ \A g \in hs : IsLive(g)
    <3>1. Expired \in SUBSET Hold
      BY DEF Expired
    <3> QED BY <2>5, <3>1 DEF CleanupExpired, Expired
  <2> QED BY <2>1, <2>2, <2>3, <2>4, <2>5 DEF Aside, ChangeStatus, Rest, vars
<1>4. \A x \in Proc : pc[x] # "idle" =>
        /\ req[x].door \in Writers => ~Exists(req[x].rsv)'
        /\ req[x].door = "hold" => hold'[req[x].hold].st = "new"
  BY <1>1, <1>2, <1>3, Begun DEF Fits, Fit, WellAsked, Writers
<1>5. OnwardRows'
  BY <1>2 DEF OnwardRows
<1> QED BY <1>1, <1>3, <1>4, <1>5, OthersFit

LEMMA NextRInv ==
  ASSUME WholePatch, ForwardSlots
  PROVE  RInv /\ [Next]_vars => RInv'
<1> SUFFICES ASSUME RInv, [Next]_vars PROVE RInv'
  OBVIOUS
<1>1. IInv'
  BY NextIInv DEF RInv
<1>2. Fits' /\ Apart' /\ OnwardRows'
  BY StepFits, BeginsFit, AsideFits DEF Next
<1> QED BY <1>1, <1>2 DEF RInv

LEMMA AlwaysRInv ==
  ASSUME WholePatch, ForwardSlots
  PROVE  Spec => []RInv
<1>1. Init => RInv
  BY InitIInv DEF RInv, Init, Fits, Apart, OnwardRows, Exists, NoRow
<1> QED BY <1>1, NextRInv, PTL DEF Spec

-----------------------------------------------------------------------------
(* What a step does to the claims.                                         *)

\* No booking changes its claim, or only r does.
SameBookings(S) ==
  \A r \in S : /\ Booked(r)' <=> Booked(r)
               /\ Booked(r) => /\ res'[r].table = res[r].table
                               /\ res'[r].win = res[r].win
                               /\ res'[r].walkIn = res[r].walkIn

\* No hold changes its claim, but that some may lapse.
SameHolds ==
  \A h \in Hold : /\ IsLive(h)' <=> IsLive(h)
                  /\ IsLive(h) => /\ hold'[h].table = hold[h].table
                                  /\ hold'[h].win = hold[h].win

LEMMA BookingsStutter ==
  ASSUME SameBookings(Rsv)
  PROVE  BookedClaims' = BookedClaims /\ SeatedWalkIns' = SeatedWalkIns
BY DEF SameBookings, BookedClaims, SeatedWalkIns, ClaimOfRow

LEMMA HoldsStutter ==
  ASSUME hold' = hold
  PROVE  HeldClaims' = HeldClaims /\ LapsedHolds' = LapsedHolds
BY DEF HeldClaims, LapsedHolds, ClaimOfRow, IsLive, Active

\* One booking gets a claim.
LEMMA BookingClaimed ==
  ASSUME NEW r \in Rsv, SameBookings(Rsv \ {r}), Booked(r)'
  PROVE  /\ BookedClaims' = [BookedClaims EXCEPT ![r] = ClaimOfRow(res'[r])]
         /\ SeatedWalkIns' = IF res'[r].walkIn THEN SeatedWalkIns \cup {r}
                                               ELSE SeatedWalkIns \ {r}
<1>1. BookedClaims' = [BookedClaims EXCEPT ![r] = ClaimOfRow(res'[r])]
  BY DEF SameBookings, BookedClaims, ClaimOfRow
<1>2. SeatedWalkIns' = IF res'[r].walkIn THEN SeatedWalkIns \cup {r}
                                         ELSE SeatedWalkIns \ {r}
  BY DEF SameBookings, SeatedWalkIns
<1> QED BY <1>1, <1>2

LEMMA HoldsDropped ==
  ASSUME NEW hs \in SUBSET Hold, hold' = Drop(hs)
  PROVE  HeldClaims' = Claims!Without(hs) /\ LapsedHolds' = LapsedHolds \ hs
<1>1. \A h \in Hold : /\ IsLive(h)' <=> IsLive(h) /\ h \notin hs
                      /\ h \notin hs => hold'[h] = hold[h]
  BY DEF Drop, IsLive, NoHold
<1>2. HeldClaims' = Claims!Without(hs)
  BY <1>1 DEF HeldClaims, Claims!Without, ClaimOfRow
<1>3. LapsedHolds' = LapsedHolds \ hs
  BY <1>1 DEF LapsedHolds, Active
<1> QED BY <1>2, <1>3

\* Dropping holds is a release, or nothing.
LEMMA DropReleases ==
  ASSUME NEW hs \in SUBSET Hold, hold' = Drop(hs), SameBookings(Rsv)
  PROVE  [Claims!Next]_(Claims!claims)
<1>1. CASE hs # {}
  <2>1. Claims!Release(hs)
    BY <1>1, HoldsDropped, BookingsStutter DEF Claims!Release
  <2> QED BY <2>1 DEF Claims!Next
<1>2. CASE hs = {}
  <2>1. HeldClaims' = Claims!Without({}) /\ LapsedHolds' = LapsedHolds
    BY <1>2, HoldsDropped
  <2>2. Claims!Without({}) = HeldClaims
    BY DEF Claims!Without, HeldClaims
  <2> QED BY <2>1, <2>2, BookingsStutter DEF Claims!claims
<1> QED BY <1>1, <1>2

-----------------------------------------------------------------------------
(* A verdict, in terms of claims.                                          *)

ClaimOf(q) == [table |-> q.table, win |-> q.win]

LEMMA VerdictOfClaims ==
  ASSUME RInv, NEW p \in Proc, pc[p] = "passed"
  PROVE  LET q == req[p] IN
         /\ ClaimOf(q) \in Claims!Claim
         /\ Claims!NoBooking(ClaimOf(q), q.rsv)
         /\ ChecksHolds(q) => Claims!NoHolds(ClaimOf(q), {q.hold} \cup q.drops)
<1> DEFINE q == req[p]
<1>1. q \in Request /\ WellAsked(q) /\ Fit(q)
  BY Begun DEF RInv, IInv, Fits
<1>2. TableFree(q) /\ (ChecksHolds(q) => HoldsClear(q))
  BY DEF RInv, IInv, VerdictHolds
<1>3. ClaimOf(q) \in Claims!Claim
  BY <1>1 DEF Fit, Onward, Forward, Request, ClaimOf, Claims!Claim
<1>4. Claims!NoBooking(ClaimOf(q), q.rsv)
  BY <1>2 DEF TableFree, On, BookedClaims, ClaimOfRow, ClaimOf, Claims!NoBooking,
              Claims!Clash, Claims!Overlaps, Overlaps
<1>5. ASSUME ChecksHolds(q)
      PROVE  Claims!NoHolds(ClaimOf(q), {q.hold} \cup q.drops)
  <2> SUFFICES ASSUME NEW h \in Hold, h # q.hold, h \notin q.drops, h \notin LapsedHolds,
                      Claims!Clash(HeldClaims[h], ClaimOf(q))
               PROVE  FALSE
    BY DEF Claims!NoHolds
  <2>1. IsLive(h) /\ hold[h].table = q.table /\ Overlaps(hold[h].win, q.win)
    BY DEF Claims!Clash, HeldClaims, ClaimOfRow, ClaimOf, Claims!Overlaps, Overlaps
  <2>2. HeldOn(h, q.table, q.win)
    BY <2>1 DEF LapsedHolds, HeldOn
  <2>3. q.door = "hold" /\ hold[h].session = q.session
    BY <1>2, <1>5, <2>2 DEF HoldsClear
  <2> QED BY <2>1, <2>3 DEF RInv, IInv, Locks, DropsMine
<1> QED BY <1>3, <1>4, <1>5

-----------------------------------------------------------------------------
(* Each step of a request is a step of the claims, or none.                *)

\* A hold is placed where nothing stands.
LEMMA PlacesHold ==
  ASSUME RInv, NEW p \in Proc, WriteHold(p)
  PROVE  Claims!Next
<1>0. PICK q : q = req[p]
  OBVIOUS
<1>1. /\ pc[p] = "passed" /\ q.door = "hold" /\ res' = res
      /\ hold' = [Drop(q.drops) EXCEPT ![q.hold] =
                    [st |-> "live", table |-> q.table, win |-> q.win,
                     session |-> q.session, age |-> "active"]]
  BY <1>0 DEF WriteHold
<1>2. q.hold \in Hold /\ q.rsv = None /\ q.drops \in SUBSET Hold /\ Fit(q)
  BY <1>0, <1>1, Begun DEF RInv, IInv, WellAsked, Request, Fits
<1>3. ~IsLive(q.hold)
  BY <1>1, <1>2 DEF Fit, IsLive
<1>4. HeldClaims[q.hold] = None
  BY <1>2, <1>3 DEF HeldClaims
<1>5. /\ \A h \in Hold \ {q.hold} : /\ IsLive(h)' <=> IsLive(h) /\ h \notin q.drops
                                    /\ h \notin q.drops => hold'[h] = hold[h]
      /\ IsLive(q.hold)' /\ Active(q.hold)'
      /\ hold'[q.hold].table = q.table /\ hold'[q.hold].win = q.win
  BY <1>1, <1>2 DEF Drop, IsLive, Active, NoHold
<1>6. HeldClaims' = [Claims!Without(q.drops) EXCEPT ![q.hold] = ClaimOf(q)]
  BY <1>1, <1>2, <1>5 DEF HeldClaims, Claims!Without, ClaimOfRow, ClaimOf
<1>7. LapsedHolds' = LapsedHolds \ q.drops
  BY <1>1, <1>2, <1>3, <1>5 DEF LapsedHolds, Active
<1>8. UNCHANGED <<BookedClaims, SeatedWalkIns>>
  BY <1>1, BookingsStutter DEF SameBookings, Booked, Exists
<1>9. /\ ClaimOf(q) \in Claims!Claim
      /\ Claims!NoBooking(ClaimOf(q), None)
      /\ Claims!NoHolds(ClaimOf(q), {q.hold} \cup q.drops)
  BY <1>0, <1>1, <1>2, VerdictOfClaims DEF ChecksHolds
<1>10. Claims!NoHolds(ClaimOf(q), q.drops)
  BY <1>4, <1>9 DEF Claims!NoHolds, Claims!Clash
<1>11. Claims!Place(q.hold, ClaimOf(q), q.drops)
  BY <1>4, <1>6, <1>7, <1>8, <1>9, <1>10 DEF Claims!Place
<1> QED BY <1>2, <1>9, <1>11 DEF Claims!Next

\* A hold is spent on the booking its request is about.
LEMMA SpendsHold ==
  ASSUME RInv, NEW p \in Proc, NEW q, q = req[p], pc[p] = "passed", UsesHold(q), IsLive(q.hold),
         hold' = Drop({q.hold}),
         SameBookings(Rsv \ {q.rsv}), Booked(q.rsv)',
         res'[q.rsv].table = q.table, res'[q.rsv].win = q.win,
         SeatedWalkIns' = SeatedWalkIns
  PROVE  Claims!Next
<1>1. q.hold \in Hold /\ q.rsv \in Rsv /\ Fit(q) /\ q.door # "hold" /\ ChecksHolds(q)
  BY Begun DEF RInv, IInv, WellAsked, Fits, UsesHold, ChecksHolds
<1>2. q.drops = {} /\ HeldClaims[q.hold] = ClaimOf(q) /\ HeldClaims[q.hold] # None
  BY <1>1, Begun, NoneIsNoClaim DEF RInv, IInv, Request, Fit, HeldClaims, ClaimOf, ClaimOfRow
<1>3. HeldClaims' = Claims!Without({q.hold}) /\ LapsedHolds' = LapsedHolds \ {q.hold}
  BY <1>1, HoldsDropped
<1>4. BookedClaims' = [BookedClaims EXCEPT ![q.rsv] = ClaimOf(q)]
  BY <1>1, BookingClaimed DEF ClaimOf, ClaimOfRow
<1>5. Claims!NoBooking(ClaimOf(q), q.rsv) /\ Claims!NoHolds(ClaimOf(q), {q.hold})
  BY <1>1, <1>2, VerdictOfClaims
<1>6. Claims!Spend(q.hold, q.rsv)
  BY <1>2, <1>3, <1>4, <1>5 DEF Claims!Spend
<1> QED BY <1>1, <1>6 DEF Claims!Next

\* A booking that uses no hold is written where nothing stands.
LEMMA BooksClaim ==
  ASSUME RInv, NEW p \in Proc, NEW q, q = req[p], pc[p] = "passed", q.door \in {"create", "edit"},
         hold' = hold,
         SameBookings(Rsv \ {q.rsv}), Booked(q.rsv)',
         res'[q.rsv].table = q.table, res'[q.rsv].win = q.win,
         SeatedWalkIns' = SeatedWalkIns
  PROVE  Claims!Next
<1>1. q.hold = None /\ q.rsv \in Rsv /\ Fit(q) /\ ChecksHolds(q)
  BY Begun DEF RInv, IInv, WellAsked, Fits, ChecksHolds
<1>2. q.drops = {}
  BY <1>1 DEF Fit
<1>3. BookedClaims' = [BookedClaims EXCEPT ![q.rsv] = ClaimOf(q)]
  BY <1>1, BookingClaimed DEF ClaimOf, ClaimOfRow
<1>4. /\ ClaimOf(q) \in Claims!Claim
      /\ Claims!NoBooking(ClaimOf(q), q.rsv) /\ Claims!NoHolds(ClaimOf(q), {None})
  BY <1>1, <1>2, VerdictOfClaims
<1>5. Claims!NoHolds(ClaimOf(q), {})
  BY <1>4, SlotAssumption DEF Claims!NoHolds
<1>6. Claims!Book(q.rsv, ClaimOf(q))
  BY <1>3, <1>4, <1>5, HoldsStutter DEF Claims!Book
<1> QED BY <1>1, <1>4, <1>6 DEF Claims!Next

\* A row of a writer is new, so the other bookings keep their claims.
LEMMA WritesNewRow ==
  ASSUME RInv, NEW p \in Proc, NEW q, q = req[p], pc[p] = "passed", q.door \in Writers,
         NEW st \in Live, res' = [res EXCEPT ![q.rsv] = NewRow(q, st)]
  PROVE  LET r == q.rsv IN
         /\ r \in Rsv /\ BookedClaims[r] = None /\ r \notin SeatedWalkIns
         /\ SameBookings(Rsv \ {r}) /\ Booked(r)'
         /\ res'[r].table = q.table /\ res'[r].win = q.win
         /\ SeatedWalkIns' = IF q.door = "walkin" THEN SeatedWalkIns \cup {r}
                                                       ELSE SeatedWalkIns
<1> DEFINE r == q.rsv
<1>1. r \in Rsv /\ ~Exists(r)
  BY Begun DEF RInv, IInv, WellAsked, Fits, Fit, Writers
<1>2. BookedClaims[r] = None /\ r \notin SeatedWalkIns
  BY <1>1 DEF BookedClaims, SeatedWalkIns, Booked
<1>3. PICK row : row = NewRow(q, st)
  OBVIOUS
<1>4. /\ row.table = q.table /\ row.win = q.win /\ row.st = st
      /\ row.walkIn = (q.door = "walkin")
  BY <1>3 DEF NewRow
<1>5. res'[r] = row /\ \A x \in Rsv \ {r} : res'[x] = res[x]
  BY <1>1, <1>3 DEF RInv, IInv, Shape, Typed
<1>6. SameBookings(Rsv \ {r}) /\ Booked(r)'
  BY <1>4, <1>5 DEF SameBookings, Booked, Exists, Live, NotBooked
<1>7. SeatedWalkIns' = IF row.walkIn THEN SeatedWalkIns \cup {r} ELSE SeatedWalkIns \ {r}
  BY <1>1, <1>5, <1>6, BookingClaimed
<1> QED BY <1>1, <1>2, <1>4, <1>5, <1>6, <1>7

LEMMA StepClaims ==
  ASSUME RInv, WholePatch, NEW p \in Proc, Step(p)
  PROVE  [Claims!Next]_(Claims!claims)
<1>0. PICK q : q = req[p]
  OBVIOUS
<1> USE DEF RInv, IInv
<1>1. CASE res' = res /\ hold' = hold
  <2>1. SameBookings(Rsv)
    BY <1>1 DEF SameBookings, Booked, Exists
  <2> QED BY <2>1, <1>1, BookingsStutter, HoldsStutter DEF Claims!claims
<1>2. CASE Refuse(p) /\ q.door = "confirm"
  <2>1. res' = res /\ hold' = Drop({q.hold}) /\ q.hold \in Hold
    BY <1>0, <1>2, Begun DEF Refuse, WellAsked
  <2>2. SameBookings(Rsv)
    BY <2>1 DEF SameBookings, Booked, Exists
  <2> QED BY <2>1, <2>2, DropReleases
<1>3. CASE WriteHold(p)
  BY <1>3, PlacesHold
<1>4. CASE WriteConfirm(p)
  <2>1. /\ pc[p] = "passed" /\ q.door = "confirm" /\ IsLive(q.hold)
        /\ res' = [res EXCEPT ![q.rsv] = NewRow(q, "CONFIRMED")] /\ hold' = Drop({q.hold})
    BY <1>0, <1>4 DEF WriteConfirm
  <2>2. /\ SameBookings(Rsv \ {q.rsv}) /\ Booked(q.rsv)'
        /\ res'[q.rsv].table = q.table /\ res'[q.rsv].win = q.win
        /\ SeatedWalkIns' = SeatedWalkIns
    BY <2>1, <1>0, WritesNewRow DEF Writers, Live
  <2> QED BY <2>1, <2>2, <1>0, SpendsHold DEF UsesHold
<1>5. CASE WriteMoveTo(p)
  <2>1. /\ pc[p] = "passed" /\ q.door = "moveTo" /\ IsLive(q.hold) /\ hold' = Drop({q.hold})
        /\ res' = [res EXCEPT ![q.rsv].table = q.table, ![q.rsv].win = q.win]
    BY <1>0, <1>5 DEF WriteMoveTo
  <2>2. q.rsv \in Rsv /\ q.hold \in Hold /\ Exists(q.rsv)
    BY <1>0, <2>1, Begun DEF WellAsked
  <2>3. res[q.rsv] \in Row
    BY <2>2, ExistingRow DEF Shape
  <2>4. /\ \A r \in Rsv \ {q.rsv} : res'[r] = res[r]
        /\ res'[q.rsv].table = q.table /\ res'[q.rsv].win = q.win
        /\ res'[q.rsv].st = res[q.rsv].st /\ res'[q.rsv].walkIn = res[q.rsv].walkIn
    BY <2>1, <2>2, <2>3 DEF Shape, Typed, Row
  <2>5. SameBookings(Rsv \ {q.rsv})
    BY <2>4 DEF SameBookings, Booked, Exists
  <2>6. CASE Booked(q.rsv)
    <3>1. Booked(q.rsv)'
      BY <2>4, <2>6 DEF Booked, Exists
    <3>2. SeatedWalkIns' = SeatedWalkIns
      BY <2>2, <2>4, <2>5, <2>6, <3>1 DEF SeatedWalkIns, SameBookings
    <3> QED BY <1>0, <2>1, <2>4, <2>5, <3>1, <3>2, SpendsHold DEF UsesHold
  <2>7. CASE ~Booked(q.rsv)
    <3>1. SameBookings(Rsv)
      BY <2>4, <2>5, <2>7 DEF SameBookings, Booked, Exists
    <3> QED BY <2>1, <2>2, <3>1, DropReleases
  <2> QED BY <2>6, <2>7
<1>6. CASE WriteCreate(p)
  <2>1. /\ pc[p] = "passed" /\ q.door = "create" /\ hold' = hold
        /\ res' = [res EXCEPT ![q.rsv] = NewRow(q, "PENDING")]
    BY <1>0, <1>6 DEF WriteCreate
  <2> QED BY <2>1, <1>0, WritesNewRow, BooksClaim DEF Writers, Live
<1>7. CASE WriteEdit(p)
  <2>1. PICK row \in Row :
          /\ q.rsv \in Rsv /\ res[q.rsv] \in Row /\ res[q.rsv].st = q.seen.st
          /\ res' = [res EXCEPT ![q.rsv] = row]
          /\ row.st = res[q.rsv].st /\ row.walkIn = res[q.rsv].walkIn
          /\ IF MovesSlot(q.patch) THEN row.table = q.table /\ row.win = q.win
                                   ELSE row = res[q.rsv]
    BY <1>0, <1>7, EditWrites
  <2>2. pc[p] = "passed" /\ q.door = "edit" /\ hold' = hold
    BY <1>0, <1>7 DEF WriteEdit
  <2>3. CASE ~MovesSlot(q.patch)
    <3>1. res' = res
      BY <2>1, <2>3 DEF Shape, Typed
    <3> QED BY <1>1, <2>2, <3>1
  <2>4. CASE MovesSlot(q.patch)
    <3>1. res'[q.rsv] = row /\ \A r \in Rsv \ {q.rsv} : res'[r] = res[r]
      BY <2>1 DEF Shape, Typed
    <3>2. SameBookings(Rsv \ {q.rsv})
      BY <3>1 DEF SameBookings, Booked, Exists
    <3>3. q.seen.st \notin NotBooked
      BY <1>0, <2>2, <2>4 DEF Fits, Fit
    <3>4. Booked(q.rsv) /\ Booked(q.rsv)'
      BY <2>1, <3>1, <3>3 DEF Booked, Exists, Row, Statuses, Live, NotBooked
    <3>5. SeatedWalkIns' = SeatedWalkIns
      BY <2>1, <3>1, <3>2, <3>4 DEF SeatedWalkIns, SameBookings
    <3> QED BY <1>0, <2>1, <2>2, <2>4, <3>1, <3>2, <3>4, <3>5, BooksClaim
  <2> QED BY <2>3, <2>4
<1>8. CASE WriteWalkIn(p)
  <2>1. /\ pc[p] = "passed" /\ q.door = "walkin" /\ hold' = hold
        /\ res' = [res EXCEPT ![q.rsv] = NewRow(q, "CONFIRMED")]
    BY <1>0, <1>8 DEF WriteWalkIn
  <2>2. /\ q.rsv \in Rsv /\ BookedClaims[q.rsv] = None
        /\ SameBookings(Rsv \ {q.rsv}) /\ Booked(q.rsv)'
        /\ res'[q.rsv].table = q.table /\ res'[q.rsv].win = q.win
        /\ SeatedWalkIns' = SeatedWalkIns \cup {q.rsv}
    BY <1>0, <2>1, WritesNewRow DEF Writers, Live
  <2>3. BookedClaims' = [BookedClaims EXCEPT ![q.rsv] = ClaimOf(q)]
    BY <2>2, BookingClaimed DEF ClaimOf, ClaimOfRow
  <2>4. ClaimOf(q) \in Claims!Claim /\ Claims!NoBooking(ClaimOf(q), q.rsv)
    BY <1>0, <2>1, VerdictOfClaims
  <2>5. Claims!Seat(q.rsv, ClaimOf(q))
    BY <2>1, <2>2, <2>3, <2>4, HoldsStutter DEF Claims!Seat
  <2> QED BY <2>2, <2>4, <2>5 DEF Claims!Next
<1> QED BY <1>0, <1>1, <1>2, <1>3, <1>4, <1>5, <1>6, <1>7, <1>8
        DEF Step, Settle, PreCheck, PreCheckFails, ShareVenue, LockTable, Check, Refuse,
            HoldVanished, EditMissed

\* Status changes free slots, the clock lets holds lapse, and releases and
\* sweeps take holds away.
LEMMA AsideClaims ==
  ASSUME RInv, Aside
  PROVE  [Claims!Next]_(Claims!claims)
<1> USE DEF RInv, IInv
<1>1. ASSUME NEW r \in Rsv, NEW st \in Statuses, ChangeStatus(r, st)
      PROVE  [Claims!Next]_(Claims!claims)
  <2>1. Booked(r)
    BY <1>1 DEF ChangeStatus, Transitions, Booked, Exists, NotBooked
  <2>2. res[r] \in Row
    BY <2>1, ExistingRow DEF Booked, Shape
  <2>3. /\ \A x \in Rsv \ {r} : res'[x] = res[x]
        /\ res'[r].table = res[r].table /\ res'[r].win = res[r].win
        /\ res'[r].walkIn = res[r].walkIn /\ res'[r].st = st /\ hold' = hold
    BY <1>1, <2>2 DEF ChangeStatus, Shape, Typed, Row
  <2>4. SameBookings(Rsv \ {r})
    BY <2>3 DEF SameBookings, Booked, Exists
  <2>5. CASE st \in NotBooked
    <3>1. ~Booked(r)'
      BY <2>3, <2>5 DEF Booked
    <3>2. BookedClaims' = [BookedClaims EXCEPT ![r] = None]
      BY <2>4, <3>1 DEF SameBookings, BookedClaims, ClaimOfRow
    <3>3. SeatedWalkIns' = SeatedWalkIns \ {r}
      BY <2>4, <3>1 DEF SameBookings, SeatedWalkIns
    <3>4. res[r].table \in Table /\ res[r].win \in Window
      BY <2>2 DEF Row
    <3>5. BookedClaims[r] # None
      BY <2>1, <3>4, NoneIsNoClaim DEF BookedClaims, ClaimOfRow
    <3>6. Claims!Free(r)
      BY <2>3, <3>2, <3>3, <3>5, HoldsStutter DEF Claims!Free
    <3> QED BY <3>6 DEF Claims!Next
  <2>6. CASE st \notin NotBooked
    <3>1. SameBookings(Rsv)
      BY <2>1, <2>3, <2>4, <2>6 DEF SameBookings, Booked, Exists, Statuses, Live, NotBooked
    <3> QED BY <2>3, <3>1, BookingsStutter, HoldsStutter DEF Claims!claims
  <2> QED BY <2>5, <2>6
<1>2. ASSUME NEW hs \in SUBSET Hold, hold' = Drop(hs), res' = res
      PROVE  [Claims!Next]_(Claims!claims)
  <2>1. SameBookings(Rsv)
    BY <1>2 DEF SameBookings, Booked, Exists
  <2> QED BY <1>2, <2>1, DropReleases
<1>3. ASSUME NEW h \in Hold, HoldAges(h)
      PROVE  [Claims!Next]_(Claims!claims)
  <2>1. hold[h] \in HoldRow
    BY <1>3, LiveHold DEF HoldAges, Shape
  <2>2. /\ \A x \in Hold \ {h} : hold'[x] = hold[x]
        /\ IsLive(h)' /\ ~Active(h)' /\ IsLive(h)
        /\ hold'[h].table = hold[h].table /\ hold'[h].win = hold[h].win
    BY <1>3, <2>1 DEF HoldAges, IsLive, Active, HoldRow, Shape, Typed
  <2>3. HeldClaims' = HeldClaims
    BY <2>2 DEF HeldClaims, ClaimOfRow, IsLive
  <2>4. LapsedHolds' = LapsedHolds \cup {h}
    BY <2>2 DEF LapsedHolds, IsLive, Active
  <2>5. BookedClaims' = BookedClaims /\ SeatedWalkIns' = SeatedWalkIns
    BY <1>3, BookingsStutter DEF HoldAges, SameBookings, Booked, Exists
  <2>6. HeldClaims[h] # None
    BY <2>1, <2>2, NoneIsNoClaim, SlotAssumption DEF HoldRow, HeldClaims, ClaimOfRow
  <2>7. Claims!Lapse(h)
    BY <2>3, <2>4, <2>5, <2>6 DEF Claims!Lapse
  <2> QED BY <2>7 DEF Claims!Next
<1>4. ASSUME NEW h \in Hold, ReleaseHold(h) \/ ReadExpired(h)
      PROVE  [Claims!Next]_(Claims!claims)
  BY <1>2, <1>4 DEF ReleaseHold, ReadExpired
<1>5. ASSUME CleanupExpired
      PROVE  [Claims!Next]_(Claims!claims)
  <2>1. Expired \in SUBSET Hold
    BY DEF Expired
  <2> QED BY <1>2, <1>5, <2>1 DEF CleanupExpired
<1> QED BY <1>1, <1>3, <1>4, <1>5 DEF Aside

\* Locked, re-checked and stale as its reads are, every step of a request acts on
\* the slots as one step of SlotClaims or as none, as long as a staff edit that
\* moves a booking names its table and its end and every window asked for ends
\* after it starts (book-slot.ts, hold.ts, confirm-hold.ts, move-to-hold.ts).
THEOREM ActsAsOneStep ==
  ASSUME WholePatch, ForwardSlots
  PROVE  Spec => BooksAsOneStep
<1>1. Init => Claims!Init
  BY DEF Init, Claims!Init, BookedClaims, HeldClaims, LapsedHolds, SeatedWalkIns, Booked,
         Exists, NoRow, IsLive, NoHold
<1>2. RInv /\ [Next]_vars => [Claims!Next]_(Claims!claims)
  <2> SUFFICES ASSUME RInv, [Next]_vars PROVE [Claims!Next]_(Claims!claims)
    OBVIOUS
  <2>1. CASE (\E p \in Proc : Ask(p)) \/ Rest \/ UNCHANGED vars
    <3>1. res' = res /\ hold' = hold
      BY <2>1, AskServes DEF Serve, Rest, vars, RInv, IInv
    <3>2. SameBookings(Rsv)
      BY <3>1 DEF SameBookings, Booked, Exists
    <3> QED BY <3>1, <3>2, BookingsStutter, HoldsStutter DEF Claims!claims
  <2> QED BY <2>1, StepClaims, AsideClaims DEF Next
<1> QED BY <1>1, <1>2, AlwaysRInv, PTL DEF Spec, BooksAsOneStep, Claims!Spec

-----------------------------------------------------------------------------
(* Dead bookings.                                                          *)

LEMMA StepLeavesDead ==
  ASSUME RInv, WholePatch, "moveTo" \notin Doors, NEW p \in Proc, Step(p),
         NEW r \in Rsv, res[r].st \in NotBooked
  PROVE  res'[r].table = res[r].table /\ res'[r].win = res[r].win
<1> USE DEF RInv, IInv
<1>0. PICK q : q = req[p]
  OBVIOUS
<1>1. CASE WriteConfirm(p) \/ WriteCreate(p) \/ WriteWalkIn(p)
  <2>1. PICK st \in Live : res' = [res EXCEPT ![q.rsv] = NewRow(q, st)]
    BY <1>0, <1>1 DEF WriteConfirm, WriteCreate, WriteWalkIn, Live
  <2>2. pc[p] = "passed" /\ q.door \in Writers
    BY <1>0, <1>1 DEF WriteConfirm, WriteCreate, WriteWalkIn, Writers
  <2>3. ~Exists(q.rsv)
    BY <1>0, <2>2 DEF Fits, Fit
  <2>4. r # q.rsv
    BY <2>3 DEF Exists, NotBooked
  <2> QED BY <2>1, <2>4 DEF Shape, Typed
<1>2. CASE WriteMoveTo(p)
  BY <1>2 DEF WriteMoveTo, Locks, DoorOpen
<1>3. CASE WriteEdit(p)
  <2>1. PICK row \in Row :
          /\ q.rsv \in Rsv /\ res[q.rsv].st = q.seen.st
          /\ res' = [res EXCEPT ![q.rsv] = row]
          /\ IF MovesSlot(q.patch) THEN row.win = q.win ELSE row = res[q.rsv]
    BY <1>0, <1>3, EditWrites
  <2>2. MovesSlot(q.patch) => q.seen.st \notin NotBooked
    BY <1>0, <1>3 DEF WriteEdit, Fits, Fit
  <2>3. CASE r = q.rsv
    BY <2>1, <2>2, <2>3 DEF Shape, Typed
  <2>4. CASE r # q.rsv
    BY <2>1, <2>4 DEF Shape, Typed
  <2> QED BY <2>3, <2>4
<1>4. CASE res' = res
  BY <1>4
<1> QED BY <1>1, <1>2, <1>3, <1>4
        DEF Step, Settle, PreCheck, PreCheckFails, ShareVenue, LockTable, Check, Refuse,
            WriteHold, HoldVanished, EditMissed

\* A cancelled or no-show booking is never given another table or window, where
\* no guest moves a booking onto a hold: such a move is keyed on the id alone and
\* rewrites one that was cancelled meanwhile (reservation.ts, move-to-hold.ts).
THEOREM DeadNeverMoved ==
  ASSUME WholePatch, ForwardSlots, "moveTo" \notin Doors
  PROVE  Spec => DeadStaysPut
<1>1. RInv /\ [Next]_vars =>
        [\A r \in Rsv : res[r].st \in NotBooked =>
           res'[r].table = res[r].table /\ res'[r].win = res[r].win]_vars
  <2> SUFFICES ASSUME RInv, Next, NEW r \in Rsv, res[r].st \in NotBooked
               PROVE  res'[r].table = res[r].table /\ res'[r].win = res[r].win
    OBVIOUS
  <2>1. CASE (\E p \in Proc : Ask(p)) \/ Rest
    BY <2>1, AskServes DEF Serve, Rest, vars, RInv, IInv
  <2>2. CASE \E p \in Proc : Step(p)
    BY <2>2, StepLeavesDead
  <2>3. CASE Aside
    BY <2>3 DEF Aside, ChangeStatus, ReleaseHold, HoldAges, ReadExpired, CleanupExpired,
                Transitions, NotBooked, RInv, IInv, Shape, Typed
  <2> QED BY <2>1, <2>2, <2>3 DEF Next
<1> QED BY <1>1, AlwaysRInv, PTL DEF Spec, DeadStaysPut
=============================================================================
