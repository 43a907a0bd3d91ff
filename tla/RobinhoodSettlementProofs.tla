---------------------- MODULE RobinhoodSettlementProofs ----------------------
(***************************************************************************)
(* Proofs about RobinhoodSettlement, for every value of its constants.     *)
(***************************************************************************)
EXTENDS RobinhoodSettlement, SumsProofs, SequenceTheorems

-----------------------------------------------------------------------------
(* The inductive invariant *)

ReqType == [state : ReqStates, note : {"none", "parked", "bounds", "reverted", "resumed"},
            completion : BOOLEAN, observed : BOOLEAN]
AuthType == [epoch : -1 .. MaxEpoch, expiry : -1 .. MaxClock + Ttl]
TxType == [op : Ops, version : Nat]
MinedType == [op : Ops \cup {ForeignOp}, version : Nat, ok : BOOLEAN, block : 0 .. MaxReorgs]
WorkType ==
  {Idle} \cup [step : {"begin", "collect"}, op : Ops, auth : AuthType]
         \cup [step : {"pending", "nonce", "sign", "send", "sent", "reverted", "park",
                       "fail", "verify", "complete", "confirm", "observe"}, op : Ops]

\* Types of everything but the reserve row, whose counters are typed by what
\* they count.
Shape ==
  /\ dir \in [Requests -> Directions]
  /\ req \in [Requests -> ReqType]
  /\ row \in [Ops -> RowType]
  /\ floor \in Nat /\ clock \in 0 .. MaxClock /\ epoch \in 0 .. MaxEpoch
  /\ forks \in 0 .. MaxReorgs /\ paidOut \subseteq Requests
  /\ pool \subseteq TxType
  /\ mined \in Seq(MinedType) /\ final \in 0 .. Len(mined)
  /\ work \in [Workers -> WorkType]

\* Each kind of operation belongs to requests of its own direction.
Fits(o) ==
  /\ o[2] = "Payout" => ToRobinhood(o[1])
  /\ o[2] \in {"Settlement", "Refund"} => FromRobinhood(o[1])
  /\ o[2] = "TreasuryWithdraw" => dir[o[1]] = "Treasury"

\* No quorum was recorded for the operation yet.
Unsigned(o) == row[o].state \in {"none", "Authorizing"}

Late(state) == state \notin {"none", "Authorizing", "Authorized"}

\* Where a row stays once its transaction has reverted: a settlement alone may
\* still be completed from the chain.
Stopped(o) == {"Reverted", "ManualReview"} \cup (IF o[2] = "Settlement" THEN {"Finalized"} ELSE {})

\* A row and its request: bytes exist only under a nonce, and a payout on its
\* way still finds the reservation of its request.
RowGood(o) ==
  /\ row[o].state = "none" => row[o] = NoRow
  /\ row[o].state # "none" => Fits(o)
  /\ row[o].version >= 0 => row[o].nonce >= 0 /\ Late(row[o].state)
  /\ row[o].state \in {"Signed", "Broadcast", "Included"} => row[o].version >= 0
  /\ o[2] = "Payout" =>
       /\ row[o].state \in {"Authorized", "Signed", "Broadcast", "Included"} =>
            req[o[1]].state = "SourceFinalized"
       /\ row[o].state = "Finalized" =>
            req[o[1]].state \in {"SourceFinalized", "DestinationConfirmed", "Settled"}

\* Money leaves the reserve row for operations whose row is final.
RequestGood(r) ==
  \A k \in CompletedBy(r) \cap {"Payout", "TreasuryWithdraw"} : row[<<r, k>>].state = "Finalized"

\* What a process remembers between two of its steps is still true.
Good(w, s) ==
  s # Idle =>
    /\ s.step \in {"begin", "collect"} =>
         /\ Fits(s.op)
         /\ s.op[2] = "Payout" =>
              w = Daemon /\ (Unsigned(s.op) => req[s.op[1]].state = "SourceFinalized")
    /\ s.step = "pending" => Fits(s.op) /\ s.op[2] = "Refund"
    /\ s.step = "sign" => row[s.op].nonce >= 0
    /\ s.step \in {"send", "sent"} => row[s.op].version >= 0
    /\ s.step \in {"reverted", "park", "fail"} => row[s.op].state \in Stopped(s.op)
    /\ s.step \in {"verify", "complete", "confirm"} =>
         row[s.op].state = "Finalized" /\ ExecutedForGood(s.op)
    /\ s.step \in {"fail", "confirm"} => s.op[2] = "TreasuryWithdraw"

WorkGood == \A w \in Workers : Good(w, work[w])
RowsGood == \A o \in Ops : RowGood(o)
RequestsGood == \A r \in Requests : RequestGood(r)

\* A transaction is accounted for by the row of its operation.
Accounted(t) ==
  row[t.op].version >= t.version /\ row[t.op].nonce >= 0 /\ Late(row[t.op].state)

NonceUnique == \A o, p \in Ops : row[o].nonce = row[p].nonce /\ row[o].nonce >= 0 => o = p

SentAccounted ==
  /\ \A t \in pool : Accounted(t)
  /\ \A i \in DOMAIN mined : mined[i].op # ForeignOp => Accounted(mined[i])

IInv ==
  /\ Shape /\ RowsGood /\ RequestsGood /\ WorkGood
  /\ CompletedMeansExecuted /\ ReserveRowMatchesRequests
  /\ SentAccounted /\ NonceUnique

\* How a row may move: forwards only.
Advances(o) ==
  /\ row[o].nonce >= 0 => row'[o].nonce = row[o].nonce
  /\ row'[o].version >= row[o].version
  /\ row[o].sigs # NoPayload => row'[o].sigs = row[o].sigs
  /\ Late(row[o].state) => Late(row'[o].state)
  /\ row[o].state = "Finalized" => row'[o].state = "Finalized"
  /\ row[o].state \in Stopped(o) => row'[o].state \in Stopped(o)
  /\ Unsigned(o)' => Unsigned(o)

RowsAdvance == \A o \in Ops : Advances(o)

-----------------------------------------------------------------------------
(* Facts about the vocabulary *)

LEMMA OpFacts ==
  ASSUME NEW o \in Ops
  PROVE  o[1] \in Requests /\ o[2] \in Kinds /\ o = <<o[1], o[2]>> /\ o # ForeignOp
BY DEF Ops, ForeignOp

LEMMA OpMade ==
  ASSUME NEW r \in Requests, NEW k \in Kinds
  PROVE  <<r, k>> \in Ops /\ <<r, k>>[1] = r /\ <<r, k>>[2] = k
BY DEF Ops

LEMMA PayoutOp ==
  ASSUME NEW r \in Requests
  PROVE  \E o \in Ops : o = <<r, "Payout">> /\ o[1] = r /\ o[2] = "Payout"
BY OpMade DEF Kinds

LEMMA RowFacts ==
  ASSUME Shape, NEW o \in Ops
  PROVE  /\ row[o] \in RowType /\ row[o].version \in Int /\ row[o].nonce \in Int
         /\ row[o].state \in TxStates
BY DEF Shape, RowType

LEMMA StillRows ==
  ASSUME Shape, row' = row
  PROVE  RowsAdvance
BY RowFacts DEF RowsAdvance, Advances, Unsigned

\* What a busy worker holds.
LEMMA WorkFacts ==
  ASSUME Shape, NEW w \in Workers, work[w] # Idle
  PROVE  /\ work[w].op \in Ops
         /\ work[w].step \in {"begin", "collect"} =>
              work[w] \in [step : {"begin", "collect"}, op : Ops, auth : AuthType]
         /\ work[w].step \notin {"begin", "collect"} =>
              work[w] = [step |-> work[w].step, op |-> work[w].op]
         /\ work[w].step # "idle"
<1>1. work[w] \in WorkType
  BY DEF Shape
<1> QED
  BY <1>1 DEF WorkType

LEMMA IdleStep == Idle.step = "idle" /\ Idle \in WorkType /\ \A w : Good(w, Idle)
BY DEF Idle, WorkType, Good

\* What a process remembers survives the steps of the others.
LEMMA GoodStable ==
  ASSUME Shape, NEW v, NEW s \in WorkType, Good(v, s), RowsAdvance, dir' = dir,
         row' \in [Ops -> RowType],
         \A o \in Ops : ExecutedForGood(o) => ExecutedForGood(o)',
         s # Idle /\ s.step \in {"begin", "collect"} /\ s.op[2] = "Payout" /\ Unsigned(s.op) =>
           req'[s.op[1]].state = "SourceFinalized"
  PROVE  Good(v, s)'
<1> SUFFICES ASSUME s # Idle PROVE Good(v, s)'
  BY DEF Good
<1>1. s.op \in Ops
  BY DEF WorkType
<1>2. Advances(s.op) /\ row[s.op].version \in Int /\ row'[s.op].version >= row[s.op].version
  BY <1>1, RowFacts DEF RowsAdvance, Advances
<1>3. s.step \in {"begin", "collect"} =>
        (Fits(s.op) /\ (s.op[2] = "Payout" =>
           v = Daemon /\ (Unsigned(s.op) => req[s.op[1]].state = "SourceFinalized")))'
  BY <1>2 DEF Good, Fits, ToRobinhood, FromRobinhood, Advances
<1>4. s.step = "pending" => (Fits(s.op) /\ s.op[2] = "Refund")'
  BY DEF Good, Fits, ToRobinhood, FromRobinhood
<1>5. s.step = "sign" => (row[s.op].nonce >= 0)'
  BY <1>2 DEF Good, Advances
<1>6. s.step \in {"send", "sent"} => (row[s.op].version >= 0)'
  <2>1. row'[s.op].version \in Int
    BY <1>1 DEF RowType
  <2> QED
    BY <1>2, <2>1 DEF Good
<1>7. s.step \in {"reverted", "park", "fail"} => (row[s.op].state \in Stopped(s.op))'
  BY <1>2 DEF Good, Advances, Stopped
<1>8. s.step \in {"verify", "complete", "confirm"} =>
        (row[s.op].state = "Finalized" /\ ExecutedForGood(s.op))'
  BY <1>1, <1>2 DEF Good, Advances
<1> QED
  BY <1>3, <1>4, <1>5, <1>6, <1>7, <1>8 DEF Good

-----------------------------------------------------------------------------
(* The reserve row *)

HeldSet == {r \in Requests : Holding(r)}
LeftSet == {r \in Requests : LeftReserve(r)}

LEMMA SumFacts ==
  ASSUME NEW S \in SUBSET Requests
  PROVE  /\ IsFiniteSet(S) /\ SumOver(Net, S) \in Nat /\ SumOver(Net, S) <= InitialBalance
         /\ \A r \in Requests : Net[r] \in Nat
<1>1. IsFiniteSet(Requests) /\ \A r \in Requests : Net[r] \in Nat
  BY RhnAmountsAssumption, RhnFundsAssumption
<1>2. IsFiniteSet(S)
  BY <1>1, FS_Subset
<1>3. SumOver(Net, S) \in Nat /\ SumOver(Net, Requests) \in Nat
  BY <1>1, <1>2, SumType
<1>4. SumOver(Net, S) <= SumOver(Net, Requests)
  BY <1>1, SumMonotone
<1>5. SumOver(Net, Requests) <= InitialBalance /\ InitialBalance \in Nat
  BY RhnAmountsAssumption, RhnFundsAssumption
<1>6. SumOver(Net, S) <= InitialBalance
  BY <1>3, <1>4, <1>5
<1> QED
  BY <1>1, <1>2, <1>3, <1>6

\* What the row counts, field by field.
LEMMA BookFields ==
  ASSUME ReserveRowMatchesRequests
  PROVE  book = [balance |-> InitialBalance - SumOver(Net, LeftSet),
                 reserved |-> SumOver(Net, HeldSet), pending |-> SumOver(Net, HeldSet)]
BY DEF ReserveRowMatchesRequests, LeftSet, HeldSet

LEMMA ReleaseFields ==
  ASSUME ReserveRowMatchesRequests, NEW r \in Requests
  PROVE  Release(r) = [balance |-> InitialBalance - SumOver(Net, LeftSet),
                       reserved |-> SumOver(Net, HeldSet) - Net[r],
                       pending |-> SumOver(Net, HeldSet) - Net[r]]
<1> DEFINE l == InitialBalance - SumOver(Net, LeftSet)
           h == SumOver(Net, HeldSet)
<1>1. book = [balance |-> l, reserved |-> h, pending |-> h]
  BY BookFields
<1>t. l \in Int /\ h \in Int /\ Net[r] \in Int
  <2>1. HeldSet \in SUBSET Requests /\ LeftSet \in SUBSET Requests
    BY DEF HeldSet, LeftSet
  <2> QED
    BY <2>1, SumFacts, RhnAmountsAssumption
<1> HIDE DEF l, h
<1>2. book \in [balance : Int, reserved : Int, pending : Int]
  BY <1>1, <1>t
<1>3. book.balance = l /\ book.reserved = h /\ book.pending = h
  BY <1>1
<1>4. Release(r) \in [balance : Int, reserved : Int, pending : Int]
  <2>1. PICK a \in Int : a = book.reserved - Net[r] /\ a = book.pending - Net[r]
    BY <1>3, <1>t
  <2>2. Release(r) = [book EXCEPT !.reserved = a, !.pending = a]
    BY <2>1 DEF Release
  <2> QED
    BY <1>2, <2>2
<1>5. /\ Release(r).balance = l /\ Release(r).reserved = h - Net[r]
      /\ Release(r).pending = h - Net[r]
  BY <1>2, <1>3 DEF Release
<1>6. Release(r) = [balance |-> l, reserved |-> h - Net[r], pending |-> h - Net[r]]
  BY <1>4, <1>5
<1> QED
  BY <1>6 DEF l, h

LEMMA BookTyped ==
  ASSUME ReserveRowMatchesRequests
  PROVE  book \in [balance : Nat, reserved : Nat, pending : Nat]
<1>1. HeldSet \in SUBSET Requests /\ LeftSet \in SUBSET Requests
  BY DEF HeldSet, LeftSet
<1>2. InitialBalance - SumOver(Net, LeftSet) \in Nat /\ SumOver(Net, HeldSet) \in Nat
  BY <1>1, SumFacts, RhnAmountsAssumption
<1> QED
  BY <1>2, BookFields

\* A request whose own row changes leaves the others as they are.
LEMMA OthersKeep ==
  ASSUME Shape, NEW r \in Requests, NEW q, req' = [req EXCEPT ![r] = q], dir' = dir
  PROVE  /\ req'[r] = q
         /\ \A x \in Requests \ {r} :
              /\ req'[x] = req[x] /\ CompletedBy(x)' = CompletedBy(x)
              /\ Holding(x)' <=> Holding(x)
              /\ LeftReserve(x)' <=> LeftReserve(x)
<1>1. req'[r] = q /\ \A x \in Requests \ {r} : req'[x] = req[x]
  BY DEF Shape
<1>2. ASSUME NEW x \in Requests \ {r} PROVE CompletedBy(x)' = CompletedBy(x)
  BY <1>1 DEF CompletedBy, ToRobinhood, FromRobinhood
<1>3. ASSUME NEW x \in Requests \ {r} PROVE Holding(x)' <=> Holding(x)
  BY <1>1 DEF Holding, ToRobinhood
<1> QED
  BY <1>1, <1>2, <1>3 DEF LeftReserve

LEMMA BookSame ==
  ASSUME ReserveRowMatchesRequests, book' = book,
         \A x \in Requests : (Holding(x)' <=> Holding(x)) /\ (LeftReserve(x)' <=> LeftReserve(x))
  PROVE  ReserveRowMatchesRequests'
<1>1. HeldSet' = HeldSet /\ LeftSet' = LeftSet
  BY DEF HeldSet, LeftSet
<1> QED
  BY <1>1 DEF ReserveRowMatchesRequests, HeldSet, LeftSet

\* A reservation is given back.
LEMMA BookReleases ==
  ASSUME ReserveRowMatchesRequests, NEW r \in Requests, Holding(r), ~Holding(r)',
         \A x \in Requests : LeftReserve(x)' <=> LeftReserve(x),
         \A x \in Requests \ {r} : Holding(x)' <=> Holding(x),
         book' = Release(r)
  PROVE  ReserveRowMatchesRequests'
<1>1. HeldSet' = HeldSet \ {r} /\ LeftSet' = LeftSet /\ r \in HeldSet
  BY DEF HeldSet, LeftSet
<1>2. /\ HeldSet \in SUBSET Requests /\ HeldSet \ {r} \in SUBSET Requests
      /\ \A x \in HeldSet : Net[x] \in Nat
  BY SumFacts DEF HeldSet
<1>3. SumOver(Net, HeldSet) = Net[r] + SumOver(Net, HeldSet \ {r})
  BY <1>1, <1>2, SumFacts, SumRemove
<1>4. SumOver(Net, HeldSet \ {r}) = SumOver(Net, HeldSet) - Net[r]
  BY <1>1, <1>2, <1>3, SumFacts
<1>5. book' = [balance |-> InitialBalance - SumOver(Net, LeftSet'),
               reserved |-> SumOver(Net, HeldSet'), pending |-> SumOver(Net, HeldSet')]
  BY <1>1, <1>4, ReleaseFields
<1> QED
  BY <1>5 DEF ReserveRowMatchesRequests, HeldSet, LeftSet

\* The amount of a request leaves the balance.
LEMMA LeftAdds ==
  ASSUME NEW r \in Requests, ~LeftReserve(r), LeftReserve(r)',
         \A x \in Requests \ {r} : LeftReserve(x)' <=> LeftReserve(x)
  PROVE  SumOver(Net, LeftSet') = SumOver(Net, LeftSet) + Net[r] /\ LeftSet \in SUBSET Requests
<1>1. LeftSet' = LeftSet \cup {r} /\ r \notin LeftSet /\ LeftSet \in SUBSET Requests
  BY DEF LeftSet
<1>2. IsFiniteSet(LeftSet) /\ Net[r] \in Nat /\ \A x \in LeftSet : Net[x] = Net[x] /\ Net[x] \in Nat
  BY <1>1, SumFacts
<1> QED
  BY <1>1, <1>2, SumAdd

\* A reserved amount is paid.
LEMMA BookPays ==
  ASSUME ReserveRowMatchesRequests, NEW r \in Requests, Holding(r), ~Holding(r)',
         ~LeftReserve(r), LeftReserve(r)',
         \A x \in Requests \ {r} : (Holding(x)' <=> Holding(x)) /\ (LeftReserve(x)' <=> LeftReserve(x)),
         book' = [Release(r) EXCEPT !.balance = @ - Net[r]]
  PROVE  ReserveRowMatchesRequests'
<1>1. HeldSet' = HeldSet \ {r} /\ r \in HeldSet
  BY DEF HeldSet
<1>2. /\ HeldSet \in SUBSET Requests /\ HeldSet \ {r} \in SUBSET Requests
      /\ \A x \in HeldSet : Net[x] \in Nat
  BY SumFacts DEF HeldSet
<1>3. SumOver(Net, HeldSet) = Net[r] + SumOver(Net, HeldSet \ {r})
  BY <1>1, <1>2, SumFacts, SumRemove
<1>4. SumOver(Net, HeldSet') = SumOver(Net, HeldSet) - Net[r]
  BY <1>1, <1>2, <1>3, SumFacts
<1>5. SumOver(Net, LeftSet') = SumOver(Net, LeftSet) + Net[r] /\ LeftSet \in SUBSET Requests
  BY LeftAdds
<1>6. InitialBalance - SumOver(Net, LeftSet') = (InitialBalance - SumOver(Net, LeftSet)) - Net[r]
  BY <1>5, SumFacts, RhnAmountsAssumption
<1>7. book' = [balance |-> InitialBalance - SumOver(Net, LeftSet'),
               reserved |-> SumOver(Net, HeldSet'), pending |-> SumOver(Net, HeldSet')]
  BY <1>4, <1>6, ReleaseFields
<1> QED
  BY <1>7 DEF ReserveRowMatchesRequests, HeldSet, LeftSet

\* An amount nobody reserved is withdrawn.
LEMMA BookWithdraws ==
  ASSUME ReserveRowMatchesRequests, NEW r \in Requests, ~LeftReserve(r), LeftReserve(r)',
         \A x \in Requests : Holding(x)' <=> Holding(x),
         \A x \in Requests \ {r} : LeftReserve(x)' <=> LeftReserve(x),
         book' = [book EXCEPT !.balance = @ - Net[r]]
  PROVE  ReserveRowMatchesRequests'
<1>1. HeldSet' = HeldSet
  BY DEF HeldSet
<1>5. SumOver(Net, LeftSet') = SumOver(Net, LeftSet) + Net[r] /\ LeftSet \in SUBSET Requests
  BY LeftAdds
<1>6. InitialBalance - SumOver(Net, LeftSet') = (InitialBalance - SumOver(Net, LeftSet)) - Net[r]
  BY <1>5, SumFacts, RhnAmountsAssumption
<1>7. book' = [balance |-> InitialBalance - SumOver(Net, LeftSet'),
               reserved |-> SumOver(Net, HeldSet'), pending |-> SumOver(Net, HeldSet')]
  BY <1>1, <1>6, BookFields
<1> QED
  BY <1>7 DEF ReserveRowMatchesRequests, HeldSet, LeftSet

-----------------------------------------------------------------------------
(* What the kinds of step keep *)

\* A worker moves to s, and what the other workers remember survives.
LEMMA WorkMoves ==
  ASSUME Shape, WorkGood, RowsAdvance, row' \in [Ops -> RowType], dir' = dir,
         \A o \in Ops : ExecutedForGood(o) => ExecutedForGood(o)',
         NEW w \in Workers, NEW s \in WorkType, Good(w, s)', work' = [work EXCEPT ![w] = s],
         \A v \in Workers \ {w} :
           /\ work[v] # Idle /\ work[v].step \in {"begin", "collect"}
           /\ work[v].op[2] = "Payout" /\ Unsigned(work[v].op)
           => req'[work[v].op[1]].state = "SourceFinalized"
  PROVE  WorkGood' /\ work' \in [Workers -> WorkType]
<1>1. work' \in [Workers -> WorkType]
  BY DEF Shape
<1>2. ASSUME NEW v \in Workers PROVE Good(v, work[v])'
  <2>1. CASE v = w
    <3>1. work'[v] = s
      BY <2>1 DEF Shape
    <3> QED
      BY <2>1, <3>1
  <2>2. CASE v # w
    <3>1. PICK t \in WorkType : t = work[v]
      BY DEF Shape
    <3>2. Good(v, t)
      BY <3>1 DEF WorkGood
    <3>3. Good(v, t)'
      BY <2>2, <3>1, <3>2, GoodStable
    <3>4. work'[v] = t
      BY <2>2, <3>1 DEF Shape
    <3> QED
      BY <3>3, <3>4
  <2> QED
    BY <2>1, <2>2
<1> QED
  BY <1>1, <1>2 DEF WorkGood

\* What a worker remembers of a payout being authorized holds while no request
\* moves.
LEMMA BeginningsKept ==
  ASSUME Shape, WorkGood, req' = req
  PROVE  \A v \in Workers :
           /\ work[v] # Idle /\ work[v].step \in {"begin", "collect"}
           /\ work[v].op[2] = "Payout" /\ Unsigned(work[v].op)
           => req'[work[v].op[1]].state = "SourceFinalized"
BY DEF WorkGood, Good

\* The requests, the rows and the reserve row stay.
LEMMA LedgerStays ==
  ASSUME IInv, UNCHANGED <<dir, req, row, book>>, Shape', WorkGood', SentAccounted',
         \A o \in Ops : ExecutedForGood(o) => ExecutedForGood(o)'
  PROVE  IInv' /\ RowsAdvance
<1>1. RowsAdvance
  BY StillRows DEF IInv
<1>2. RowsGood'
  BY DEF IInv, RowsGood, RowGood, Fits, ToRobinhood, FromRobinhood
<1>3. \A r \in Requests : CompletedBy(r)' = CompletedBy(r)
  BY DEF CompletedBy, ToRobinhood, FromRobinhood
<1>4. RequestsGood'
  BY <1>3 DEF IInv, RequestsGood, RequestGood
<1>5. CompletedMeansExecuted'
  <2>1. \A r \in Requests : CompletedBy(r) \subseteq Kinds
    BY DEF CompletedBy, Kinds
  <2> QED
    BY <1>3, <2>1, OpMade DEF IInv, CompletedMeansExecuted
<1>6. ReserveRowMatchesRequests'
  <2>1. \A r \in Requests : (Holding(r)' <=> Holding(r)) /\ (LeftReserve(r)' <=> LeftReserve(r))
    BY <1>3 DEF Holding, LeftReserve, ToRobinhood
  <2> QED
    BY <2>1, BookSame DEF IInv
<1>7. NonceUnique'
  BY DEF IInv, NonceUnique
<1> QED
  BY <1>1, <1>2, <1>4, <1>5, <1>6, <1>7 DEF IInv

\* A step of a worker alone.
LEMMA WorkOnly ==
  ASSUME IInv, UNCHANGED <<ledgerVars, chainVars>>,
         NEW w \in Workers, NEW s \in WorkType, Good(w, s), Step(w, s)
  PROVE  IInv' /\ RowsAdvance
<1>1. /\ UNCHANGED <<dir, req, row, book, floor>>
      /\ UNCHANGED <<clock, epoch, paused, pool, mined, final, forks, paidOut>>
      /\ work' = [work EXCEPT ![w] = s]
  BY DEF ledgerVars, chainVars, Step
<1>2. /\ Shape /\ WorkGood /\ RowsAdvance /\ row' \in [Ops -> RowType]
  BY <1>1, StillRows DEF IInv, Shape
<1>3. \A o \in Ops : ExecutedForGood(o)' <=> ExecutedForGood(o)
  BY <1>1 DEF ExecutedForGood
<1>4. Good(w, s)'
  BY <1>1 DEF Good, Fits, ToRobinhood, FromRobinhood, ExecutedForGood, Unsigned
<1>5. WorkGood' /\ work' \in [Workers -> WorkType]
  BY <1>1, <1>2, <1>3, <1>4, BeginningsKept, WorkMoves
<1>6. Shape'
  BY <1>1, <1>2, <1>5 DEF Shape
<1>7. SentAccounted'
  BY <1>1 DEF IInv, SentAccounted, Accounted
<1> QED
  BY <1>1, <1>3, <1>5, <1>6, <1>7, LedgerStays

\* A step of the chain alone: what is final stays final, and what nodes hold
\* or have mined is accounted for.
LEMMA ChainOnly ==
  ASSUME IInv, UNCHANGED <<ledgerVars, work>>, SentAccounted',
         \A o \in Ops : ExecutedForGood(o) => ExecutedForGood(o)',
         clock' \in 0 .. MaxClock, epoch' \in 0 .. MaxEpoch, forks' \in 0 .. MaxReorgs,
         paidOut' \subseteq Requests, pool' \subseteq TxType, mined' \in Seq(MinedType),
         final' \in 0 .. Len(mined')
  PROVE  IInv' /\ RowsAdvance
<1>1. UNCHANGED <<dir, req, row, book, floor, work>>
  BY DEF ledgerVars
<1>2. Shape'
  BY <1>1 DEF IInv, Shape
<1>3. Shape /\ WorkGood /\ RowsAdvance /\ row' \in [Ops -> RowType]
  BY <1>1, StillRows DEF IInv, Shape
<1>4. WorkGood'
  <2>1. ASSUME NEW v \in Workers PROVE Good(v, work[v])'
    <3>1. PICK t \in WorkType : t = work[v]
      BY <1>3 DEF Shape
    <3>2. Good(v, t)
      BY <1>3, <3>1 DEF WorkGood
    <3>3. Good(v, t)'
      BY <1>1, <1>3, <3>1, <3>2, BeginningsKept, GoodStable
    <3> QED
      BY <1>1, <3>1, <3>3
  <2> QED
    BY <2>1 DEF WorkGood
<1> QED
  BY <1>1, <1>2, <1>4, LedgerStays

\* The row of one operation moves on, together with the worker that moves it.
LEMMA RowMoves ==
  ASSUME IInv, NEW o \in Ops, NEW n \in RowType, row' = [row EXCEPT ![o] = n],
         UNCHANGED <<dir, req, book, floor, chainVars>>,
         Advances(o), RowGood(o)',
         n.nonce = row[o].nonce \/ \A p \in Ops : row[p].nonce # n.nonce,
         NEW w \in Workers, NEW s \in WorkType, Good(w, s)', work' = [work EXCEPT ![w] = s]
  PROVE  IInv' /\ RowsAdvance
<1>1. UNCHANGED <<dir, req, book, floor, clock, epoch, paused, pool, mined, final, forks, paidOut>>
  BY DEF chainVars
<1>2. Shape /\ WorkGood /\ RowsGood /\ RequestsGood /\ SentAccounted /\ NonceUnique
  BY DEF IInv
<1>3. /\ row' \in [Ops -> RowType] /\ row'[o] = n
      /\ \A p \in Ops : p # o => row'[p] = row[p]
  BY <1>2 DEF Shape
<1>4. RowsAdvance
  <2>1. ASSUME NEW p \in Ops, p # o PROVE Advances(p)
    BY <1>2, <1>3, <2>1, RowFacts DEF Advances, Unsigned
  <2> QED
    BY <2>1 DEF RowsAdvance
<1>5. \A p \in Ops : ExecutedForGood(p)' <=> ExecutedForGood(p)
  BY <1>1 DEF ExecutedForGood
<1>6. WorkGood' /\ work' \in [Workers -> WorkType]
  BY <1>1, <1>2, <1>3, <1>4, <1>5, BeginningsKept, WorkMoves
<1>7. Shape'
  BY <1>1, <1>2, <1>3, <1>6 DEF Shape
<1>8. RowsGood'
  <2>1. ASSUME NEW p \in Ops, p # o PROVE RowGood(p)'
    BY <1>1, <1>2, <1>3, <2>1 DEF RowsGood, RowGood, Fits, ToRobinhood, FromRobinhood
  <2> QED
    BY <2>1 DEF RowsGood
<1>9. \A r \in Requests : CompletedBy(r)' = CompletedBy(r)
  BY <1>1 DEF CompletedBy, ToRobinhood, FromRobinhood
<1>10. \A r \in Requests : CompletedBy(r) \subseteq Kinds
  BY DEF CompletedBy, Kinds
<1>11. RequestsGood'
  <2>1. ASSUME NEW r \in Requests, NEW k \in CompletedBy(r) \cap {"Payout", "TreasuryWithdraw"}
        PROVE  row'[<<r, k>>].state = "Finalized"
    BY <1>2, <1>4, <1>10, OpMade DEF RequestsGood, RequestGood, RowsAdvance, Advances
  <2> QED
    BY <1>9, <2>1 DEF RequestsGood, RequestGood
<1>12. CompletedMeansExecuted'
  BY <1>5, <1>9, <1>10, OpMade DEF IInv, CompletedMeansExecuted
<1>13. ReserveRowMatchesRequests'
  <2>1. \A r \in Requests : (Holding(r)' <=> Holding(r)) /\ (LeftReserve(r)' <=> LeftReserve(r))
    BY <1>1, <1>9 DEF Holding, LeftReserve, ToRobinhood
  <2> QED
    BY <1>1, <2>1, BookSame DEF IInv
<1>14. ASSUME NEW t, t.op \in Ops, t.version \in Nat, Accounted(t) PROVE Accounted(t)'
  <2>1. /\ row'[t.op].version >= row[t.op].version /\ row'[t.op].nonce = row[t.op].nonce
        /\ Late(row'[t.op].state)
    BY <1>4, <1>14 DEF RowsAdvance, Advances, Accounted
  <2>2. row'[t.op].version \in Int /\ row[t.op].version \in Int
    BY <1>3, <1>2, <1>14, RowFacts DEF RowType
  <2> QED
    BY <1>14, <2>1, <2>2 DEF Accounted
<1>15. SentAccounted'
  <2>1. \A t \in pool : t.op \in Ops /\ t.version \in Nat
    BY <1>2 DEF Shape, TxType
  <2>2. \A i \in DOMAIN mined : mined[i] \in MinedType
    BY <1>2 DEF Shape
  <2>3. \A i \in DOMAIN mined : mined[i].op # ForeignOp => mined[i].op \in Ops /\ mined[i].version \in Nat
    BY <2>2 DEF MinedType
  <2>4. ASSUME NEW t \in pool PROVE Accounted(t)'
    BY <1>2, <1>14, <2>1 DEF SentAccounted
  <2>5. ASSUME NEW i \in DOMAIN mined, mined[i].op # ForeignOp PROVE Accounted(mined[i])'
    <3>1. PICK t : t = mined[i]
      OBVIOUS
    <3>2. t.op \in Ops /\ t.version \in Nat /\ Accounted(t)
      BY <1>2, <2>3, <2>5, <3>1 DEF SentAccounted
    <3>3. Accounted(t)'
      BY <1>14, <3>2
    <3> QED
      BY <1>1, <3>1, <3>3
  <2> QED
    BY <1>1, <2>4, <2>5 DEF SentAccounted
<1>16. NonceUnique'
  <2>1. ASSUME NEW p \in Ops, NEW q \in Ops, row'[p].nonce = row'[q].nonce, row'[p].nonce >= 0
        PROVE  p = q
    BY <1>2, <1>3, <2>1 DEF NonceUnique
  <2> QED
    BY <2>1 DEF NonceUnique
<1> QED
  BY <1>4, <1>6, <1>7, <1>8, <1>11, <1>12, <1>13, <1>15, <1>16 DEF IInv

\* One request moves; its own payout and its own completion are looked at.
LEMMA ReqMoves ==
  ASSUME IInv, NEW r \in Requests, NEW q \in ReqType, req' = [req EXCEPT ![r] = q],
         UNCHANGED <<dir, row, floor, clock, epoch, paused, pool, mined, final, forks>>,
         paidOut' \subseteq Requests,
         RowGood(<<r, "Payout">>)', RequestGood(r)', ReserveRowMatchesRequests',
         \A k \in CompletedBy(r)' : ExecutedForGood(<<r, k>>),
         NEW w \in Workers, NEW s \in WorkType, Good(w, s)', work' = [work EXCEPT ![w] = s],
         \A v \in Workers \ {w} :
           /\ work[v] # Idle /\ work[v].step \in {"begin", "collect"}
           /\ work[v].op = <<r, "Payout">> /\ Unsigned(work[v].op)
           => q.state = "SourceFinalized"
  PROVE  IInv' /\ RowsAdvance
<1>1. Shape /\ WorkGood /\ RowsGood /\ RequestsGood /\ SentAccounted /\ NonceUnique
  BY DEF IInv
<1>2. /\ req'[r] = q /\ req' \in [Requests -> ReqType]
      /\ \A x \in Requests \ {r} : /\ req'[x] = req[x] /\ CompletedBy(x)' = CompletedBy(x)
  BY <1>1, OthersKeep DEF Shape
<1>3. RowsAdvance /\ row' \in [Ops -> RowType]
  BY <1>1, StillRows DEF Shape
<1>4. \A o \in Ops : ExecutedForGood(o)' <=> ExecutedForGood(o)
  BY DEF ExecutedForGood
<1>5. ASSUME NEW v \in Workers \ {w}, work[v] # Idle, work[v].step \in {"begin", "collect"},
             work[v].op[2] = "Payout", Unsigned(work[v].op)
      PROVE  req'[work[v].op[1]].state = "SourceFinalized"
  <2>1. work[v].op \in Ops /\ req[work[v].op[1]].state = "SourceFinalized"
    BY <1>1, <1>5, WorkFacts DEF WorkGood, Good
  <2>2. work[v].op[1] \in Requests /\ work[v].op = <<work[v].op[1], "Payout">>
    BY <1>5, <2>1, OpFacts
  <2> QED
    BY <1>2, <1>5, <2>1, <2>2
<1>6. WorkGood' /\ work' \in [Workers -> WorkType]
  BY <1>1, <1>3, <1>4, <1>5, WorkMoves
<1>7. Shape'
  BY <1>1, <1>2, <1>6 DEF Shape
<1>8. RowsGood'
  <2>1. ASSUME NEW o \in Ops, o # <<r, "Payout">> PROVE RowGood(o)'
    <3>1. o[2] = "Payout" => o[1] \in Requests \ {r}
      BY <2>1, OpFacts
    <3>2. o[2] = "Payout" => req'[o[1]] = req[o[1]]
      BY <1>2, <3>1
    <3> QED
      BY <1>1, <3>2 DEF RowsGood, RowGood, Fits, ToRobinhood, FromRobinhood
  <2> QED
    BY <2>1 DEF RowsGood
<1>9. RequestsGood'
  <2>1. ASSUME NEW x \in Requests, x # r PROVE RequestGood(x)'
    BY <1>1, <1>2, <2>1 DEF RequestsGood, RequestGood
  <2> QED
    BY <2>1 DEF RequestsGood
<1>10. CompletedMeansExecuted'
  <2>1. ASSUME NEW x \in Requests, NEW k \in CompletedBy(x)' PROVE ExecutedForGood(<<x, k>>)
    BY <1>2, <2>1 DEF IInv, CompletedMeansExecuted
  <2>2. ASSUME NEW x \in Requests, NEW k \in CompletedBy(x)' PROVE ExecutedForGood(<<x, k>>)'
    BY <2>1, <2>2 DEF ExecutedForGood
  <2> QED
    BY <2>2 DEF CompletedMeansExecuted
<1>11. SentAccounted' /\ NonceUnique'
  BY <1>1 DEF SentAccounted, Accounted, NonceUnique
<1> QED
  BY <1>3, <1>6, <1>7, <1>8, <1>9, <1>10, <1>11 DEF IInv

\* The case of a request that pays nothing from the reserve row and reserves
\* nothing of it: one that comes from Robinhood.
LEMMA InboundMoves ==
  ASSUME IInv, NEW r \in Requests, FromRobinhood(r), NEW q \in ReqType,
         req' = [req EXCEPT ![r] = q],
         UNCHANGED <<dir, row, book, floor, clock, epoch, paused, pool, mined, final, forks>>,
         paidOut' \subseteq Requests,
         q.state = "Settled" => ExecutedForGood(<<r, "Settlement">>),
         q.state = "Refunded" => ExecutedForGood(<<r, "Refund">>),
         NEW w \in Workers, NEW s \in WorkType, Good(w, s)', work' = [work EXCEPT ![w] = s]
  PROVE  IInv' /\ RowsAdvance
<1>1. Shape /\ RowsGood /\ WorkGood /\ ReserveRowMatchesRequests
  BY DEF IInv
<1>2. /\ req'[r] = q
      /\ \A x \in Requests \ {r} : /\ Holding(x)' <=> Holding(x)
                                   /\ LeftReserve(x)' <=> LeftReserve(x)
  BY <1>1, OthersKeep
<1>3. dir[r] \in {"RhnToGlc", "RhnToSol"} /\ ~ToRobinhood(r) /\ ~ToRobinhood(r)' /\ FromRobinhood(r)'
  BY DEF FromRobinhood, ToRobinhood
<1>4. /\ CompletedBy(r)' = (IF q.state = "Settled" THEN {"Settlement"}
                            ELSE IF q.state = "Refunded" THEN {"Refund"} ELSE {})
      /\ CompletedBy(r) \subseteq {"Settlement", "Refund"}
  BY <1>2, <1>3 DEF CompletedBy, FromRobinhood
<1>5. ~Holding(r) /\ ~Holding(r)' /\ ~LeftReserve(r) /\ ~LeftReserve(r)'
  BY <1>3, <1>4 DEF Holding, LeftReserve
<1>6. ReserveRowMatchesRequests'
  BY <1>1, <1>2, <1>5, BookSame
<1>7. RequestGood(r)' /\ \A k \in CompletedBy(r)' : ExecutedForGood(<<r, k>>)
  BY <1>4 DEF RequestGood
<1>8. <<r, "Payout">> \in Ops /\ <<r, "Payout">>[1] = r /\ <<r, "Payout">>[2] = "Payout"
  BY OpMade DEF Kinds
<1>9. row[<<r, "Payout">>].state = "none" /\ row[<<r, "Payout">>] = NoRow
  BY <1>1, <1>3, <1>8 DEF RowsGood, RowGood, Fits
<1>10. RowGood(<<r, "Payout">>)'
  BY <1>9 DEF RowGood, NoRow
<1>11. ASSUME NEW v \in Workers \ {w}, work[v] # Idle, work[v].step \in {"begin", "collect"},
              work[v].op = <<r, "Payout">>
       PROVE  FALSE
  BY <1>1, <1>3, <1>8, <1>11 DEF WorkGood, Good, Fits
<1> QED
  BY <1>6, <1>7, <1>10, <1>11, ReqMoves

-----------------------------------------------------------------------------
(* Steps that record nothing *)

LEMMA PayloadTyped ==
  ASSUME Shape
  PROVE  Payload \in AuthType
<1>1. clock + Ttl \in -1 .. MaxClock + Ttl /\ epoch \in -1 .. MaxEpoch
  BY RhnBoundsAssumption DEF Shape
<1> QED
  BY <1>1 DEF Payload, AuthType

\* A worker sets out to authorize an operation of a fitting request.
LEMMA BeginKeeps ==
  ASSUME IInv, UNCHANGED <<ledgerVars, chainVars>>, NEW w \in Workers, NEW o \in Ops, Fits(o),
         o[2] = "Payout" => w = Daemon /\ req[o[1]].state = "SourceFinalized",
         NEW a \in AuthType, NEW step \in {"begin", "collect"},
         Step(w, [step |-> step, op |-> o, auth |-> a])
  PROVE  IInv' /\ RowsAdvance
<1> DEFINE s == [step |-> step, op |-> o, auth |-> a]
<1>1. s \in WorkType /\ s.step \in {"begin", "collect"} /\ s.op = o
  BY DEF WorkType
<1>2. Good(w, s)
  BY <1>1 DEF Good
<1> HIDE DEF s
<1>3. Step(w, s)
  BY DEF s
<1> QED
  BY <1>1, <1>2, <1>3, WorkOnly

LEMMA AuthorizeStep ==
  ASSUME IInv, NEW r \in Requests, AuthorizePayout(r) \/ AuthorizeSettlement(r)
  PROVE  IInv' /\ RowsAdvance
<1>1. PICK a \in AuthType : a = Payload
  BY PayloadTyped DEF IInv
<1>2. Daemon \in Workers
  BY DEF Workers
<1>3. CASE AuthorizePayout(r)
  <2>1. /\ Step(Daemon, [step |-> "begin", op |-> <<r, "Payout">>, auth |-> a])
        /\ ToRobinhood(r) /\ req[r].state = "SourceFinalized" /\ UNCHANGED <<ledgerVars, chainVars>>
    BY <1>1, <1>3 DEF AuthorizePayout, Begin
  <2>2. /\ <<r, "Payout">> \in Ops /\ <<r, "Payout">>[1] = r /\ <<r, "Payout">>[2] = "Payout"
    BY OpMade DEF Kinds
  <2>3. Fits(<<r, "Payout">>)
    BY <2>1, <2>2 DEF Fits
  <2> QED
    BY <1>2, <2>1, <2>2, <2>3, BeginKeeps
<1>4. CASE AuthorizeSettlement(r)
  <2>1. /\ Step(Daemon, [step |-> "begin", op |-> <<r, "Settlement">>, auth |-> a])
        /\ FromRobinhood(r) /\ UNCHANGED <<ledgerVars, chainVars>>
    BY <1>1, <1>4 DEF AuthorizeSettlement, Begin
  <2>2. /\ <<r, "Settlement">> \in Ops /\ <<r, "Settlement">>[1] = r
        /\ <<r, "Settlement">>[2] = "Settlement"
    BY OpMade DEF Kinds
  <2>3. Fits(<<r, "Settlement">>)
    BY <2>1, <2>2 DEF Fits
  <2> QED
    BY <1>2, <2>1, <2>2, <2>3, BeginKeeps
<1> QED
  BY <1>3, <1>4

LEMMA CheckStep ==
  ASSUME IInv, NEW w \in Workers, NEW r \in Requests, CheckRefund(w, r) \/ BeginTreasuryWithdraw(w, r)
  PROVE  IInv' /\ RowsAdvance
<1>1. PICK a \in AuthType : a = Payload
  BY PayloadTyped DEF IInv
<1>2. CASE CheckRefund(w, r)
  <2>1. /\ Step(w, [step |-> "begin", op |-> <<r, "Refund">>, auth |-> a])
        /\ FromRobinhood(r) /\ UNCHANGED <<ledgerVars, chainVars>>
    BY <1>1, <1>2 DEF CheckRefund, Begin
  <2>2. <<r, "Refund">> \in Ops /\ <<r, "Refund">>[1] = r /\ <<r, "Refund">>[2] = "Refund"
    BY OpMade DEF Kinds
  <2>3. Fits(<<r, "Refund">>)
    BY <2>1, <2>2 DEF Fits
  <2> QED
    BY <2>1, <2>2, <2>3, BeginKeeps
<1>3. CASE BeginTreasuryWithdraw(w, r)
  <2>1. PICK o \in Ops : o = <<r, "TreasuryWithdraw">> /\ o[1] = r /\ o[2] = "TreasuryWithdraw"
    BY OpMade DEF Kinds
  <2>2. PICK b \in AuthType : b = row[o].auth
    BY RowFacts DEF IInv, RowType, AuthType
  <2>3. /\ \/ Step(w, [step |-> "begin", op |-> o, auth |-> a])
           \/ Step(w, [step |-> "collect", op |-> o, auth |-> b])
        /\ dir[r] = "Treasury" /\ UNCHANGED <<ledgerVars, chainVars>>
    BY <1>1, <1>3, <2>1, <2>2 DEF BeginTreasuryWithdraw, Begin
  <2>4. Fits(o)
    BY <2>1, <2>3 DEF Fits
  <2> QED
    BY <2>1, <2>3, <2>4, BeginKeeps
<1> QED
  BY <1>2, <1>3

\* The other memories of a worker: what it is about to do with its operation.
LEMMA LaterWork ==
  ASSUME NEW o \in Ops,
         NEW step \in {"pending", "nonce", "sign", "send", "sent", "reverted", "park",
                       "fail", "verify", "complete", "confirm", "observe"}
  PROVE  LET s == [step |-> step, op |-> o]
         IN  s \in WorkType /\ s.step = step /\ s.op = o /\ s # Idle
BY DEF WorkType, Idle

LEMMA SignAndSendStep ==
  ASSUME IInv, NEW w \in Workers, NEW o \in Ops, SignAndSend(w, o) \/ Rebroadcast(w, o)
  PROVE  IInv' /\ RowsAdvance
<1>1. CASE SignAndSend(w, o)
  <2> DEFINE s == [step |-> "nonce", op |-> o]
  <2>1. Step(w, s) /\ UNCHANGED <<ledgerVars, chainVars>>
    BY <1>1 DEF SignAndSend
  <2>2. s \in WorkType /\ s.step = "nonce"
    BY DEF WorkType
  <2> HIDE DEF s
  <2>3. Good(w, s)
    BY <2>2 DEF Good
  <2> QED
    BY <2>1, <2>2, <2>3, WorkOnly
<1>2. CASE Rebroadcast(w, o)
  <2> DEFINE s == [step |-> "send", op |-> o]
  <2>1. Step(w, s) /\ UNCHANGED <<ledgerVars, chainVars>> /\ row[o].state = "Broadcast"
    BY <1>2 DEF Rebroadcast
  <2>2. s \in WorkType /\ s.step = "send" /\ s.op = o
    BY DEF WorkType
  <2>3. row[o].version >= 0
    BY <2>1 DEF IInv, RowsGood, RowGood
  <2> HIDE DEF s
  <2>4. Good(w, s)
    BY <2>2, <2>3 DEF Good
  <2> QED
    BY <2>1, <2>2, <2>4, WorkOnly
<1> QED
  BY <1>1, <1>2

LEMMA VerifyStep ==
  ASSUME IInv, NEW w \in Workers, VerifyOperationEffect(w)
  PROVE  IInv' /\ RowsAdvance
<1>1. work[w].step = "verify" /\ work[w] # Idle
  BY IdleStep DEF VerifyOperationEffect
<1>2. PICK o \in Ops : work[w] = [step |-> "verify", op |-> o]
  BY <1>1, WorkFacts DEF IInv
<1> DEFINE s == [step |-> "complete", op |-> o]
<1>3. Step(w, s) /\ UNCHANGED <<ledgerVars, chainVars>>
  BY <1>2 DEF VerifyOperationEffect
<1>4. row[o].state = "Finalized" /\ ExecutedForGood(o)
  BY <1>1, <1>2 DEF IInv, WorkGood, Good
<1>5. s \in WorkType /\ s.step = "complete" /\ s.op = o
  BY DEF WorkType
<1> HIDE DEF s
<1>6. Good(w, s)
  BY <1>4, <1>5 DEF Good
<1> QED
  BY <1>3, <1>5, <1>6, WorkOnly

LEMMA StopStep ==
  ASSUME IInv, NEW w \in Workers, Stop(w)
  PROVE  IInv' /\ RowsAdvance
BY IdleStep, WorkOnly DEF Stop, Done

LEMMA SendStep ==
  ASSUME IInv, NEW w \in Workers, SendRawTransaction(w)
  PROVE  IInv' /\ RowsAdvance
<1>1. work[w].step = "send" /\ work[w] # Idle
  BY IdleStep DEF SendRawTransaction
<1>2. PICK o \in Ops : work[w] = [step |-> "send", op |-> o]
  BY <1>1, WorkFacts DEF IInv
<1>3. Good(w, [step |-> "send", op |-> o])
  BY <1>2 DEF IInv, WorkGood
<1>4. row[o].version >= 0 /\ Good(w, [step |-> "sent", op |-> o])
  BY <1>3, LaterWork DEF Good
<1>5. /\ work' = [work EXCEPT ![w] = [step |-> "sent", op |-> o]]
      /\ UNCHANGED <<dir, req, row, book, floor>>
      /\ UNCHANGED <<clock, epoch, paused, mined, final, forks, paidOut>>
      /\ pool' \subseteq pool \cup {[op |-> o, version |-> row[o].version]}
  <2>1. work[w].op = o /\ [work[w] EXCEPT !.step = "sent"] = [step |-> "sent", op |-> o]
    BY <1>2
  <2>2. Step(w, [step |-> "sent", op |-> o])
    BY <2>1 DEF SendRawTransaction
  <2>3. pool' \subseteq pool \cup {[op |-> o, version |-> row[o].version]}
    BY <2>1 DEF SendRawTransaction
  <2> QED
    BY <2>2, <2>3 DEF SendRawTransaction, Step, ledgerVars
<1>6. /\ Shape /\ WorkGood /\ RowsAdvance /\ row' \in [Ops -> RowType]
  BY <1>5, StillRows DEF IInv, Shape
<1>7. \A p \in Ops : ExecutedForGood(p)' <=> ExecutedForGood(p)
  BY <1>5 DEF ExecutedForGood
<1>8. Good(w, [step |-> "sent", op |-> o])'
  BY <1>4, <1>5, LaterWork DEF Good, Fits, ToRobinhood, FromRobinhood, ExecutedForGood
<1>9. WorkGood' /\ work' \in [Workers -> WorkType]
  <2>1. [step |-> "sent", op |-> o] \in WorkType
    BY LaterWork
  <2> QED
    BY <1>5, <1>6, <1>7, <1>8, <2>1, BeginningsKept, WorkMoves
<1>10. pool' \subseteq TxType
  <2>1. row[o].version \in Nat
    BY <1>4, <1>6, RowFacts
  <2> QED
    BY <1>5, <1>6, <2>1 DEF Shape, TxType
<1>11. Shape'
  BY <1>5, <1>6, <1>9, <1>10 DEF Shape
<1>12. Accounted([op |-> o, version |-> row[o].version])
  BY <1>4, <1>6, RowFacts DEF IInv, RowsGood, RowGood, Accounted
<1>13. SentAccounted'
  <2>1. \A t \in pool' : Accounted(t)
    BY <1>5, <1>12 DEF IInv, SentAccounted
  <2>2. \A t \in pool' : Accounted(t)'
    BY <1>5, <2>1 DEF Accounted
  <2> QED
    BY <1>5, <2>2 DEF IInv, SentAccounted, Accounted
<1> QED
  BY <1>5, <1>7, <1>9, <1>11, <1>13, LedgerStays

LEMMA ReconcileNonceStep ==
  ASSUME IInv, NEW w \in Workers, ReconcileNonce(w)
  PROVE  IInv' /\ RowsAdvance
<1>1. /\ floor' = Len(mined) /\ UNCHANGED <<dir, req, row, book, work>>
      /\ UNCHANGED <<clock, epoch, paused, pool, mined, final, forks, paidOut>>
  BY DEF ReconcileNonce, chainVars
<1>2. Len(mined) \in Nat
  BY LenProperties DEF IInv, Shape
<1>3. Shape'
  BY <1>1, <1>2 DEF IInv, Shape
<1>4. \A o \in Ops : ExecutedForGood(o)' <=> ExecutedForGood(o)
  BY <1>1 DEF ExecutedForGood
<1>5. WorkGood' /\ SentAccounted'
  BY <1>1 DEF IInv, WorkGood, Good, Fits, ToRobinhood, FromRobinhood, ExecutedForGood, SentAccounted, Accounted, Unsigned
<1> QED
  BY <1>1, <1>3, <1>4, <1>5, LedgerStays

-----------------------------------------------------------------------------
(* Steps of the chain *)

LEMMA MinedFacts ==
  ASSUME Shape
  PROVE  /\ mined \in Seq(MinedType) /\ Len(mined) \in Nat /\ DOMAIN mined = 1 .. Len(mined)
         /\ \A i \in 1 .. Len(mined) : mined[i] \in MinedType
         /\ final \in Nat /\ final <= Len(mined)
<1>1. mined \in Seq(MinedType) /\ final \in 0 .. Len(mined)
  BY DEF Shape
<1>2. Len(mined) \in Nat /\ DOMAIN mined = 1 .. Len(mined)
  BY <1>1, LenProperties
<1> QED
  BY <1>1, <1>2

\* Blocks past the required confirmations stay; only the end of the chain moves.
LEMMA FinalStays ==
  ASSUME Shape, final' \in Nat, final <= final',
         \A i \in 1 .. final : mined'[i] = mined[i]
  PROVE  \A o \in Ops : ExecutedForGood(o) => ExecutedForGood(o)'
<1>1. final \in Nat
  BY MinedFacts
<1>2. 1 .. final \subseteq 1 .. final'
  BY <1>1
<1> QED
  BY <1>2 DEF ExecutedForGood

LEMMA ClockStep ==
  ASSUME IInv, Tick \/ RotateSigners \/ TogglePause \/ \E t \in pool : Evict(t)
  PROVE  IInv' /\ RowsAdvance
<1>1. /\ UNCHANGED <<ledgerVars, work, mined, final, forks, paidOut>> /\ pool' \subseteq pool
      /\ clock' = clock \/ (clock < MaxClock /\ clock' = clock + 1)
      /\ epoch' = epoch \/ (epoch < MaxEpoch /\ epoch' = epoch + 1)
  BY DEF Tick, RotateSigners, TogglePause, Evict
<1>2. Shape /\ row' = row
  BY <1>1 DEF IInv, ledgerVars
<1>3. clock' \in 0 .. MaxClock /\ epoch' \in 0 .. MaxEpoch
  BY <1>1, <1>2, RhnBoundsAssumption DEF Shape
<1>4. \A o \in Ops : ExecutedForGood(o)' <=> ExecutedForGood(o)
  BY <1>1 DEF ExecutedForGood
<1>5. SentAccounted'
  BY <1>1, <1>2 DEF IInv, SentAccounted, Accounted
<1>6. /\ forks' \in 0 .. MaxReorgs /\ paidOut' \subseteq Requests /\ pool' \subseteq TxType
      /\ mined' \in Seq(MinedType) /\ final' \in 0 .. Len(mined')
  BY <1>1, <1>2 DEF Shape
<1>7. UNCHANGED <<ledgerVars, work>>
  BY <1>1
<1> QED
  BY <1>3, <1>4, <1>5, <1>6, <1>7, ChainOnly

\* A transaction is appended to the chain.
LEMMA Appended ==
  ASSUME IInv, NEW m \in MinedType, mined' = Append(mined, m), m.op # ForeignOp => Accounted(m),
         UNCHANGED <<ledgerVars, work, clock, epoch, paused, pool, final, forks, paidOut>>
  PROVE  IInv' /\ RowsAdvance
<1>1. UNCHANGED <<ledgerVars, work>> /\ row' = row /\ final' = final /\ pool' = pool
  BY DEF ledgerVars
<1>2. Shape /\ mined \in Seq(MinedType) /\ Len(mined) \in Nat /\ DOMAIN mined = 1 .. Len(mined)
      /\ final \in Nat /\ final <= Len(mined)
  BY MinedFacts DEF IInv
<1>3. /\ mined' \in Seq(MinedType) /\ Len(mined') = Len(mined) + 1
      /\ DOMAIN mined' = 1 .. Len(mined) + 1
      /\ \A i \in 1 .. Len(mined) : mined'[i] = mined[i]
      /\ mined'[Len(mined) + 1] = m
  BY <1>2, AppendProperties
<1>4. \A i \in 1 .. final : mined'[i] = mined[i]
  BY <1>2, <1>3
<1>5. \A o \in Ops : ExecutedForGood(o) => ExecutedForGood(o)'
  BY <1>1, <1>2, <1>4, FinalStays
<1>6. final' \in 0 .. Len(mined')
  BY <1>1, <1>2, <1>3
<1>7. SentAccounted'
  <2>1. \A t \in pool' : Accounted(t)'
    BY <1>1 DEF IInv, SentAccounted, Accounted
  <2>2. ASSUME NEW i \in DOMAIN mined', mined'[i].op # ForeignOp PROVE Accounted(mined[i])'
    <3>1. CASE i \in 1 .. Len(mined)
      <4>1. mined'[i] = mined[i] /\ Accounted(mined[i])
        BY <1>2, <1>3, <2>2, <3>1 DEF IInv, SentAccounted
      <4> QED
        BY <1>1, <4>1 DEF Accounted
    <3>2. CASE i = Len(mined) + 1
      <4>1. mined'[i] = m /\ Accounted(m)
        BY <1>3, <2>2, <3>2
      <4> QED
        BY <1>1, <4>1 DEF Accounted
    <3> QED
      BY <1>2, <1>3, <3>1, <3>2
  <2> QED
    BY <2>1, <2>2 DEF SentAccounted
<1>8. /\ clock' \in 0 .. MaxClock /\ epoch' \in 0 .. MaxEpoch /\ forks' \in 0 .. MaxReorgs
      /\ paidOut' \subseteq Requests /\ pool' \subseteq TxType
  BY <1>2 DEF Shape
<1> QED
  BY <1>1, <1>3, <1>5, <1>6, <1>7, <1>8, ChainOnly

LEMMA MaxReorgsNat == MaxReorgs \in Nat
BY RhnBoundsAssumption

LEMMA MineStep ==
  ASSUME IInv, Mine \/ MineForeign
  PROVE  IInv' /\ RowsAdvance
<1>0. Shape /\ forks \in 0 .. MaxReorgs
  BY DEF IInv, Shape
<1>1. CASE Mine
  <2>1. PICK t \in pool, h \in Heights :
          mined' = Append(mined, [op |-> t.op, version |-> t.version,
                                  ok |-> WouldSucceed(t.op), block |-> h])
    BY <1>1 DEF Mine
  <2>2. PICK b \in BOOLEAN : b = WouldSucceed(t.op)
    BY DEF WouldSucceed
  <2>3. PICK f \in 0 .. MaxReorgs : f = h
    BY <1>0, MaxReorgsNat DEF Heights
  <2> DEFINE m == [op |-> t.op, version |-> t.version, ok |-> b, block |-> f]
  <2>4. t.op \in Ops /\ t.version \in Nat /\ Accounted(t)
    BY <1>0 DEF IInv, SentAccounted, Shape, TxType
  <2>5. m \in MinedType /\ m.op = t.op /\ m.version = t.version
    BY <2>4 DEF MinedType
  <2>6. mined' = Append(mined, m)
    BY <2>1, <2>2, <2>3
  <2> HIDE DEF m
  <2>7. Accounted(m)
    BY <2>4, <2>5 DEF Accounted
  <2>8. UNCHANGED <<ledgerVars, work, clock, epoch, paused, pool, final, forks, paidOut>>
    BY <1>1 DEF Mine
  <2> QED
    BY <2>5, <2>6, <2>7, <2>8, Appended
<1>2. CASE MineForeign
  <2>0. PICK h \in Heights :
          mined' = Append(mined, [op |-> ForeignOp, version |-> 0, ok |-> TRUE, block |-> h])
    BY <1>2 DEF MineForeign
  <2>1. PICK f \in 0 .. MaxReorgs : f = h
    BY <1>0, MaxReorgsNat DEF Heights
  <2> DEFINE m == [op |-> ForeignOp, version |-> 0, ok |-> TRUE, block |-> f]
  <2>2. m \in MinedType /\ m.op = ForeignOp
    BY DEF MinedType
  <2>3. /\ mined' = Append(mined, m)
        /\ UNCHANGED <<ledgerVars, work, clock, epoch, paused, pool, final, forks, paidOut>>
    BY <1>2, <2>0, <2>1 DEF MineForeign
  <2> HIDE DEF m
  <2> QED
    BY <2>2, <2>3, Appended
<1> QED
  BY <1>1, <1>2

LEMMA DeepenStep ==
  ASSUME IInv, Deepen \/ Reorg
  PROVE  IInv' /\ RowsAdvance
<1>1. Shape /\ mined \in Seq(MinedType) /\ Len(mined) \in Nat /\ DOMAIN mined = 1 .. Len(mined)
      /\ final \in Nat /\ final < Len(mined)
  BY MinedFacts DEF IInv, Deepen, Reorg
<1>2. UNCHANGED <<ledgerVars, work>> /\ row' = row
      /\ UNCHANGED <<clock, epoch, paused, pool, paidOut>>
  BY DEF Deepen, Reorg, ledgerVars
<1>3. /\ clock' \in 0 .. MaxClock /\ epoch' \in 0 .. MaxEpoch
      /\ paidOut' \subseteq Requests /\ pool' \subseteq TxType
  BY <1>1, <1>2 DEF Shape
<1>4. CASE Deepen
  <2>1. final' = final + 1 /\ mined' = mined /\ forks' = forks
    BY <1>4 DEF Deepen
  <2>2. final' \in Nat /\ final <= final' /\ final' \in 0 .. Len(mined')
    BY <1>1, <2>1
  <2>3. \A o \in Ops : ExecutedForGood(o) => ExecutedForGood(o)'
    BY <1>1, <2>1, <2>2, FinalStays
  <2>4. SentAccounted'
    BY <1>2, <2>1 DEF IInv, SentAccounted, Accounted
  <2>5. forks' \in 0 .. MaxReorgs /\ mined' \in Seq(MinedType)
    BY <1>1, <2>1 DEF Shape
  <2> QED
    BY <1>2, <1>3, <2>2, <2>3, <2>4, <2>5, ChainOnly
<1>5. CASE Reorg
  <2>1. /\ mined' = SubSeq(mined, 1, Len(mined) - 1) /\ final' = final
        /\ forks' = forks + 1 /\ forks < MaxReorgs
    BY <1>5 DEF Reorg
  <2>2. /\ mined' \in Seq(MinedType) /\ Len(mined') = Len(mined) - 1
        /\ \A i \in 1 .. Len(mined) - 1 : mined'[i] = mined[i]
    BY <1>1, <2>1, SubSeqProperties
  <2>3. DOMAIN mined' = 1 .. Len(mined) - 1
    BY <2>2, LenProperties
  <2>4. final' \in Nat /\ final <= final' /\ final' \in 0 .. Len(mined')
        /\ \A i \in 1 .. final : mined'[i] = mined[i]
    BY <1>1, <2>1, <2>2
  <2>5. \A o \in Ops : ExecutedForGood(o) => ExecutedForGood(o)'
    BY <1>1, <2>4, FinalStays
  <2>6. SentAccounted'
    <3>1. \A t \in pool' : Accounted(t)'
      BY <1>2 DEF IInv, SentAccounted, Accounted
    <3>2. ASSUME NEW i \in DOMAIN mined', mined'[i].op # ForeignOp PROVE Accounted(mined[i])'
      <4>1. i \in 1 .. Len(mined) - 1 /\ i \in DOMAIN mined
        BY <1>1, <2>3
      <4>2. mined'[i] = mined[i] /\ Accounted(mined[i])
        BY <2>2, <3>2, <4>1 DEF IInv, SentAccounted
      <4> QED
        BY <1>2, <4>2 DEF Accounted
    <3> QED
      BY <3>1, <3>2 DEF SentAccounted
  <2>7. forks' \in 0 .. MaxReorgs
    BY <1>1, <2>1, RhnBoundsAssumption DEF Shape
  <2> QED
    BY <1>2, <1>3, <2>2, <2>4, <2>5, <2>6, <2>7, ChainOnly
<1> QED
  BY <1>4, <1>5

-----------------------------------------------------------------------------
(* Steps that move a row *)

\* The row of an operation moves to n, stated field by field.
LEMMA RowTaken ==
  ASSUME IInv, NEW o \in Ops, row[o].state # "none",
         NEW n \in RowType, row' = [row EXCEPT ![o] = n],
         UNCHANGED <<dir, req, book, floor, chainVars>>,
         n.nonce = row[o].nonce, n.version >= row[o].version,
         row[o].sigs # NoPayload => n.sigs = row[o].sigs,
         n.state # "none", Late(row[o].state) => Late(n.state),
         row[o].state = "Finalized" => n.state = "Finalized",
         row[o].state \in Stopped(o) => n.state \in Stopped(o),
         n.state \in {"none", "Authorizing"} => Unsigned(o),
         n.version >= 0 => n.nonce >= 0 /\ Late(n.state),
         n.state \in {"Signed", "Broadcast", "Included"} => n.version >= 0,
         o[2] = "Payout" /\ n.state \in {"Authorized", "Signed", "Broadcast", "Included"} =>
           req[o[1]].state = "SourceFinalized",
         o[2] = "Payout" /\ n.state = "Finalized" =>
           req[o[1]].state \in {"SourceFinalized", "DestinationConfirmed", "Settled"},
         NEW w \in Workers, NEW s \in WorkType, Good(w, s)', work' = [work EXCEPT ![w] = s]
  PROVE  IInv' /\ RowsAdvance
<1>1. row'[o] = n /\ req' = req /\ dir' = dir
  BY DEF IInv, Shape
<1>2. Fits(o)
  BY DEF IInv, RowsGood, RowGood
<1>3. Fits(o)'
  BY <1>1, <1>2 DEF Fits, ToRobinhood, FromRobinhood
<1>4. Advances(o)
  BY <1>1 DEF Advances, Unsigned
<1>5. RowGood(o)'
  BY <1>1, <1>3 DEF RowGood
<1> QED
  BY <1>4, <1>5, RowMoves

\* An edit of the state, or of the state and one more field, is such an n.
LEMMA StateEdited ==
  ASSUME Shape, NEW o \in Ops, NEW st \in TxStates
  PROVE  LET n == [row[o] EXCEPT !.state = st]
         IN  /\ n \in RowType /\ n.state = st /\ n.version = row[o].version
             /\ n.nonce = row[o].nonce /\ n.sigs = row[o].sigs /\ n.auth = row[o].auth
             /\ [row EXCEPT ![o].state = st] = [row EXCEPT ![o] = n]
BY RowFacts DEF RowType, Shape

\* ReviewRow stops a row that exists and is not final.
LEMMA ReviewMoves ==
  ASSUME IInv, NEW o \in Ops, row[o].state # "none", row' = ReviewRow(o),
         UNCHANGED <<dir, req, book, floor, chainVars>>,
         NEW w \in Workers, NEW s \in WorkType, Good(w, s)', work' = [work EXCEPT ![w] = s]
  PROVE  IInv' /\ RowsAdvance
<1>t. Shape /\ row[o].version \in Int /\ row[o].nonce \in Int /\ RowGood(o)
  BY RowFacts DEF IInv, RowsGood
<1>1. CASE row[o].state = "Finalized"
  <2>1. row' = row /\ row' = [row EXCEPT ![o] = row[o]]
    BY <1>1, <1>t DEF ReviewRow, Shape
  <2>2. PICK n \in RowType : n = row[o]
    BY <1>t, RowFacts
  <2>3. row' = [row EXCEPT ![o] = n]
    BY <2>1, <2>2
  <2>4. n.version >= row[o].version /\ n.nonce = row[o].nonce /\ n.sigs = row[o].sigs
        /\ n.state = "Finalized"
    BY <1>1, <1>t, <2>2
  <2>5. n.version >= 0 => n.nonce >= 0
    BY <1>t, <2>2 DEF RowGood
  <2>6. Late(n.state) /\ (row[o].state \in Stopped(o) => n.state \in Stopped(o))
    BY <1>1, <2>4 DEF Late
  <2>7. o[2] = "Payout" => req[o[1]].state \in {"SourceFinalized", "DestinationConfirmed", "Settled"}
    BY <1>1, <1>t DEF RowGood
  <2> QED
    BY <1>1, <2>3, <2>4, <2>5, <2>6, <2>7, RowTaken
<1>2. CASE row[o].state # "Finalized"
  <2>1. PICK n \in RowType :
          /\ n.state = "ManualReview" /\ n.version = row[o].version
          /\ n.nonce = row[o].nonce /\ n.sigs = row[o].sigs /\ row' = [row EXCEPT ![o] = n]
    <3>1. "ManualReview" \in TxStates
      BY DEF TxStates
    <3> QED
      BY <1>2, <1>t, <3>1, StateEdited DEF ReviewRow, RowTo
  <2>2. Late(n.state) /\ n.state \in Stopped(o)
    BY <2>1 DEF Late, Stopped
  <2>3. n.version >= row[o].version
    BY <1>t, <2>1
  <2>4. n.version >= 0 => n.nonce >= 0
    BY <1>t, <2>1 DEF RowGood
  <2> QED
    BY <1>2, <2>1, <2>2, <2>3, <2>4, RowTaken
<1> QED
  BY <1>1, <1>2

LEMMA ReviewRevertedStep ==
  ASSUME IInv, NEW w \in Workers, ReviewReverted(w)
  PROVE  IInv' /\ RowsAdvance
<1>1. work[w].step = "reverted" /\ work[w] # Idle
  BY IdleStep DEF ReviewReverted
<1>2. PICK o \in Ops : work[w] = [step |-> "reverted", op |-> o]
  BY <1>1, WorkFacts DEF IInv
<1>3. work[w].op = o /\ [work[w] EXCEPT !.step = "park"] = [step |-> "park", op |-> o]
  BY <1>2
<1>4. row' = ReviewRow(o) /\ work' = [work EXCEPT ![w] = [step |-> "park", op |-> o]]
      /\ UNCHANGED <<dir, req, book, floor, chainVars>>
  BY <1>3 DEF ReviewReverted, Step
<1>5. Good(w, [step |-> "reverted", op |-> o])
  BY <1>2 DEF IInv, WorkGood
<1>6. row[o].state \in Stopped(o)
  <2> DEFINE s == [step |-> "reverted", op |-> o]
  <2>1. s.step = "reverted" /\ s.op = o /\ s # Idle
    BY IdleStep
  <2>2. Good(w, s)
    BY <1>5
  <2> HIDE DEF s
  <2> QED
    BY <2>1, <2>2 DEF Good
<1>7. row'[o].state \in Stopped(o)
  BY <1>4, <1>6 DEF ReviewRow, RowTo, IInv, Shape, Stopped
<1>8. Good(w, [step |-> "park", op |-> o])'
  BY <1>7, LaterWork DEF Good, Stopped
<1>9. row[o].state # "none" /\ [step |-> "park", op |-> o] \in WorkType
  BY <1>6, LaterWork DEF Stopped
<1> QED
  BY <1>4, <1>8, <1>9, ReviewMoves

\* begin_robinhood_tx creates the row of an operation that fits its request.
LEMMA BeginStep ==
  ASSUME IInv, NEW w \in Workers, BeginRobinhoodTx(w)
  PROVE  IInv' /\ RowsAdvance
<1>1. work[w].step = "begin" /\ work[w] # Idle
  BY IdleStep DEF BeginRobinhoodTx
<1>2. work[w] \in [step : {"begin", "collect"}, op : Ops, auth : AuthType]
  BY <1>1, WorkFacts DEF IInv
<1>3. PICK o \in Ops, a \in AuthType : work[w] = [step |-> "begin", op |-> o, auth |-> a]
  BY <1>1, <1>2
<1> DEFINE s == [step |-> "collect", op |-> o, auth |-> a]
<1>4. work[w].op = o /\ work[w].auth = a /\ [work[w] EXCEPT !.step = "collect"] = s
  BY <1>3
<1>5. Step(w, s) /\ UNCHANGED <<dir, req, book, floor, chainVars>>
      /\ row' = IF row[o].state = "none"
                THEN [row EXCEPT ![o] = [NoRow EXCEPT !.state = "Authorizing", !.auth = a]]
                ELSE row
  BY <1>4 DEF BeginRobinhoodTx
<1>6. Good(w, [step |-> "begin", op |-> o, auth |-> a])
  BY <1>3 DEF IInv, WorkGood
<1>7. /\ Fits(o)
      /\ o[2] = "Payout" => w = Daemon /\ (Unsigned(o) => req[o[1]].state = "SourceFinalized")
  BY <1>6 DEF Good, Idle
<1>8. s \in WorkType /\ s.step = "collect" /\ s.op = o
  BY DEF WorkType
<1>9. Good(w, s)
  BY <1>7, <1>8 DEF Good
<1>10. Good(w, s)'
  <2>1. UNCHANGED <<dir, req>> /\ (Fits(o)' <=> Fits(o))
    BY <1>5 DEF Fits, ToRobinhood, FromRobinhood
  <2>2. Unsigned(o)' => Unsigned(o)
    BY <1>5 DEF Unsigned
  <2> HIDE DEF s
  <2> QED
    BY <1>7, <1>8, <2>1, <2>2 DEF Good
<1> HIDE DEF s
<1>11. CASE row[o].state # "none"
  <2>1. UNCHANGED <<ledgerVars, chainVars>>
    BY <1>5, <1>11 DEF ledgerVars
  <2> QED
    BY <1>5, <1>8, <1>9, <2>1, WorkOnly
<1>12. CASE row[o].state = "none"
  <2> DEFINE n == [NoRow EXCEPT !.state = "Authorizing", !.auth = a]
  <2>1. NoPayload \in AuthType
    BY RhnBoundsAssumption DEF NoPayload, AuthType
  <2>2. /\ NoRow \in RowType /\ NoRow.version = -1 /\ NoRow.nonce = -1 /\ NoRow.sigs = NoPayload
    BY <2>1, RhnBoundsAssumption DEF RowType, AuthType, TxStates, NoRow
  <2>3. /\ n \in RowType /\ n.state = "Authorizing" /\ n.version = -1 /\ n.nonce = -1
        /\ n.sigs = NoPayload
    <3>1. "Authorizing" \in TxStates /\ a \in AuthType
      BY DEF TxStates
    <3> QED
      BY <2>2, <3>1 DEF RowType, AuthType
  <2>4. row' = [row EXCEPT ![o] = n]
    BY <1>5, <1>12
  <2> HIDE DEF n
  <2>5. row[o] = NoRow
    BY <1>12 DEF IInv, RowsGood, RowGood
  <2>6. row[o].nonce = -1 /\ row[o].version = -1 /\ row[o].sigs = NoPayload
    BY <2>5 DEF NoRow
  <2>7. row'[o] = n /\ req' = req /\ dir' = dir
    BY <1>5, <2>4 DEF IInv, Shape
  <2>8. Advances(o)
    BY <1>12, <2>3, <2>6, <2>7 DEF Advances, Late, Stopped, Unsigned
  <2>9. Fits(o)'
    BY <1>7, <2>7 DEF Fits, ToRobinhood, FromRobinhood
  <2>10. RowGood(o)'
    BY <2>3, <2>7, <2>9 DEF RowGood
  <2> QED
    BY <1>5, <1>8, <1>10, <2>3, <2>4, <2>6, <2>8, <2>10, RowMoves DEF Step
<1> QED
  BY <1>11, <1>12

\* What a busy worker remembers, by its operation.
LEMMA Remembered ==
  ASSUME IInv, NEW w \in Workers,
         NEW st \in {"pending", "nonce", "sign", "send", "sent", "reverted", "park",
                     "fail", "verify", "complete", "confirm", "observe"}, work[w].step = st
  PROVE  \E o \in Ops : /\ work[w].op = o /\ work[w] # Idle /\ Good(w, work[w])
                        /\ work[w] = [step |-> st, op |-> o]
<1>1. work[w] # Idle
  BY IdleStep
<1>2. work[w].op \in Ops /\ work[w] = [step |-> st, op |-> work[w].op]
  BY <1>1, WorkFacts DEF IInv
<1> QED
  BY <1>1, <1>2 DEF IInv, WorkGood

\* Edits of two fields of a row.
LEMMA SigsEdited ==
  ASSUME Shape, NEW o \in Ops, NEW a \in AuthType
  PROVE  \E n \in RowType :
           /\ n.state = "Authorized" /\ n.sigs = a /\ n.version = row[o].version
           /\ n.nonce = row[o].nonce
           /\ [row EXCEPT ![o].sigs = a, ![o].state = "Authorized"] = [row EXCEPT ![o] = n]
<1> DEFINE m == [row[o] EXCEPT !.sigs = a]
           n == [m EXCEPT !.state = "Authorized"]
<1>1. row[o] \in RowType /\ "Authorized" \in TxStates
  BY RowFacts DEF TxStates
<1>2. m \in RowType /\ m.sigs = a /\ m.version = row[o].version /\ m.nonce = row[o].nonce
  BY <1>1 DEF RowType, AuthType
<1>3. n \in RowType /\ n.state = "Authorized" /\ n.sigs = a /\ n.version = row[o].version
      /\ n.nonce = row[o].nonce
  <2> HIDE DEF m
  <2> QED
    BY <1>1, <1>2 DEF RowType
<1>4. [row EXCEPT ![o].sigs = a, ![o].state = "Authorized"] = [row EXCEPT ![o] = n]
  BY DEF Shape
<1> QED
  BY <1>3, <1>4

LEMMA RecordAuthorizationStep ==
  ASSUME IInv, NEW w \in Workers, RecordRobinhoodAuthorization(w)
  PROVE  IInv' /\ RowsAdvance
<1>1. work[w].step = "collect" /\ work[w] # Idle
  BY IdleStep DEF RecordRobinhoodAuthorization
<1>2. work[w] \in [step : {"begin", "collect"}, op : Ops, auth : AuthType]
  BY <1>1, WorkFacts DEF IInv
<1>3. PICK o \in Ops, a \in AuthType : work[w].op = o /\ work[w].auth = a
  BY <1>2
<1>4. /\ Fits(o)
      /\ o[2] = "Payout" /\ row[o].state = "Authorizing" => req[o[1]].state = "SourceFinalized"
  BY <1>1, <1>3 DEF IInv, WorkGood, Good, Unsigned
<1>5. PICK s \in WorkType :
        /\ Step(w, s)
        /\ s = Idle \/ (o[2] = "Refund" /\ s = [step |-> "pending", op |-> o])
  <2>1. Step(w, IF (row[o].sigs = NoPayload /\ row[o].state = "Authorizing") \/ row[o].sigs = a
                THEN IF o[2] = "Refund" THEN [step |-> "pending", op |-> o] ELSE Idle
                ELSE Idle)
    BY <1>3 DEF RecordRobinhoodAuthorization
  <2>2. [step |-> "pending", op |-> o] \in WorkType
    BY DEF WorkType
  <2> QED
    BY <2>1, <2>2, IdleStep
<1>6. Good(w, s)
  BY <1>4, <1>5, IdleStep DEF Good
<1>7. /\ row' = IF row[o].sigs = NoPayload /\ row[o].state = "Authorizing"
                THEN [row EXCEPT ![o].sigs = a, ![o].state = "Authorized"] ELSE row
      /\ UNCHANGED <<dir, req, book, floor, chainVars>>
  BY <1>3 DEF RecordRobinhoodAuthorization
<1>8. Good(w, s)'
  BY <1>4, <1>5, <1>7, IdleStep DEF Good, Fits, FromRobinhood, ToRobinhood
<1>9. CASE ~(row[o].sigs = NoPayload /\ row[o].state = "Authorizing")
  BY <1>5, <1>6, <1>7, <1>9, WorkOnly DEF ledgerVars
<1>10. CASE row[o].sigs = NoPayload /\ row[o].state = "Authorizing"
  <2>1. PICK n \in RowType :
          /\ n.state = "Authorized" /\ n.sigs = a /\ n.version = row[o].version
          /\ n.nonce = row[o].nonce /\ row' = [row EXCEPT ![o] = n]
    <3>1. row' = [row EXCEPT ![o].sigs = a, ![o].state = "Authorized"] /\ Shape
      BY <1>7, <1>10 DEF IInv
    <3>2. PICK n \in RowType :
            /\ n.state = "Authorized" /\ n.sigs = a /\ n.version = row[o].version
            /\ n.nonce = row[o].nonce
            /\ [row EXCEPT ![o].sigs = a, ![o].state = "Authorized"] = [row EXCEPT ![o] = n]
      BY <3>1, SigsEdited
    <3>3. row' = [row EXCEPT ![o] = n]
      BY <3>1, <3>2
    <3> QED
      BY <3>2, <3>3
  <2>2. row[o].version \in Int /\ ~(row[o].version >= 0)
    BY <1>10, RowFacts DEF IInv, RowsGood, RowGood, Late
  <2>3. n.version >= row[o].version /\ ~(n.version >= 0)
    BY <2>1, <2>2
  <2>4. ~Late(row[o].state) /\ row[o].state \notin Stopped(o) /\ row[o].state # "none"
    BY <1>10 DEF Late, Stopped
  <2>5. work' = [work EXCEPT ![w] = s]
    BY <1>5 DEF Step
  <2> QED
    BY <1>4, <1>7, <1>8, <1>10, <2>1, <2>3, <2>4, <2>5, RowTaken
<1> QED
  BY <1>9, <1>10

LEMMA MarkRefundPendingStep ==
  ASSUME IInv, NEW w \in Workers, MarkRobinhoodRefundPending(w)
  PROVE  IInv' /\ RowsAdvance
<1>1. work[w].step = "pending"
  BY DEF MarkRobinhoodRefundPending
<1>2. PICK o \in Ops : work[w].op = o /\ work[w] # Idle /\ Good(w, work[w])
  BY <1>1, Remembered
<1>3. PICK r \in Requests : r = o[1] /\ FromRobinhood(r)
  BY <1>1, <1>2, OpFacts DEF Good, Fits
<1>4. /\ req' = IF req[r].state = "ManualReview" THEN [req EXCEPT ![r].state = "RefundPending"] ELSE req
      /\ Step(w, Idle) /\ UNCHANGED <<dir, row, book, floor, chainVars>>
  BY <1>2, <1>3 DEF MarkRobinhoodRefundPending, Done
<1>5. CASE req' = req
  BY <1>4, <1>5, IdleStep, WorkOnly DEF ledgerVars
<1>6. CASE req' = [req EXCEPT ![r].state = "RefundPending"]
  <2>1. PICK q \in ReqType : q.state = "RefundPending" /\ req' = [req EXCEPT ![r] = q]
    <3> DEFINE q == [req[r] EXCEPT !.state = "RefundPending"]
    <3>1. q \in ReqType /\ q.state = "RefundPending"
      BY DEF IInv, Shape, ReqType, ReqStates
    <3>2. req' = [req EXCEPT ![r] = q]
      BY <1>6
    <3> QED
      BY <3>1, <3>2
  <2>2. /\ UNCHANGED <<dir, row, book, floor, clock, epoch, paused, pool, mined, final, forks>>
        /\ paidOut' \subseteq Requests /\ work' = [work EXCEPT ![w] = Idle]
    BY <1>4 DEF chainVars, Step, IInv, Shape
  <2>3. Good(w, Idle)'
    BY DEF Good
  <2> QED
    BY <1>3, <2>1, <2>2, <2>3, IdleStep, InboundMoves
<1> QED
  BY <1>4, <1>5, <1>6

\* A new nonce is above every recorded one.
LEMMA NextNonceFresh ==
  ASSUME IInv
  PROVE  NextNonce \in Nat /\ \A p \in Ops : row[p].nonce # NextNonce
<1> DEFINE N == Nonces
<1>1. IsFiniteSet(Ops)
  <2>1. IsFiniteSet(Requests)
    BY RhnFundsAssumption
  <2>2. IsFiniteSet(Kinds)
    <3>1. IsFiniteSet({"Payout"} \cup {"Settlement"})
      BY FS_Singleton, FS_Union
    <3>2. IsFiniteSet({"Refund"} \cup {"TreasuryWithdraw"})
      BY FS_Singleton, FS_Union
    <3>3. Kinds = ({"Payout"} \cup {"Settlement"}) \cup ({"Refund"} \cup {"TreasuryWithdraw"})
      BY DEF Kinds
    <3> QED
      BY <3>1, <3>2, <3>3, FS_Union
  <2> QED
    BY <2>1, <2>2, FS_Product DEF Ops
<1>2. IsFiniteSet({row[o].nonce : o \in Ops})
  <2> DEFINE T == {row[o].nonce : o \in Ops}
             f == [o \in Ops |-> row[o].nonce]
  <2>1. f \in Surjection(Ops, T)
    BY DEF Surjection
  <2> HIDE DEF T, f
  <2>2. IsFiniteSet(T)
    BY <1>1, <2>1, FS_Surjection
  <2> QED
    BY <2>2 DEF T
<1>3. N \subseteq {row[o].nonce : o \in Ops} /\ -1 \notin N
  BY DEF Nonces
<1>4. IsFiniteSet(N)
  BY <1>2, <1>3, FS_Subset
<1>5. \A o \in Ops : row[o].nonce \in Nat \cup {-1}
  BY RowFacts DEF IInv, RowType
<1>6. \A x \in N : x \in Nat
  BY <1>3, <1>5
<1>7. \A o \in Ops : row[o].nonce # -1 => row[o].nonce \in N
  BY DEF Nonces
<1>8. floor \in Nat
  BY DEF IInv, Shape
<1> HIDE DEF N
<1>9. CASE N = {}
  <2>1. NextNonce = floor
    <3>1. NextNonce = IF 0 > floor THEN 0 ELSE floor
      BY <1>9 DEF NextNonce, N
    <3> QED
      BY <1>8, <3>1
  <2>2. \A p \in Ops : row[p].nonce = -1
    BY <1>7, <1>9
  <2> QED
    BY <1>8, <2>1, <2>2
<1>10. CASE N # {}
  <2>1. \A x \in N : x \in Int
    BY <1>6
  <2>2. Max(N) \in N /\ \A x \in N : x <= Max(N)
    BY <1>4, <1>10, <2>1, MaxBounds
  <2>3. Max(N) \in Nat
    BY <1>6, <2>2
  <2>4. NextNonce = IF Max(N) + 1 > floor THEN Max(N) + 1 ELSE floor
    BY <1>10 DEF NextNonce, N
  <2>5. NextNonce \in Nat /\ NextNonce > Max(N)
    BY <1>8, <2>3, <2>4
  <2>6. ASSUME NEW p \in Ops PROVE row[p].nonce # NextNonce
    <3>1. CASE row[p].nonce = -1
      BY <2>5, <3>1
    <3>2. CASE row[p].nonce # -1
      <4>1. row[p].nonce \in N
        BY <1>7, <3>2
      <4>2. row[p].nonce <= Max(N) /\ row[p].nonce \in Nat
        BY <1>6, <2>2, <4>1
      <4> QED
        BY <2>3, <2>5, <4>2
    <3> QED
      BY <3>1, <3>2
  <2> QED
    BY <2>5, <2>6
<1> QED
  BY <1>9, <1>10

LEMMA NonceEdited ==
  ASSUME Shape, NEW o \in Ops, NEW x \in Nat
  PROVE  \E n \in RowType :
           /\ n.state = row[o].state /\ n.sigs = row[o].sigs /\ n.version = row[o].version
           /\ n.nonce = x
           /\ [row EXCEPT ![o].nonce = x] = [row EXCEPT ![o] = n]
<1> DEFINE n == [row[o] EXCEPT !.nonce = x]
<1>1. row[o] \in RowType
  BY RowFacts
<1>2. /\ n \in RowType /\ n.state = row[o].state /\ n.sigs = row[o].sigs
      /\ n.version = row[o].version /\ n.nonce = x
  BY <1>1 DEF RowType
<1>3. [row EXCEPT ![o].nonce = x] = [row EXCEPT ![o] = n]
  BY DEF Shape
<1> QED
  BY <1>2, <1>3

LEMMA AllocateStep ==
  ASSUME IInv, NEW w \in Workers, AllocateRobinhoodNonce(w)
  PROVE  IInv' /\ RowsAdvance
<1>1. work[w].step = "nonce"
  BY DEF AllocateRobinhoodNonce
<1>2. PICK o \in Ops : work[w].op = o /\ work[w] = [step |-> "nonce", op |-> o]
  BY <1>1, Remembered
<1> DEFINE s == [step |-> "sign", op |-> o]
           allocates == row[o].nonce = -1 /\ row[o].state = "Authorized"
<1>3. [work[w] EXCEPT !.step = "sign"] = s
  BY <1>2
<1>4. s \in WorkType /\ s.step = "sign" /\ s.op = o
  BY DEF WorkType
<1>5. /\ row' = IF allocates THEN [row EXCEPT ![o].nonce = NextNonce] ELSE row
      /\ Step(w, IF allocates \/ row[o].nonce # -1 THEN s ELSE Idle)
      /\ UNCHANGED <<dir, req, book, floor, chainVars>>
  BY <1>2, <1>3 DEF AllocateRobinhoodNonce
<1>t. Shape /\ row[o].nonce \in Nat \cup {-1}
  BY RowFacts DEF IInv, RowType
<1> HIDE DEF s
<1>6. CASE ~allocates /\ row[o].nonce = -1
  BY <1>5, <1>6, IdleStep, WorkOnly DEF ledgerVars
<1>7. CASE ~allocates /\ row[o].nonce # -1
  <2>1. row[o].nonce >= 0
    BY <1>t, <1>7
  <2>2. Good(w, s)
    BY <1>4, <2>1 DEF Good
  <2> QED
    BY <1>4, <1>5, <1>7, <2>2, WorkOnly DEF ledgerVars
<1>8. CASE allocates
  <2>1. PICK x \in Nat : x = NextNonce /\ \A p \in Ops : row[p].nonce # x
    BY NextNonceFresh
  <2>2. PICK n \in RowType :
          /\ n.state = row[o].state /\ n.sigs = row[o].sigs /\ n.version = row[o].version
          /\ n.nonce = x /\ row' = [row EXCEPT ![o] = n]
    <3>1. row' = [row EXCEPT ![o].nonce = x]
      BY <1>5, <1>8, <2>1
    <3>2. PICK n \in RowType :
            /\ n.state = row[o].state /\ n.sigs = row[o].sigs /\ n.version = row[o].version
            /\ n.nonce = x /\ [row EXCEPT ![o].nonce = x] = [row EXCEPT ![o] = n]
      BY <1>t, NonceEdited
    <3>3. row' = [row EXCEPT ![o] = n]
      BY <3>1, <3>2
    <3> QED
      BY <3>2, <3>3
  <2>3. row'[o] = n /\ req' = req /\ dir' = dir
    BY <1>5, <1>t, <2>2 DEF Shape
  <2>4. row[o].version \in Int /\ ~(row[o].version >= 0) /\ row[o].state = "Authorized"
    BY <1>8, <1>t, RowFacts DEF IInv, RowsGood, RowGood, Late
  <2>5. Advances(o)
    BY <1>8, <2>2, <2>3, <2>4 DEF Advances, Unsigned
  <2>6. Fits(o) /\ (o[2] = "Payout" => req[o[1]].state = "SourceFinalized")
    BY <2>4 DEF IInv, RowsGood, RowGood
  <2>7. Fits(o)'
    BY <2>3, <2>6 DEF Fits, ToRobinhood, FromRobinhood
  <2>8. RowGood(o)'
    BY <2>2, <2>3, <2>4, <2>6, <2>7 DEF RowGood
  <2>9. Good(w, s)'
    BY <1>4, <2>2, <2>3 DEF Good
  <2>10. work' = [work EXCEPT ![w] = s]
    BY <1>5, <1>8 DEF Step
  <2>11. \A p \in Ops : row[p].nonce # n.nonce
    BY <2>1, <2>2
  <2>12. row' = [row EXCEPT ![o] = n]
    BY <2>2
  <2> QED
    BY <1>4, <1>5, <2>5, <2>8, <2>9, <2>10, <2>11, <2>12, RowMoves
<1> QED
  BY <1>6, <1>7, <1>8

LEMMA VersionEdited ==
  ASSUME Shape, NEW o \in Ops, NEW v \in 0 .. MaxReplacements
  PROVE  \E n \in RowType :
           /\ n.state = row[o].state /\ n.sigs = row[o].sigs /\ n.version = v
           /\ n.nonce = row[o].nonce
           /\ [row EXCEPT ![o].version = v] = [row EXCEPT ![o] = n]
<1> DEFINE n == [row[o] EXCEPT !.version = v]
<1>1. row[o] \in RowType /\ v \in -1 .. MaxReplacements
  BY RowFacts, RhnBoundsAssumption
<1>2. n \in RowType /\ n.sigs = row[o].sigs /\ n.version = v /\ n.nonce = row[o].nonce
      /\ n.state = row[o].state
  BY <1>1 DEF RowType
<1>3. [row EXCEPT ![o].version = v] = [row EXCEPT ![o] = n]
  BY DEF Shape
<1> QED
  BY <1>2, <1>3

LEMMA SignedEdited ==
  ASSUME Shape, NEW o \in Ops
  PROVE  \E n \in RowType :
           /\ n.state = "Signed" /\ n.sigs = row[o].sigs /\ n.version = 0
           /\ n.nonce = row[o].nonce
           /\ [row EXCEPT ![o].version = 0, ![o].state = "Signed"] = [row EXCEPT ![o] = n]
<1> DEFINE m == [row[o] EXCEPT !.version = 0]
           n == [m EXCEPT !.state = "Signed"]
<1>1. row[o] \in RowType /\ 0 \in -1 .. MaxReplacements /\ "Signed" \in TxStates
  BY RowFacts, RhnBoundsAssumption DEF TxStates
<1>2. m \in RowType /\ m.sigs = row[o].sigs /\ m.version = 0 /\ m.nonce = row[o].nonce
  BY <1>1 DEF RowType
<1>3. n \in RowType /\ n.state = "Signed" /\ n.sigs = row[o].sigs /\ n.version = 0
      /\ n.nonce = row[o].nonce
  <2> HIDE DEF m
  <2> QED
    BY <1>1, <1>2 DEF RowType
<1>4. [row EXCEPT ![o].version = 0, ![o].state = "Signed"] = [row EXCEPT ![o] = n]
  BY DEF Shape
<1> QED
  BY <1>3, <1>4

LEMMA RecordSignedStep ==
  ASSUME IInv, NEW w \in Workers, RecordRobinhoodSigned(w)
  PROVE  IInv' /\ RowsAdvance
<1>1. work[w].step = "sign"
  BY DEF RecordRobinhoodSigned
<1>2. PICK o \in Ops : /\ work[w].op = o /\ work[w] = [step |-> "sign", op |-> o]
                       /\ work[w] # Idle /\ Good(w, work[w])
  BY <1>1, Remembered
<1> DEFINE s == [step |-> "send", op |-> o]
<1>3. [work[w] EXCEPT !.step = "send"] = s
  BY <1>2
<1>4. s \in WorkType /\ s.step = "send" /\ s.op = o
  BY DEF WorkType
<1>5. /\ \/ /\ row[o].version = -1 /\ row[o].state = "Authorized"
            /\ row' = [row EXCEPT ![o].version = 0, ![o].state = "Signed"]
            /\ Step(w, s)
         \/ row[o].version = 0 /\ row' = row /\ Step(w, s)
         \/ row' = row /\ Step(w, Idle)
      /\ UNCHANGED <<dir, req, book, floor, chainVars>>
  BY <1>2, <1>3 DEF RecordRobinhoodSigned, Done
<1>6. row[o].nonce >= 0 /\ Shape
  BY <1>1, <1>2 DEF Good, IInv
<1> HIDE DEF s
<1>7. CASE row' = row /\ Step(w, Idle)
  BY <1>5, <1>7, IdleStep, WorkOnly DEF ledgerVars
<1>8. CASE row[o].version = 0 /\ row' = row /\ Step(w, s)
  <2>1. Good(w, s)
    BY <1>4, <1>8 DEF Good
  <2> QED
    BY <1>4, <1>5, <1>8, <2>1, WorkOnly DEF ledgerVars
<1>9. CASE /\ row[o].version = -1 /\ row[o].state = "Authorized"
           /\ row' = [row EXCEPT ![o].version = 0, ![o].state = "Signed"]
           /\ Step(w, s)
  <2>2. PICK n \in RowType :
          /\ n.state = "Signed" /\ n.sigs = row[o].sigs /\ n.version = 0
          /\ n.nonce = row[o].nonce
          /\ [row EXCEPT ![o].version = 0, ![o].state = "Signed"] = [row EXCEPT ![o] = n]
    BY <1>6, SignedEdited
  <2>3. row' = [row EXCEPT ![o] = n] /\ work' = [work EXCEPT ![w] = s]
    BY <1>9, <2>2 DEF Step
  <2>4. row'[o].version = 0
    BY <1>6, <2>2, <2>3 DEF Shape
  <2>5. Good(w, s)'
    BY <1>4, <2>4 DEF Good
  <2>6. o[2] = "Payout" => req[o[1]].state = "SourceFinalized"
    BY <1>9 DEF IInv, RowsGood, RowGood
  <2>7. Late("Signed") /\ row[o].state # "none" /\ row[o].state \notin Stopped(o)
    BY <1>9 DEF Late, Stopped
  <2>8. n.version >= row[o].version /\ n.version >= 0 /\ n.nonce >= 0
    BY <1>6, <1>9, <2>2
  <2> QED
    <3>1. /\ n.nonce = row[o].nonce /\ n.sigs = row[o].sigs /\ Late(n.state) /\ n.state # "none"
          /\ row[o].state # "Finalized" /\ n.state \notin {"none", "Authorizing", "Finalized"}
      BY <1>9, <2>2, <2>7
    <3> QED
      BY <1>4, <1>5, <2>2, <2>3, <2>5, <2>6, <2>7, <2>8, <3>1, RowTaken
<1> QED
  BY <1>5, <1>7, <1>8, <1>9

LEMMA RecordBroadcastStep ==
  ASSUME IInv, NEW w \in Workers, RecordRobinhoodBroadcast(w)
  PROVE  IInv' /\ RowsAdvance
<1>1. work[w].step = "sent"
  BY DEF RecordRobinhoodBroadcast
<1>2. PICK o \in Ops : work[w].op = o
  BY <1>1, Remembered
<1>3. /\ row' = IF row[o].state \in {"Signed", "Broadcast"} THEN [row EXCEPT ![o].state = "Broadcast"]
                ELSE row
      /\ Step(w, Idle) /\ UNCHANGED <<dir, req, book, floor, chainVars>>
  BY <1>2 DEF RecordRobinhoodBroadcast, Done, RowTo
<1>4. CASE row[o].state \notin {"Signed", "Broadcast"}
  BY <1>3, <1>4, IdleStep, WorkOnly DEF ledgerVars
<1>5. CASE row[o].state \in {"Signed", "Broadcast"}
  <2>1. "Broadcast" \in TxStates /\ Shape
    BY DEF TxStates, IInv
  <2>2. PICK n \in RowType :
          /\ n.state = "Broadcast" /\ n.version = row[o].version /\ n.nonce = row[o].nonce
          /\ n.sigs = row[o].sigs /\ row' = [row EXCEPT ![o] = n]
    BY <1>3, <1>5, <2>1, StateEdited
  <2>3. /\ row[o].version >= 0 /\ row[o].nonce >= 0 /\ row[o].version \in Int
        /\ o[2] = "Payout" => req[o[1]].state = "SourceFinalized"
    BY <1>5, <2>1, RowFacts DEF IInv, RowsGood, RowGood
  <2>4. n.version >= row[o].version /\ n.version >= 0 /\ n.nonce >= 0
    BY <2>2, <2>3
  <2>5. Late("Broadcast") /\ row[o].state \notin Stopped(o) /\ row[o].state # "none"
        /\ row[o].state # "Finalized"
    BY <1>5 DEF Late, Stopped
  <2>6. work' = [work EXCEPT ![w] = Idle] /\ Good(w, Idle)' /\ Idle \in WorkType
    BY <1>3, IdleStep DEF Step, Good
  <2> QED
    BY <1>3, <2>2, <2>3, <2>4, <2>5, <2>6, RowTaken
<1> QED
  BY <1>4, <1>5

LEMMA ReplacementStep ==
  ASSUME IInv, NEW w \in Workers, NEW o \in Ops, RecordRobinhoodReplacement(w, o)
  PROVE  IInv' /\ RowsAdvance
<1> DEFINE s == [step |-> "send", op |-> o]
<1>1. /\ row[o].state = "Broadcast" /\ row[o].version < MaxReplacements
      /\ row' = [row EXCEPT ![o].version = row[o].version + 1]
      /\ work' = [work EXCEPT ![w] = s] /\ UNCHANGED <<dir, req, book, floor, chainVars>>
  BY DEF RecordRobinhoodReplacement, Step
<1>2. s \in WorkType /\ s.step = "send" /\ s.op = o
  BY DEF WorkType
<1> HIDE DEF s
<1>3. Shape /\ row[o].version >= 0 /\ row[o].nonce >= 0 /\ row[o].version \in Int
      /\ row[o].state \in TxStates
      /\ (o[2] = "Payout" => req[o[1]].state = "SourceFinalized")
  BY <1>1, RowFacts DEF IInv, RowsGood, RowGood
<1>4. PICK v \in 0 .. MaxReplacements : v = row[o].version + 1 /\ v >= row[o].version
  <2>1. row[o].version \in Int /\ row[o].version >= 0 /\ row[o].version < MaxReplacements
    BY <1>1, <1>3
  <2> QED
    BY <2>1, RhnBoundsAssumption
<1>5. PICK n \in RowType :
        /\ n.state = row[o].state /\ n.sigs = row[o].sigs /\ n.version = v
        /\ n.nonce = row[o].nonce
        /\ [row EXCEPT ![o].version = v] = [row EXCEPT ![o] = n]
  BY <1>3, VersionEdited
<1>6. row' = [row EXCEPT ![o] = n]
  BY <1>1, <1>4, <1>5
<1>7. row'[o] = n
  BY <1>3, <1>6 DEF Shape
<1>8. n.version >= 0 /\ n.version >= row[o].version /\ n.nonce >= 0
  BY <1>3, <1>4, <1>5
<1>9. Good(w, s)'
  BY <1>2, <1>7, <1>8 DEF Good
<1>10. Late(row[o].state) /\ row[o].state # "none"
  BY <1>1 DEF Late
<1> QED
  BY <1>1, <1>2, <1>3, <1>5, <1>6, <1>8, <1>9, <1>10, RowTaken

\* The row of an operation after its receipt was recorded.
Received(o, st, f) == [[row[o] EXCEPT !.state = st] EXCEPT !.receipt = f]
AllReceived(o, st, f) == [row EXCEPT ![o].state = st, ![o].receipt = f]

LEMMA ReceiptEdited ==
  ASSUME Shape, NEW o \in Ops, NEW st \in TxStates, NEW f \in 0 .. MaxReorgs
  PROVE  /\ Received(o, st, f) \in RowType
         /\ Received(o, st, f).state = st /\ Received(o, st, f).sigs = row[o].sigs
         /\ Received(o, st, f).version = row[o].version /\ Received(o, st, f).nonce = row[o].nonce
         /\ AllReceived(o, st, f) = [row EXCEPT ![o] = Received(o, st, f)]
<1> DEFINE m == [row[o] EXCEPT !.state = st]
           n == [m EXCEPT !.receipt = f]
<1>1. row[o] \in RowType /\ f \in -1 .. MaxReorgs
  BY RowFacts, RhnBoundsAssumption
<1>2. m \in RowType /\ m.sigs = row[o].sigs /\ m.version = row[o].version
      /\ m.nonce = row[o].nonce /\ m.state = st
  BY <1>1 DEF RowType
<1>3. n \in RowType /\ n.state = st /\ n.sigs = row[o].sigs /\ n.version = row[o].version
      /\ n.nonce = row[o].nonce
  <2> HIDE DEF m
  <2> QED
    BY <1>1, <1>2 DEF RowType
<1>4. AllReceived(o, st, f) = [row EXCEPT ![o] = n]
  BY DEF Shape, AllReceived
<1>5. n = Received(o, st, f)
  BY DEF Received
<1> HIDE DEF n
<1> QED
  BY <1>3, <1>4, <1>5

\* A receipt moves a row in flight to st, and the worker that read it to s.
LEMMA ReceiptMoves ==
  ASSUME IInv, NEW o \in Ops, row[o].state \in InFlight,
         NEW st \in {"Included", "Finalized", "Reverted"}, NEW f \in 0 .. MaxReorgs,
         row' = AllReceived(o, st, f),
         UNCHANGED <<dir, req, book, floor, chainVars>>,
         NEW w \in Workers, NEW s \in WorkType, work' = [work EXCEPT ![w] = s],
         row'[o].state = st => Good(w, s)'
  PROVE  IInv' /\ RowsAdvance
<1>1. Shape /\ st \in TxStates
  BY DEF IInv, TxStates
<1> DEFINE n == Received(o, st, f)
<1>2. /\ n \in RowType /\ n.state = st /\ n.sigs = row[o].sigs /\ n.version = row[o].version
      /\ n.nonce = row[o].nonce
  BY <1>1, ReceiptEdited
<1>3. row' = [row EXCEPT ![o] = n]
  BY <1>1, ReceiptEdited
<1> HIDE DEF n
<1>4. row'[o] = n
  BY <1>1, <1>3 DEF Shape
<1>5. Good(w, s)'
  BY <1>2, <1>4
<1>6. /\ row[o].state \in {"Broadcast", "Included"} /\ row[o].version >= 0 /\ row[o].nonce >= 0
      /\ row[o].version \in Int /\ (o[2] = "Payout" => req[o[1]].state = "SourceFinalized")
  BY <1>1, RowFacts DEF IInv, RowsGood, RowGood, InFlight
<1>7. n.version >= row[o].version /\ n.version >= 0 /\ n.nonce >= 0
  BY <1>2, <1>6
<1>8. Late(n.state) /\ n.state # "none" /\ row[o].state \notin Stopped(o)
      /\ row[o].state \notin {"none", "Finalized"}
  BY <1>2, <1>6 DEF Late, Stopped
<1> QED
  BY <1>2, <1>3, <1>5, <1>6, <1>7, <1>8, RowTaken

LEMMA PollStep ==
  ASSUME IInv, NEW w \in Workers, NEW o \in Ops, PollReceipt(w, o)
  PROVE  IInv' /\ RowsAdvance
<1>1. /\ work[w] = Idle /\ row[o].state \in InFlight
      /\ UNCHANGED <<dir, req, book, floor, chainVars>>
  BY DEF PollReceipt
<1>2. PICK i \in DOMAIN mined :
        /\ mined[i].op = o
        /\ \/ row' = RowTo(o, "ManualReview") /\ UNCHANGED work
           \/ /\ row' = [row EXCEPT ![o].state = "Reverted", ![o].receipt = mined[i].block]
              /\ Step(w, [step |-> "reverted", op |-> o])
           \/ /\ mined[i].ok
              /\ row' = [row EXCEPT ![o].state = IF i <= final THEN "Finalized" ELSE "Included",
                                    ![o].receipt = mined[i].block]
              /\ Step(w, IF i <= final THEN [step |-> "verify", op |-> o] ELSE Idle)
  BY DEF PollReceipt, DeepEnough
<1>3. PICK f \in 0 .. MaxReorgs : f = mined[i].block
  BY MinedFacts DEF IInv, MinedType
<1>4. Shape /\ work \in [Workers -> WorkType]
  BY DEF IInv, Shape
<1>5. CASE row' = RowTo(o, "ManualReview") /\ UNCHANGED work
  <2>1. row' = ReviewRow(o) /\ row[o].state # "none"
    BY <1>1, <1>5 DEF ReviewRow, InFlight
  <2>2. work' = [work EXCEPT ![w] = Idle] /\ Good(w, Idle)' /\ Idle \in WorkType
    BY <1>1, <1>4, <1>5, IdleStep DEF Good
  <2> QED
    BY <1>1, <2>1, <2>2, ReviewMoves
<1>6. CASE /\ row' = [row EXCEPT ![o].state = "Reverted", ![o].receipt = mined[i].block]
           /\ Step(w, [step |-> "reverted", op |-> o])
  <2> DEFINE s == [step |-> "reverted", op |-> o]
  <2>1. s \in WorkType /\ s.step = "reverted" /\ s.op = o
    BY DEF WorkType
  <2>2. row'[o].state = "Reverted" => Good(w, s)'
    BY <2>1 DEF Good, Stopped
  <2>3. row' = AllReceived(o, "Reverted", f) /\ work' = [work EXCEPT ![w] = s]
    BY <1>3, <1>6 DEF Step, AllReceived
  <2> HIDE DEF s
  <2> QED
    BY <1>1, <2>1, <2>2, <2>3, ReceiptMoves
<1>7. CASE /\ mined[i].ok /\ i <= final
           /\ row' = [row EXCEPT ![o].state = "Finalized", ![o].receipt = mined[i].block]
           /\ Step(w, [step |-> "verify", op |-> o])
  <2> DEFINE s == [step |-> "verify", op |-> o]
  <2>1. s \in WorkType /\ s.step = "verify" /\ s.op = o
    BY DEF WorkType
  <2>2. i \in 1 .. final
    BY <1>4, <1>7, MinedFacts
  <2>3. ExecutedForGood(o)'
    BY <1>1, <1>2, <1>7, <2>2 DEF ExecutedForGood, chainVars
  <2>4. row'[o].state = "Finalized" => Good(w, s)'
    BY <2>1, <2>3 DEF Good
  <2>5. row' = AllReceived(o, "Finalized", f) /\ work' = [work EXCEPT ![w] = s]
    BY <1>3, <1>7 DEF Step, AllReceived
  <2> HIDE DEF s
  <2> QED
    BY <1>1, <2>1, <2>4, <2>5, ReceiptMoves
<1>8. CASE /\ row' = [row EXCEPT ![o].state = "Included", ![o].receipt = mined[i].block]
           /\ Step(w, Idle)
  <2>1. row' = AllReceived(o, "Included", f) /\ work' = [work EXCEPT ![w] = Idle]
        /\ Good(w, Idle)' /\ Idle \in WorkType
    BY <1>3, <1>8, IdleStep DEF Step, Good, AllReceived
  <2> QED
    BY <1>1, <2>1, ReceiptMoves
<1> QED
  BY <1>2, <1>5, <1>6, <1>7, <1>8

-----------------------------------------------------------------------------
(* Steps that move a row and a request *)

\* Transactions accounted for stay accounted for while rows move forwards.
LEMMA StillAccounted ==
  ASSUME Shape, RowsAdvance, row' \in [Ops -> RowType], SentAccounted, UNCHANGED <<pool, mined>>
  PROVE  SentAccounted'
<1>1. ASSUME NEW t, t.op \in Ops, t.version \in Nat, Accounted(t) PROVE Accounted(t)'
  <2>1. /\ row'[t.op].version >= row[t.op].version /\ row'[t.op].nonce = row[t.op].nonce
        /\ Late(row'[t.op].state)
    BY <1>1 DEF RowsAdvance, Advances, Accounted
  <2>2. row'[t.op].version \in Int /\ row[t.op].version \in Int
    BY <1>1, RowFacts DEF RowType
  <2> QED
    BY <1>1, <2>1, <2>2 DEF Accounted
<1>2. \A t \in pool : t.op \in Ops /\ t.version \in Nat
  BY DEF Shape, TxType
<1>3. \A i \in DOMAIN mined : mined[i] \in MinedType
  BY DEF Shape
<1>4. \A i \in DOMAIN mined : mined[i].op # ForeignOp => mined[i].op \in Ops /\ mined[i].version \in Nat
  BY <1>3 DEF MinedType
<1>5. ASSUME NEW t \in pool PROVE Accounted(t)'
  BY <1>1, <1>2 DEF SentAccounted
<1>6. ASSUME NEW i \in DOMAIN mined, mined[i].op # ForeignOp PROVE Accounted(mined[i])'
  <2>1. PICK t : t = mined[i]
    OBVIOUS
  <2>2. t.op \in Ops /\ t.version \in Nat /\ Accounted(t)
    BY <1>4, <1>6, <2>1 DEF SentAccounted
  <2>3. Accounted(t)'
    BY <1>1, <2>2
  <2> QED
    BY <2>1, <2>3
<1> QED
  BY <1>5, <1>6 DEF SentAccounted

\* A settlement found executed on the chain completes its row and its request.
LEMMA ReconcileKeeps ==
  ASSUME IInv, NEW o \in Ops, SettlementProven(o), Reconcile(o),
         UNCHANGED <<dir, book, floor, work, chainVars>>
  PROVE  IInv' /\ RowsAdvance
<1>1. /\ UNCHANGED <<dir, book, floor, work, clock, epoch, paused, pool, mined, final, forks, paidOut>>
      /\ Shape /\ WorkGood /\ RowsGood /\ RequestsGood /\ SentAccounted /\ NonceUnique
  BY DEF IInv, chainVars
<1>2. PICK r \in Requests : r = o[1] /\ o = <<r, "Settlement">> /\ o[2] = "Settlement"
  BY OpFacts DEF SettlementProven
<1>3. row[o].version >= 0 /\ ExecutedForGood(o)
  BY DEF SettlementProven, OnlyOperation, SettledOnChain, ExecutedForGood
<1>4. RowGood(o) /\ row[o].state # "none" /\ Late(row[o].state) /\ FromRobinhood(r) /\ Fits(o)
      /\ row[o].nonce >= 0
  BY <1>1, <1>2, <1>3 DEF RowsGood, RowGood, Late, Fits
<1>5. PICK n \in RowType :
        /\ n.state = "Finalized" /\ n.version = row[o].version
        /\ n.nonce = row[o].nonce /\ n.sigs = row[o].sigs /\ row' = [row EXCEPT ![o] = n]
  <2>1. "Finalized" \in TxStates
    BY DEF TxStates
  <2> QED
    BY <1>1, <2>1, StateEdited DEF Reconcile
<1>6. PICK q \in ReqType : q.state = "Settled" /\ req' = [req EXCEPT ![r] = q]
  <2> DEFINE m == [req[r] EXCEPT !.state = "Settled"]
             q == [m EXCEPT !.observed = TRUE]
  <2>1. m \in ReqType /\ m.state = "Settled"
    BY <1>1 DEF Shape, ReqType, ReqStates
  <2>2. req' = [req EXCEPT ![r] = q]
    BY <1>1, <1>2 DEF Reconcile, Shape
  <2> HIDE DEF m
  <2>3. q \in ReqType /\ q.state = "Settled"
    BY <2>1 DEF ReqType
  <2> QED
    BY <2>2, <2>3
<1>7. /\ row' \in [Ops -> RowType] /\ row'[o] = n
      /\ \A p \in Ops : p # o => row'[p] = row[p]
  BY <1>1, <1>5 DEF Shape
<1>8. /\ req'[r] = q /\ req' \in [Requests -> ReqType]
      /\ \A x \in Requests \ {r} : /\ req'[x] = req[x] /\ CompletedBy(x)' = CompletedBy(x)
                                   /\ Holding(x)' <=> Holding(x)
                                   /\ LeftReserve(x)' <=> LeftReserve(x)
  BY <1>1, <1>6, OthersKeep DEF Shape
<1>9. RowsAdvance
  <2>1. ASSUME NEW p \in Ops, p # o PROVE Advances(p)
    BY <1>1, <1>7, <2>1, RowFacts DEF Advances, Unsigned
  <2>2. row[o].version \in Int /\ n.version >= row[o].version /\ Late(n.state) /\ n.state \in Stopped(o)
    BY <1>1, <1>2, <1>5, RowFacts DEF Late, Stopped
  <2>3. Advances(o)
    BY <1>5, <1>7, <2>2 DEF Advances, Unsigned
  <2> QED
    BY <2>1, <2>3 DEF RowsAdvance
<1>10. \A p \in Ops : ExecutedForGood(p)' <=> ExecutedForGood(p)
  BY <1>1 DEF ExecutedForGood
<1>11. ~ToRobinhood(r) /\ ~ToRobinhood(r)' /\ FromRobinhood(r)' /\ dir[r] # "Treasury"
  BY <1>1, <1>4 DEF FromRobinhood, ToRobinhood
<1>12. WorkGood'
  <2>1. ASSUME NEW v \in Workers PROVE Good(v, work[v])'
    <3>1. PICK s \in WorkType : s = work[v]
      BY <1>1 DEF Shape
    <3>2. Good(v, s)
      BY <1>1, <3>1 DEF WorkGood
    <3>3. ASSUME s # Idle, s.step \in {"begin", "collect"}, s.op[2] = "Payout", Unsigned(s.op)
          PROVE  req'[s.op[1]].state = "SourceFinalized"
      <4>1. Fits(s.op) /\ s.op \in Ops /\ req[s.op[1]].state = "SourceFinalized"
        BY <3>2, <3>3 DEF Good, WorkType
      <4>2. ToRobinhood(s.op[1]) /\ s.op[1] \in Requests
        BY <3>3, <4>1, OpFacts DEF Fits
      <4> QED
        BY <1>8, <1>11, <4>1, <4>2
    <3>4. Good(v, s)'
      BY <1>1, <1>7, <1>9, <1>10, <3>2, <3>3, GoodStable
    <3> QED
      BY <1>1, <3>1, <3>4
  <2> QED
    BY <2>1 DEF WorkGood
<1>13. Shape'
  BY <1>1, <1>7, <1>8 DEF Shape
<1>14. RowsGood'
  <2>1. ASSUME NEW p \in Ops, p # o PROVE RowGood(p)'
    <3>1. row'[p] = row[p] /\ RowGood(p) /\ (Fits(p)' <=> Fits(p))
      BY <1>1, <1>7, <2>1 DEF RowsGood, Fits, ToRobinhood, FromRobinhood
    <3>2. CASE p[1] = r /\ p[2] = "Payout"
      <4>1. row[p].state = "none" /\ row[p] = NoRow
        BY <1>11, <3>1, <3>2 DEF RowGood, Fits
      <4> QED
        BY <3>1, <4>1 DEF RowGood, NoRow
    <3>3. CASE p[2] # "Payout"
      BY <3>1, <3>3 DEF RowGood
    <3>4. CASE p[1] # r
      <4>1. req'[p[1]] = req[p[1]]
        BY <1>8, <3>4, OpFacts
      <4> QED
        BY <3>1, <4>1 DEF RowGood
    <3> QED
      BY <3>2, <3>3, <3>4
  <2>2. Fits(o)' /\ Late(n.state)
    BY <1>1, <1>4, <1>5 DEF Fits, ToRobinhood, FromRobinhood, Late
  <2>3. RowGood(o)'
    BY <1>2, <1>4, <1>5, <1>7, <2>2 DEF RowGood
  <2> QED
    BY <2>1, <2>3 DEF RowsGood
<1>15. CompletedBy(r)' = {"Settlement"} /\ CompletedBy(r) \cap {"Payout", "TreasuryWithdraw"} = {}
  BY <1>1, <1>6, <1>8, <1>11 DEF CompletedBy
<1>16. \A x \in Requests : CompletedBy(x) \subseteq Kinds
  BY DEF CompletedBy, Kinds
<1>17. RequestsGood'
  <2>1. ASSUME NEW x \in Requests, NEW k \in CompletedBy(x) \cap {"Payout", "TreasuryWithdraw"}
        PROVE  row'[<<x, k>>].state = "Finalized"
    BY <1>1, <1>9, <1>16, OpMade DEF RequestsGood, RequestGood, RowsAdvance, Advances
  <2> QED
    BY <1>8, <1>15, <2>1 DEF RequestsGood, RequestGood
<1>18. CompletedMeansExecuted'
  <2>1. ASSUME NEW x \in Requests, NEW k \in CompletedBy(x)' PROVE ExecutedForGood(<<x, k>>)
    BY <1>2, <1>3, <1>8, <1>15, <2>1 DEF IInv, CompletedMeansExecuted
  <2>2. ASSUME NEW x \in Requests, NEW k \in CompletedBy(x)' PROVE ExecutedForGood(<<x, k>>)'
    BY <1>1, <2>1, <2>2 DEF ExecutedForGood
  <2> QED
    BY <2>2 DEF CompletedMeansExecuted
<1>19. ReserveRowMatchesRequests'
  <2>1. ~Holding(r) /\ ~Holding(r)' /\ ~LeftReserve(r) /\ ~LeftReserve(r)'
    BY <1>11, <1>15 DEF Holding, LeftReserve
  <2> QED
    BY <1>1, <1>8, <2>1, BookSame DEF IInv
<1>20. SentAccounted'
  BY <1>1, <1>7, <1>9, StillAccounted
<1>21. NonceUnique'
  <2>1. \A p \in Ops : row'[p].nonce = row[p].nonce
    BY <1>5, <1>7
  <2> QED
    BY <1>1, <2>1 DEF NonceUnique
<1> QED
  BY <1>9, <1>12, <1>13, <1>14, <1>17, <1>18, <1>19, <1>20, <1>21 DEF IInv

\* A row that cannot go on is completed from the chain or stopped.
LEMMA ResolveKeeps ==
  ASSUME IInv, NEW w \in Workers, work[w] = Idle, NEW o \in Ops, row[o].state # "none",
         ResolveOrReview(o) \/ (row' = ReviewRow(o) /\ req' = req),
         UNCHANGED <<dir, book, floor, work, chainVars>>
  PROVE  IInv' /\ RowsAdvance
<1>1. CASE SettlementProven(o) /\ Reconcile(o)
  BY <1>1, ReconcileKeeps
<1>2. CASE row' = ReviewRow(o) /\ req' = req
  <2>1. work' = [work EXCEPT ![w] = Idle] /\ Good(w, Idle)' /\ Idle \in WorkType
    BY IdleStep DEF IInv, Shape, Good
  <2>2. UNCHANGED <<dir, req, book, floor, chainVars>>
    BY <1>2
  <2> QED
    BY <1>2, <2>1, <2>2, ReviewMoves
<1> QED
  BY <1>1, <1>2 DEF ResolveOrReview

LEMMA ResolveStep ==
  ASSUME IInv, NEW w \in Workers, NEW o \in Ops, SignRefused(w, o) \/ GiveUpBroadcast(w, o)
  PROVE  IInv' /\ RowsAdvance
<1>1. /\ work[w] = Idle /\ row[o].state # "none"
      /\ ResolveOrReview(o) \/ (row' = ReviewRow(o) /\ req' = req)
      /\ UNCHANGED <<dir, book, floor, work, chainVars>>
  BY DEF SignRefused, GiveUpBroadcast
<1> QED
  BY <1>1, ResolveKeeps

LEMMA ReconcileStep ==
  ASSUME IInv, NEW o \in Ops, ReconcileSettlement(o)
  PROVE  IInv' /\ RowsAdvance
<1>1. SettlementProven(o) /\ Reconcile(o) /\ UNCHANGED <<dir, book, floor, work, chainVars>>
  BY DEF ReconcileSettlement
<1> QED
  BY <1>1, ReconcileKeeps

-----------------------------------------------------------------------------
(* Steps that move a request *)

\* The state of a request, and the state and the note, are edited in place.
LEMMA RequestEdited ==
  ASSUME Shape, NEW r \in Requests, NEW st \in ReqStates
  PROVE  LET q == [req[r] EXCEPT !.state = st]
         IN  /\ q \in ReqType /\ q.state = st /\ q.note = req[r].note
             /\ [req EXCEPT ![r].state = st] = [req EXCEPT ![r] = q]
BY DEF Shape, ReqType

Noted(r, st, note) == [[req[r] EXCEPT !.state = st] EXCEPT !.note = note]
AllNoted(r, st, note) == [req EXCEPT ![r].state = st, ![r].note = note]

LEMMA NoteEdited ==
  ASSUME Shape, NEW r \in Requests, NEW st \in ReqStates,
         NEW note \in {"none", "parked", "bounds", "reverted", "resumed"}
  PROVE  /\ Noted(r, st, note) \in ReqType
         /\ Noted(r, st, note).state = st /\ Noted(r, st, note).note = note
         /\ AllNoted(r, st, note) = [req EXCEPT ![r] = Noted(r, st, note)]
<1> DEFINE m == [req[r] EXCEPT !.state = st]
           n == [m EXCEPT !.note = note]
<1>1. m \in ReqType /\ m.state = st
  BY DEF Shape, ReqType
<1>2. n \in ReqType /\ n.state = st /\ n.note = note
  <2> HIDE DEF m
  <2> QED
    BY <1>1 DEF ReqType
<1>3. AllNoted(r, st, note) = [req EXCEPT ![r] = n]
  BY DEF Shape, AllNoted
<1>4. n = Noted(r, st, note)
  BY DEF Noted
<1> HIDE DEF n
<1> QED
  BY <1>2, <1>3, <1>4

\* A worker that is idle, or busy with s, stays so.
LEMMA SameWork ==
  ASSUME Shape, NEW w \in Workers, work' = work
  PROVE  work' = [work EXCEPT ![w] = work[w]]
BY DEF Shape

\* The steps of a deposit on Robinhood that no operation of its own makes.
LEMMA DepositMoves ==
  ASSUME IInv, NEW r \in Requests, FromRobinhood(r), NEW q \in ReqType,
         req' = [req EXCEPT ![r] = q], q.state \notin {"Settled", "Refunded"},
         UNCHANGED <<dir, row, book, floor, work, clock, epoch, paused, pool, mined, final, forks>>,
         paidOut' \subseteq Requests
  PROVE  IInv' /\ RowsAdvance
<1>1. Shape /\ WorkGood /\ Daemon \in Workers
  BY DEF IInv, Workers
<1>2. PICK s \in WorkType : s = work[Daemon] /\ work' = [work EXCEPT ![Daemon] = s]
  BY <1>1, SameWork DEF Shape
<1>3. Good(Daemon, s)
  BY <1>1, <1>2 DEF WorkGood
<1>4. RowsAdvance /\ row' \in [Ops -> RowType]
  BY <1>1, StillRows DEF Shape
<1>5. \A o \in Ops : ExecutedForGood(o) => ExecutedForGood(o)'
  BY DEF ExecutedForGood
<1>6. ASSUME s # Idle, s.step \in {"begin", "collect"}, s.op[2] = "Payout", Unsigned(s.op)
      PROVE  req'[s.op[1]].state = "SourceFinalized"
  <2>1. Fits(s.op) /\ s.op \in Ops /\ req[s.op[1]].state = "SourceFinalized"
    BY <1>3, <1>6 DEF Good, WorkType
  <2>2. ToRobinhood(s.op[1]) /\ s.op[1] \in Requests /\ s.op[1] # r
    BY <1>6, <2>1, OpFacts DEF Fits, ToRobinhood, FromRobinhood
  <2>3. req'[s.op[1]] = req[s.op[1]]
    BY <1>1, <2>2, OthersKeep
  <2> QED
    BY <2>1, <2>3
<1>7. Good(Daemon, s)'
  BY <1>1, <1>3, <1>4, <1>5, <1>6, GoodStable
<1> QED
  BY <1>1, <1>2, <1>7, InboundMoves

LEMMA DepositStep ==
  ASSUME IInv, NEW r \in Requests,
         ParkDeposit(r) \/ ResumeManualReview(r) \/ PayDestination(r) \/ ConfirmDestination(r)
  PROVE  IInv' /\ RowsAdvance
<1>1. Shape /\ paidOut \subseteq Requests
  BY DEF IInv, Shape
<1>2. FromRobinhood(r)
  BY DEF ParkDeposit, ResumeManualReview, PayDestination, ConfirmDestination
<1>3. /\ UNCHANGED <<dir, row, book, floor, work, clock, epoch, paused, pool, mined, final, forks>>
      /\ paidOut' \subseteq Requests
  BY <1>1 DEF ParkDeposit, ResumeManualReview, PayDestination, ConfirmDestination, chainVars
<1>4. CASE ParkDeposit(r)
  <2>1. req' = AllNoted(r, "ManualReview", "parked") /\ "ManualReview" \in ReqStates
    BY <1>4 DEF ParkDeposit, AllNoted, ReqStates
  <2> DEFINE q == Noted(r, "ManualReview", "parked")
  <2>2. q \in ReqType /\ q.state = "ManualReview" /\ req' = [req EXCEPT ![r] = q]
    BY <1>1, <2>1, NoteEdited
  <2> HIDE DEF q
  <2>3. PICK k \in ReqType : k = q
    BY <2>2
  <2> QED
    BY <1>2, <1>3, <2>2, <2>3, DepositMoves
<1>5. CASE ResumeManualReview(r)
  <2>1. req' = AllNoted(r, "SourceFinalized", "resumed") /\ "SourceFinalized" \in ReqStates
    BY <1>5 DEF ResumeManualReview, AllNoted, ReqStates
  <2> DEFINE q == Noted(r, "SourceFinalized", "resumed")
  <2>2. q \in ReqType /\ q.state = "SourceFinalized" /\ req' = [req EXCEPT ![r] = q]
    BY <1>1, <2>1, NoteEdited
  <2> HIDE DEF q
  <2>3. PICK k \in ReqType : k = q
    BY <2>2
  <2> QED
    BY <1>2, <1>3, <2>2, <2>3, DepositMoves
<1>6. CASE PayDestination(r) \/ ConfirmDestination(r)
  <2>1. PICK st \in {"DestinationSubmitted", "DestinationConfirmed"} : req' = [req EXCEPT ![r].state = st]
    BY <1>6 DEF PayDestination, ConfirmDestination
  <2>2. st \in ReqStates
    BY DEF ReqStates
  <2>3. PICK q \in ReqType : q.state = st /\ req' = [req EXCEPT ![r] = q]
    BY <1>1, <2>1, <2>2, RequestEdited
  <2> QED
    BY <1>2, <1>3, <2>3, DepositMoves
<1> QED
  BY <1>4, <1>5, <1>6

\* One request moves and every process stays where it is.
LEMMA ReqAlone ==
  ASSUME IInv, NEW r \in Requests, NEW q \in ReqType, req' = [req EXCEPT ![r] = q],
         UNCHANGED <<dir, row, floor, work, chainVars>>,
         RowGood(<<r, "Payout">>)', RequestGood(r)', ReserveRowMatchesRequests',
         \A k \in CompletedBy(r)' : ExecutedForGood(<<r, k>>),
         \A v \in Workers :
           /\ work[v] # Idle /\ work[v].step \in {"begin", "collect"}
           /\ work[v].op = <<r, "Payout">> /\ Unsigned(work[v].op)
           => q.state = "SourceFinalized"
  PROVE  IInv' /\ RowsAdvance
<1>1. Shape /\ WorkGood /\ Daemon \in Workers
  BY DEF IInv, Workers
<1>2. PICK s \in WorkType : s = work[Daemon] /\ work' = [work EXCEPT ![Daemon] = s]
  BY <1>1, SameWork DEF Shape
<1>3. Good(Daemon, s)
  BY <1>1, <1>2 DEF WorkGood
<1>4. RowsAdvance /\ row' \in [Ops -> RowType]
  BY <1>1, StillRows DEF Shape
<1>5. /\ UNCHANGED <<dir, row, floor, clock, epoch, paused, pool, mined, final, forks>>
      /\ paidOut' \subseteq Requests
  BY <1>1 DEF chainVars, Shape
<1>6. \A o \in Ops : ExecutedForGood(o) => ExecutedForGood(o)'
  BY <1>5 DEF ExecutedForGood
<1>7. ASSUME s # Idle, s.step \in {"begin", "collect"}, s.op[2] = "Payout", Unsigned(s.op)
      PROVE  req'[s.op[1]].state = "SourceFinalized"
  <2>1. s.op \in Ops /\ req[s.op[1]].state = "SourceFinalized"
    BY <1>3, <1>7 DEF Good, WorkType
  <2>2. s.op[1] \in Requests /\ s.op = <<s.op[1], "Payout">>
    BY <1>7, <2>1, OpFacts
  <2>3. CASE s.op[1] = r
    <3>1. s.op = <<r, "Payout">> /\ work[Daemon].op = s.op
      BY <1>2, <2>2, <2>3
    <3>2. q.state = "SourceFinalized" /\ req'[r] = q
      BY <1>1, <1>2, <1>7, <3>1, OthersKeep
    <3> QED
      BY <2>3, <3>2
  <2>4. CASE s.op[1] # r
    BY <1>1, <2>1, <2>2, <2>4, OthersKeep
  <2> QED
    BY <2>3, <2>4
<1>8. Good(Daemon, s)'
  BY <1>1, <1>3, <1>4, <1>6, <1>7, GoodStable
<1> QED
  BY <1>1, <1>2, <1>5, <1>8, ReqMoves

\* A request paid on Robinhood and completed on Solana.
LEMMA CompletionStep ==
  ASSUME IInv, NEW r \in Requests,
         RecordPayoutCompletionSubmitted(r) \/ MarkPayoutCompletionConfirmed(r)
  PROVE  IInv' /\ RowsAdvance
<1>1. Shape /\ WorkGood /\ RowsGood /\ RequestsGood /\ CompletedMeansExecuted
      /\ ReserveRowMatchesRequests
  BY DEF IInv
<1>2. /\ dir[r] = "SolToRhn" /\ req[r].state = "DestinationConfirmed"
      /\ UNCHANGED <<dir, row, book, floor, work, chainVars>>
  BY DEF RecordPayoutCompletionSubmitted, MarkPayoutCompletionConfirmed
<1>3. PICK q \in ReqType : /\ q.state \in {"DestinationConfirmed", "Settled"}
                           /\ req' = [req EXCEPT ![r] = q]
  <2>1. CASE RecordPayoutCompletionSubmitted(r)
    <3> DEFINE q == [req[r] EXCEPT !.completion = TRUE]
    <3>1. q \in ReqType /\ q.state = "DestinationConfirmed"
      BY <1>1, <1>2 DEF Shape, ReqType
    <3>2. req' = [req EXCEPT ![r] = q]
      BY <2>1 DEF RecordPayoutCompletionSubmitted
    <3> QED
      BY <3>1, <3>2
  <2>2. CASE MarkPayoutCompletionConfirmed(r)
    <3>1. req' = [req EXCEPT ![r].state = "Settled"] /\ "Settled" \in ReqStates
      BY <2>2 DEF MarkPayoutCompletionConfirmed, ReqStates
    <3> QED
      BY <1>1, <3>1, RequestEdited
  <2> QED
    BY <2>1, <2>2
<1>4. /\ req'[r] = q
      /\ \A x \in Requests \ {r} : /\ Holding(x)' <=> Holding(x)
                                   /\ LeftReserve(x)' <=> LeftReserve(x)
  BY <1>1, <1>2, <1>3, OthersKeep
<1>5. CompletedBy(r) = {"Payout"} /\ CompletedBy(r)' = {"Payout"} /\ ~Holding(r) /\ ~Holding(r)'
  BY <1>2, <1>3, <1>4 DEF CompletedBy, Holding, ToRobinhood, FromRobinhood
<1>6. ReserveRowMatchesRequests'
  BY <1>1, <1>2, <1>4, <1>5, BookSame DEF LeftReserve
<1>7. RequestGood(r)' /\ \A k \in CompletedBy(r)' : ExecutedForGood(<<r, k>>)
  BY <1>1, <1>2, <1>5 DEF RequestsGood, RequestGood, CompletedMeansExecuted
<1>8. PICK o \in Ops : o = <<r, "Payout">> /\ o[1] = r /\ o[2] = "Payout"
  BY PayoutOp
<1>9. RowGood(o)'
  <2>1. RowGood(o) /\ row'[o] = row[o] /\ (Fits(o)' <=> Fits(o))
    BY <1>1, <1>2 DEF RowsGood, Fits, ToRobinhood, FromRobinhood
  <2>2. row[o].state \notin {"Authorized", "Signed", "Broadcast", "Included"}
    BY <1>2, <1>8, <2>1 DEF RowGood
  <2> QED
    BY <1>3, <1>4, <1>8, <2>1, <2>2 DEF RowGood
<1>10. ASSUME NEW v \in Workers, work[v] # Idle, work[v].step \in {"begin", "collect"},
              work[v].op = <<r, "Payout">>, Unsigned(work[v].op)
       PROVE  FALSE
  BY <1>1, <1>2, <1>8, <1>10 DEF WorkGood, Good
<1> QED
  BY <1>2, <1>3, <1>6, <1>7, <1>8, <1>9, <1>10, ReqAlone

\* The daemon parks a payout it has not begun.
LEMMA ParkBoundsStep ==
  ASSUME IInv, NEW r \in Requests, ParkForDestinationBounds(r)
  PROVE  IInv' /\ RowsAdvance
<1>1. Shape /\ WorkGood /\ RowsGood /\ ReserveRowMatchesRequests
  BY DEF IInv
<1>2. /\ work[Daemon] = Idle /\ ToRobinhood(r) /\ req[r].state = "SourceFinalized"
      /\ row[<<r, "Payout">>].state \in {"none", "Authorizing"}
      /\ book' = IF dir[r] = "GlcToRhn" THEN book ELSE Release(r)
      /\ UNCHANGED <<dir, row, floor, work, chainVars>>
  BY DEF ParkForDestinationBounds
<1>3. req' = AllNoted(r, "ManualReview", "bounds") /\ "ManualReview" \in ReqStates
  BY DEF ParkForDestinationBounds, AllNoted, ReqStates
<1> DEFINE q == Noted(r, "ManualReview", "bounds")
<1>4. /\ q \in ReqType /\ q.state = "ManualReview" /\ q.note = "bounds"
      /\ req' = [req EXCEPT ![r] = q]
  BY <1>1, <1>3, NoteEdited
<1> HIDE DEF q
<1>5. /\ req'[r] = q
      /\ \A x \in Requests \ {r} : /\ Holding(x)' <=> Holding(x)
                                   /\ LeftReserve(x)' <=> LeftReserve(x)
  BY <1>1, <1>2, <1>4, OthersKeep
<1>6. CompletedBy(r) = {} /\ CompletedBy(r)' = {} /\ Holding(r) /\ (Holding(r)' <=> dir[r] = "GlcToRhn")
  BY <1>2, <1>4, <1>5 DEF CompletedBy, Holding, ToRobinhood, FromRobinhood
<1>7. ReserveRowMatchesRequests'
  <2>1. \A x \in Requests : LeftReserve(x)' <=> LeftReserve(x)
    BY <1>5, <1>6 DEF LeftReserve
  <2>2. CASE dir[r] = "GlcToRhn"
    <3>1. book' = book /\ \A x \in Requests : Holding(x)' <=> Holding(x)
      BY <1>2, <1>5, <1>6, <2>2
    <3> QED
      BY <1>1, <2>1, <3>1, BookSame
  <2>3. CASE dir[r] # "GlcToRhn"
    <3>1. book' = Release(r) /\ ~Holding(r)'
      BY <1>2, <1>6, <2>3
    <3> QED
      BY <1>1, <1>5, <1>6, <2>1, <3>1, BookReleases
  <2> QED
    BY <2>2, <2>3
<1>8. RequestGood(r)' /\ \A k \in CompletedBy(r)' : ExecutedForGood(<<r, k>>)
  BY <1>6 DEF RequestGood
<1>9. PICK o \in Ops : o = <<r, "Payout">> /\ o[1] = r /\ o[2] = "Payout"
  BY PayoutOp
<1>10. RowGood(o)'
  <2>1. RowGood(o) /\ row'[o] = row[o] /\ (Fits(o)' <=> Fits(o))
    BY <1>1, <1>2 DEF RowsGood, Fits, ToRobinhood, FromRobinhood
  <2> QED
    BY <1>2, <1>9, <2>1 DEF RowGood
<1>11. ASSUME NEW v \in Workers, work[v] # Idle, work[v].step \in {"begin", "collect"},
              work[v].op = <<r, "Payout">>
       PROVE  FALSE
  BY <1>1, <1>2, <1>9, <1>11 DEF WorkGood, Good
<1> QED
  BY <1>2, <1>4, <1>7, <1>8, <1>9, <1>10, <1>11, ReqAlone

LEMMA ObservationStep ==
  ASSUME IInv, NEW w \in Workers, MarkObservationSettled(w)
  PROVE  IInv' /\ RowsAdvance
<1>1. work[w].step = "observe"
  BY DEF MarkObservationSettled
<1>2. PICK o \in Ops : work[w].op = o /\ work[w] # Idle
  BY <1>1, Remembered
<1>3. PICK r \in Requests : r = o[1]
  BY OpFacts
<1>4. Shape /\ WorkGood /\ RowsGood /\ RequestsGood /\ CompletedMeansExecuted
      /\ ReserveRowMatchesRequests
  BY DEF IInv
<1>5. PICK q \in ReqType : /\ q.state = req[r].state /\ q.note = req[r].note
                           /\ req' = [req EXCEPT ![r] = q]
  <2> DEFINE q == [req[r] EXCEPT !.observed = TRUE]
  <2>1. q \in ReqType /\ q.state = req[r].state /\ q.note = req[r].note
    BY <1>4 DEF Shape, ReqType
  <2>2. req' = [req EXCEPT ![r] = q]
    BY <1>2, <1>3 DEF MarkObservationSettled
  <2> QED
    BY <2>1, <2>2
<1>6. /\ UNCHANGED <<dir, row, book, floor, clock, epoch, paused, pool, mined, final, forks>>
      /\ paidOut' \subseteq Requests /\ work' = [work EXCEPT ![w] = Idle]
  BY <1>4 DEF MarkObservationSettled, Done, Step, chainVars, Shape
<1>7. /\ req'[r] = q
      /\ \A x \in Requests \ {r} : /\ Holding(x)' <=> Holding(x)
                                   /\ LeftReserve(x)' <=> LeftReserve(x)
  BY <1>4, <1>5, <1>6, OthersKeep
<1>8. CompletedBy(r)' = CompletedBy(r) /\ (Holding(r)' <=> Holding(r))
  BY <1>5, <1>6, <1>7 DEF CompletedBy, Holding, ToRobinhood, FromRobinhood
<1>9. ReserveRowMatchesRequests'
  BY <1>4, <1>6, <1>7, <1>8, BookSame DEF LeftReserve
<1>10. RequestGood(r)' /\ \A k \in CompletedBy(r)' : ExecutedForGood(<<r, k>>)
  BY <1>4, <1>6, <1>8 DEF RequestsGood, RequestGood, CompletedMeansExecuted
<1>11. PICK p \in Ops : p = <<r, "Payout">> /\ p[1] = r /\ p[2] = "Payout"
  BY PayoutOp
<1>12. RowGood(p)'
  <2>1. RowGood(p) /\ row'[p] = row[p] /\ (Fits(p)' <=> Fits(p))
    BY <1>4, <1>6 DEF RowsGood, Fits, ToRobinhood, FromRobinhood
  <2> QED
    BY <1>5, <1>7, <1>11, <2>1 DEF RowGood
<1>13. ASSUME NEW v \in Workers, work[v] # Idle, work[v].step \in {"begin", "collect"},
              work[v].op = <<r, "Payout">>, Unsigned(work[v].op)
       PROVE  q.state = "SourceFinalized"
  BY <1>4, <1>5, <1>11, <1>13 DEF WorkGood, Good
<1>14. Good(w, Idle)'
  BY DEF Good
<1> QED
  BY <1>5, <1>6, <1>9, <1>10, <1>11, <1>12, <1>13, <1>14, IdleStep, ReqMoves

\* A request whose payout cannot be under way has no payout row and nobody
\* authorizing one.
LEMMA NoPayout ==
  ASSUME IInv, NEW r \in Requests, ~ToRobinhood(r)
  PROVE  /\ row[<<r, "Payout">>] = NoRow
         /\ \A v \in Workers :
              ~(work[v] # Idle /\ work[v].step \in {"begin", "collect"} /\ work[v].op = <<r, "Payout">>)
<1>1. <<r, "Payout">> \in Ops /\ <<r, "Payout">>[1] = r /\ <<r, "Payout">>[2] = "Payout"
  BY OpMade DEF Kinds
<1>2. row[<<r, "Payout">>] = NoRow
  BY <1>1 DEF IInv, RowsGood, RowGood, Fits
<1> QED
  BY <1>1, <1>2 DEF IInv, WorkGood, Good, Fits

\* A request of the treasury is executed, and fails or is confirmed.
LEMMA TreasuryMoves ==
  ASSUME IInv, NEW r \in Requests, dir[r] = "Treasury", NEW q \in ReqType,
         req' = [req EXCEPT ![r] = q],
         UNCHANGED <<dir, row, floor, chainVars>>, ReserveRowMatchesRequests',
         q.state = "Confirmed" => /\ ExecutedForGood(<<r, "TreasuryWithdraw">>)
                                  /\ row[<<r, "TreasuryWithdraw">>].state = "Finalized",
         NEW w \in Workers, NEW s \in WorkType, Good(w, s)', work' = [work EXCEPT ![w] = s]
  PROVE  IInv' /\ RowsAdvance
<1>1. Shape /\ RowsGood
  BY DEF IInv
<1>2. /\ UNCHANGED <<dir, row, floor, clock, epoch, paused, pool, mined, final, forks>>
      /\ paidOut' \subseteq Requests
  BY <1>1 DEF chainVars, Shape
<1>3. req'[r] = q /\ ~ToRobinhood(r)
  BY <1>1, OthersKeep DEF ToRobinhood
<1>4. CompletedBy(r)' = IF q.state = "Confirmed" THEN {"TreasuryWithdraw"} ELSE {}
  BY <1>2, <1>3 DEF CompletedBy, ToRobinhood, FromRobinhood
<1>5. RequestGood(r)' /\ \A k \in CompletedBy(r)' : ExecutedForGood(<<r, k>>)
  BY <1>2, <1>4 DEF RequestGood
<1>6. RowGood(<<r, "Payout">>)'
  BY <1>2, <1>3, NoPayout DEF RowGood, NoRow
<1> QED
  BY <1>2, <1>3, <1>5, <1>6, NoPayout, ReqMoves

\* record_rebalance_executed moves no money.
LEMMA RebalanceExecutedKeeps ==
  ASSUME IInv, NEW r \in Requests, dir[r] = "Treasury", RebalanceExecuted(r),
         UNCHANGED <<dir, row, floor, chainVars>>,
         NEW w \in Workers, NEW s \in WorkType, Good(w, s), Good(w, s)', Step(w, s)
  PROVE  IInv' /\ RowsAdvance
<1>1. Shape /\ ReserveRowMatchesRequests
  BY DEF IInv
<1>2. CASE UNCHANGED req
  BY <1>2, WorkOnly DEF RebalanceExecuted, ledgerVars
<1>3. CASE req[r].state = "Approved"
  <2>1. req' = [req EXCEPT ![r].state = "Executed"] /\ book' = book /\ "Executed" \in ReqStates
    BY <1>3 DEF RebalanceExecuted, ReqStates
  <2>2. PICK q \in ReqType : q.state = "Executed" /\ req' = [req EXCEPT ![r] = q]
    BY <1>1, <2>1, RequestEdited
  <2>3. /\ req'[r] = q
        /\ \A x \in Requests \ {r} : /\ Holding(x)' <=> Holding(x)
                                     /\ LeftReserve(x)' <=> LeftReserve(x)
    BY <1>1, <2>2, OthersKeep
  <2>4. CompletedBy(r) = {} /\ CompletedBy(r)' = {} /\ ~Holding(r) /\ ~Holding(r)'
    BY <1>3, <2>2, <2>3 DEF CompletedBy, Holding, ToRobinhood, FromRobinhood
  <2>5. ReserveRowMatchesRequests'
    BY <1>1, <2>1, <2>3, <2>4, BookSame DEF LeftReserve
  <2>6. work' = [work EXCEPT ![w] = s]
    BY DEF Step
  <2> QED
    BY <2>2, <2>5, <2>6, TreasuryMoves
<1> QED
  BY <1>2, <1>3 DEF RebalanceExecuted

\* A payout on its way to Robinhood is paid or given up.
LEMMA PayoutMoves ==
  ASSUME IInv, NEW r \in Requests, ToRobinhood(r), NEW q \in ReqType,
         req' = [req EXCEPT ![r] = q],
         UNCHANGED <<dir, row, floor, chainVars>>, ReserveRowMatchesRequests',
         ~Unsigned(<<r, "Payout">>),
         row[<<r, "Payout">>].state \notin {"Authorized", "Signed", "Broadcast", "Included"},
         row[<<r, "Payout">>].state = "Finalized" => q.state \in {"DestinationConfirmed", "Settled"},
         q.state \in {"DestinationConfirmed", "Settled"} =>
           /\ ExecutedForGood(<<r, "Payout">>) /\ row[<<r, "Payout">>].state = "Finalized",
         NEW w \in Workers, work' = [work EXCEPT ![w] = Idle]
  PROVE  IInv' /\ RowsAdvance
<1>1. Shape /\ RowsGood
  BY DEF IInv
<1>2. /\ UNCHANGED <<dir, row, floor, clock, epoch, paused, pool, mined, final, forks>>
      /\ paidOut' \subseteq Requests
  BY <1>1 DEF chainVars, Shape
<1>3. req'[r] = q
  BY <1>1, OthersKeep
<1>4. CompletedBy(r)' = IF q.state \in {"DestinationConfirmed", "Settled"} THEN {"Payout"} ELSE {}
  <2>1. ToRobinhood(r)' /\ ~FromRobinhood(r)' /\ dir'[r] # "Treasury"
    BY <1>2 DEF ToRobinhood, FromRobinhood
  <2> QED
    BY <1>3, <2>1 DEF CompletedBy
<1>5. RequestGood(r)' /\ \A k \in CompletedBy(r)' : ExecutedForGood(<<r, k>>)
  <2>1. ASSUME NEW k \in CompletedBy(r)'
        PROVE  row'[<<r, k>>].state = "Finalized" /\ ExecutedForGood(<<r, k>>)
    <3>1. k = "Payout" /\ q.state \in {"DestinationConfirmed", "Settled"}
      BY <1>4, <2>1
    <3> QED
      BY <1>2, <3>1
  <2> QED
    BY <2>1 DEF RequestGood
<1>6. PICK o \in Ops : o = <<r, "Payout">> /\ o[1] = r /\ o[2] = "Payout"
  BY PayoutOp
<1>7. RowGood(o)'
  <2>1. RowGood(o) /\ row'[o] = row[o] /\ (Fits(o)' <=> Fits(o))
    BY <1>1, <1>2 DEF RowsGood, Fits, ToRobinhood, FromRobinhood
  <2> QED
    BY <1>3, <1>6, <2>1 DEF RowGood
<1>8. Good(w, Idle)'
  BY DEF Good
<1> QED
  BY <1>2, <1>5, <1>6, <1>7, <1>8, IdleStep, ReqMoves

\* on_reverted.
LEMMA ParkRevertedStep ==
  ASSUME IInv, NEW w \in Workers, ParkReverted(w)
  PROVE  IInv' /\ RowsAdvance
<1>1. work[w].step = "park"
  BY DEF ParkReverted
<1>2. PICK o \in Ops : /\ work[w].op = o /\ work[w] # Idle /\ Good(w, work[w])
                       /\ work[w] = [step |-> "park", op |-> o]
  BY <1>1, Remembered
<1>3. PICK r \in Requests : r = o[1] /\ o = <<r, o[2]>> /\ o[2] \in Kinds
  BY OpFacts
<1>4. Shape /\ WorkGood /\ RowsGood /\ RequestsGood /\ ReserveRowMatchesRequests
  BY DEF IInv
<1>5. row[o].state \in Stopped(o) /\ Fits(o) /\ row[o].state # "none"
  BY <1>1, <1>2, <1>4 DEF Good, Stopped, RowsGood, RowGood
<1>6. /\ OnReverted(o) /\ UNCHANGED <<dir, row, floor, chainVars>>
      /\ o[2] # "TreasuryWithdraw" => work' = [work EXCEPT ![w] = Idle]
      /\ o[2] = "TreasuryWithdraw" => Step(w, [work[w] EXCEPT !.step = "fail"])
  BY <1>2 DEF ParkReverted, Step
<1>7. CASE o[2] # "TreasuryWithdraw" /\ UNCHANGED <<req, book>>
  BY <1>6, <1>7, IdleStep, WorkOnly DEF Step, ledgerVars
<1>8. CASE o[2] = "TreasuryWithdraw"
  <2> DEFINE s == [step |-> "fail", op |-> o]
  <2>1. s \in WorkType /\ s.step = "fail" /\ s.op = o
    BY LaterWork
  <2>2. Step(w, s)
    BY <1>2, <1>6, <1>8
  <2> HIDE DEF s
  <2>3. Good(w, s) /\ Good(w, s)'
    BY <1>5, <1>6, <1>8, <2>1 DEF Good, Stopped
  <2>4. dir[r] = "Treasury" /\ RebalanceExecuted(r)
    BY <1>3, <1>5, <1>6, <1>8 DEF Fits, OnReverted
  <2> QED
    BY <1>6, <2>1, <2>2, <2>3, <2>4, RebalanceExecutedKeeps
<1>9. CASE o[2] # "TreasuryWithdraw" /\ req[r].state \notin {"Settled", "Refunded", "ManualReview"}
  <2>1. /\ req' = AllNoted(r, "ManualReview", "reverted") /\ "ManualReview" \in ReqStates
        /\ book' = IF ToRobinhood(r) /\ req[r].state = "SourceFinalized" THEN Release(r) ELSE book
    BY <1>3, <1>6, <1>9 DEF OnReverted, ReqStates, AllNoted
  <2> DEFINE n == Noted(r, "ManualReview", "reverted")
  <2>2. /\ n \in ReqType /\ n.state = "ManualReview" /\ n.note = "reverted"
        /\ req' = [req EXCEPT ![r] = n]
    BY <1>4, <2>1, NoteEdited
  <2> HIDE DEF n
  <2>3. PICK q \in ReqType : /\ q.state = "ManualReview" /\ q.note = "reverted"
                             /\ req' = [req EXCEPT ![r] = q]
    BY <2>2
  <2>4. /\ req'[r] = q
        /\ \A x \in Requests \ {r} : /\ Holding(x)' <=> Holding(x)
                                     /\ LeftReserve(x)' <=> LeftReserve(x)
    BY <1>4, <1>6, <2>3, OthersKeep
  <2>5. CASE o[2] = "Payout"
    <3>1. ToRobinhood(r) /\ row[o].state \in {"Reverted", "ManualReview"} /\ o = <<r, "Payout">>
      BY <1>3, <1>5, <2>5 DEF Fits, Stopped
    <3>2. CompletedBy(r) \subseteq {"Payout"} /\ CompletedBy(r)' = {} /\ ~Holding(r)'
      BY <1>6, <2>3, <2>4, <3>1 DEF CompletedBy, Holding, ToRobinhood, FromRobinhood
    <3>3. "Payout" \notin CompletedBy(r)
      BY <1>4, <3>1 DEF RequestsGood, RequestGood
    <3>4. \A x \in Requests : LeftReserve(x)' <=> LeftReserve(x)
      BY <2>4, <3>2, <3>3 DEF LeftReserve
    <3>5. CASE req[r].state = "SourceFinalized"
      <4>1. Holding(r) /\ book' = Release(r)
        BY <2>1, <3>1, <3>5 DEF Holding
      <4>2. ReserveRowMatchesRequests'
        BY <1>4, <2>4, <3>2, <3>4, <4>1, BookReleases
      <4> QED
        BY <1>6, <2>3, <3>1, <4>2, PayoutMoves DEF Unsigned
    <3>6. CASE req[r].state # "SourceFinalized"
      <4>1. ~Holding(r) /\ book' = book
        BY <1>9, <2>1, <3>6 DEF Holding
      <4>2. ReserveRowMatchesRequests'
        BY <1>4, <2>4, <3>2, <3>4, <4>1, BookSame
      <4> QED
        BY <1>6, <2>3, <3>1, <4>2, PayoutMoves DEF Unsigned
    <3> QED
      BY <3>5, <3>6
  <2>6. CASE o[2] # "Payout"
    <3>1. FromRobinhood(r) /\ ~ToRobinhood(r)
      BY <1>3, <1>5, <1>9, <2>6 DEF Fits, Kinds, FromRobinhood, ToRobinhood
    <3>2. /\ UNCHANGED <<dir, row, book, floor, clock, epoch, paused, pool, mined, final, forks>>
          /\ paidOut' \subseteq Requests
      BY <1>4, <1>6, <2>1, <3>1 DEF chainVars, Shape
    <3>3. Good(w, Idle)'
      BY DEF Good
    <3> QED
      BY <1>6, <1>9, <2>3, <3>1, <3>2, <3>3, IdleStep, InboundMoves
  <2> QED
    BY <2>5, <2>6
<1> QED
  BY <1>3, <1>6, <1>7, <1>8, <1>9 DEF OnReverted

\* fail_rebalance, behind a row that stopped for good.
LEMMA FailStep ==
  ASSUME IInv, NEW w \in Workers, FailRebalance(w)
  PROVE  IInv' /\ RowsAdvance
<1>1. work[w].step = "fail"
  BY DEF FailRebalance
<1>2. PICK o \in Ops : work[w].op = o /\ work[w] # Idle /\ Good(w, work[w])
  BY <1>1, Remembered
<1>3. PICK r \in Requests : r = o[1] /\ o = <<r, o[2]>> /\ o[2] \in Kinds
  BY OpFacts
<1>4. Shape /\ RowsGood /\ RequestsGood /\ ReserveRowMatchesRequests
  BY DEF IInv
<1>5. row[o].state \in Stopped(o) /\ o[2] = "TreasuryWithdraw" /\ Fits(o)
  BY <1>1, <1>2, <1>4 DEF Good, Stopped, RowsGood, RowGood
<1>6. /\ work' = [work EXCEPT ![w] = Idle] /\ UNCHANGED <<dir, row, book, floor, chainVars>>
      /\ req' = IF req[r].state = "Executed" THEN [req EXCEPT ![r].state = "Failed"] ELSE req
  BY <1>2, <1>3 DEF FailRebalance, Done, Step
<1>7. CASE req' = req
  BY <1>6, <1>7, IdleStep, WorkOnly DEF Step, ledgerVars
<1>8. CASE req[r].state = "Executed"
  <2>1. req' = [req EXCEPT ![r].state = "Failed"] /\ "Failed" \in ReqStates
    BY <1>6, <1>8 DEF ReqStates
  <2>2. PICK q \in ReqType : q.state = "Failed" /\ req' = [req EXCEPT ![r] = q]
    BY <1>4, <2>1, RequestEdited
  <2>3. dir[r] = "Treasury"
    BY <1>3, <1>5 DEF Fits
  <2>4. /\ req'[r] = q
        /\ \A x \in Requests \ {r} : /\ Holding(x)' <=> Holding(x)
                                     /\ LeftReserve(x)' <=> LeftReserve(x)
    BY <1>4, <1>6, <2>2, OthersKeep
  <2>5. CompletedBy(r) = {} /\ CompletedBy(r)' = {} /\ ~Holding(r) /\ ~Holding(r)'
    BY <1>6, <1>8, <2>2, <2>3, <2>4 DEF CompletedBy, Holding, ToRobinhood, FromRobinhood
  <2>6. ReserveRowMatchesRequests'
    BY <1>4, <1>6, <2>4, <2>5, BookSame DEF LeftReserve
  <2>7. Good(w, Idle)' /\ Idle \in WorkType
    BY IdleStep DEF Good
  <2> QED
    BY <1>6, <2>2, <2>3, <2>6, <2>7, TreasuryMoves
<1> QED
  BY <1>6, <1>7, <1>8

\* on_finalized for a payout: the reserved amount leaves the reserve row, once.
LEMMA PayoutSettledKeeps ==
  ASSUME IInv, NEW r \in Requests, Fits(<<r, "Payout">>), row[<<r, "Payout">>].state = "Finalized",
         ExecutedForGood(<<r, "Payout">>), PayoutSettled(r),
         UNCHANGED <<dir, row, floor, chainVars>>, NEW w \in Workers, Step(w, Idle)
  PROVE  IInv' /\ RowsAdvance
<1>1. Shape /\ RowsGood /\ ReserveRowMatchesRequests
  BY DEF IInv
<1>2. PICK o \in Ops : o = <<r, "Payout">> /\ o[1] = r /\ o[2] = "Payout"
  BY PayoutOp
<1>3. ToRobinhood(r) /\ req[r].state \in {"SourceFinalized", "DestinationConfirmed", "Settled"}
  BY <1>1, <1>2 DEF Fits, RowsGood, RowGood
<1>4. CASE UNCHANGED <<req, book>>
  BY <1>4, IdleStep, WorkOnly DEF ledgerVars
<1>5. CASE req[r].state = "SourceFinalized"
  <2>1. PICK st \in {"Settled", "DestinationConfirmed"} :
          /\ req' = [req EXCEPT ![r].state = st]
          /\ book' = [Release(r) EXCEPT !.balance = @ - Net[r]]
    BY <1>5 DEF PayoutSettled
  <2>2. st \in ReqStates
    BY DEF ReqStates
  <2>3. PICK q \in ReqType : q.state = st /\ req' = [req EXCEPT ![r] = q]
    BY <1>1, <2>1, <2>2, RequestEdited
  <2>4. /\ req'[r] = q
        /\ \A x \in Requests \ {r} : /\ Holding(x)' <=> Holding(x)
                                     /\ LeftReserve(x)' <=> LeftReserve(x)
    BY <1>1, <2>3, OthersKeep
  <2>5. CompletedBy(r) = {} /\ CompletedBy(r)' = {"Payout"} /\ Holding(r) /\ ~Holding(r)'
    BY <1>3, <1>5, <2>3, <2>4 DEF CompletedBy, Holding, ToRobinhood, FromRobinhood
  <2>6. ReserveRowMatchesRequests'
    <3>1. ~LeftReserve(r) /\ LeftReserve(r)'
      BY <2>5 DEF LeftReserve
    <3> QED
      BY <1>1, <2>1, <2>4, <2>5, <3>1, BookPays
  <2>7. work' = [work EXCEPT ![w] = Idle] /\ ~Unsigned(<<r, "Payout">>)
    BY DEF Step, Unsigned
  <2> QED
    BY <1>3, <2>3, <2>6, <2>7, PayoutMoves
<1> QED
  BY <1>3, <1>4, <1>5 DEF PayoutSettled

\* confirm_rebalance: the amount leaves the reserve row, once.
LEMMA ConfirmStep ==
  ASSUME IInv, NEW w \in Workers, ConfirmRebalance(w)
  PROVE  IInv' /\ RowsAdvance
<1>1. work[w].step = "confirm"
  BY DEF ConfirmRebalance
<1>2. PICK o \in Ops : work[w].op = o /\ work[w] # Idle /\ Good(w, work[w])
  BY <1>1, Remembered
<1>3. PICK r \in Requests : r = o[1] /\ o = <<r, o[2]>> /\ o[2] \in Kinds
  BY OpFacts
<1>4. Shape /\ RowsGood /\ ReserveRowMatchesRequests
  BY DEF IInv
<1>5. /\ row[o].state = "Finalized" /\ ExecutedForGood(o)
      /\ o[2] = "TreasuryWithdraw" /\ Fits(o)
  BY <1>1, <1>2, <1>4 DEF Good, RowsGood, RowGood
<1>6. /\ work' = [work EXCEPT ![w] = Idle] /\ UNCHANGED <<dir, row, floor, chainVars>>
      /\ \/ UNCHANGED <<req, book>>
         \/ /\ req[r].state = "Executed" /\ req' = [req EXCEPT ![r].state = "Confirmed"]
            /\ book' = [book EXCEPT !.balance = @ - Net[r]]
  BY <1>2, <1>3 DEF ConfirmRebalance, Done, Step
<1>7. CASE UNCHANGED <<req, book>>
  BY <1>6, <1>7, IdleStep, WorkOnly DEF Step, ledgerVars
<1>8. CASE /\ req[r].state = "Executed" /\ req' = [req EXCEPT ![r].state = "Confirmed"]
           /\ book' = [book EXCEPT !.balance = @ - Net[r]]
  <2>1. "Confirmed" \in ReqStates /\ dir[r] = "Treasury"
    BY <1>3, <1>5 DEF ReqStates, Fits
  <2>2. PICK q \in ReqType : q.state = "Confirmed" /\ req' = [req EXCEPT ![r] = q]
    BY <1>4, <1>8, <2>1, RequestEdited
  <2>3. /\ req'[r] = q
        /\ \A x \in Requests \ {r} : /\ Holding(x)' <=> Holding(x)
                                     /\ LeftReserve(x)' <=> LeftReserve(x)
    BY <1>4, <1>6, <2>2, OthersKeep
  <2>4. CompletedBy(r) = {} /\ CompletedBy(r)' = {"TreasuryWithdraw"} /\ ~Holding(r) /\ ~Holding(r)'
    BY <1>6, <1>8, <2>1, <2>2, <2>3 DEF CompletedBy, Holding, ToRobinhood, FromRobinhood
  <2>5. ReserveRowMatchesRequests'
    <3>1. ~LeftReserve(r) /\ LeftReserve(r)'
      BY <2>4 DEF LeftReserve
    <3>2. \A x \in Requests : Holding(x)' <=> Holding(x)
      BY <2>3, <2>4
    <3> QED
      BY <1>4, <1>8, <2>3, <3>1, <3>2, BookWithdraws
  <2>6. Good(w, Idle)' /\ Idle \in WorkType
    BY IdleStep DEF Good
  <2>7. ExecutedForGood(<<r, "TreasuryWithdraw">>) /\ row[<<r, "TreasuryWithdraw">>].state = "Finalized"
    BY <1>3, <1>5
  <2> QED
    BY <1>6, <2>1, <2>2, <2>5, <2>6, <2>7, TreasuryMoves
<1> QED
  BY <1>6, <1>7, <1>8

\* on_finalized for a settlement or a refund of a deposit on Robinhood.
LEMMA DepositFinalizedKeeps ==
  ASSUME IInv, NEW r \in Requests, FromRobinhood(r), NEW st \in {"Settled", "Refunded"},
         req' = req \/ req' = [req EXCEPT ![r].state = st],
         st = "Settled" => ExecutedForGood(<<r, "Settlement">>),
         st = "Refunded" => ExecutedForGood(<<r, "Refund">>),
         UNCHANGED <<dir, row, book, floor, chainVars>>,
         NEW w \in Workers, NEW s \in WorkType, s = Idle \/ s.step = "observe", Step(w, s)
  PROVE  IInv' /\ RowsAdvance
<1>1. Shape /\ st \in ReqStates
  BY DEF IInv, ReqStates
<1>2. CASE req' = req
  <2>1. Good(w, s) /\ UNCHANGED <<ledgerVars, chainVars>>
    BY <1>2 DEF Good, ledgerVars
  <2> QED
    BY <2>1, WorkOnly
<1>3. CASE req' = [req EXCEPT ![r].state = st]
  <2>1. PICK q \in ReqType : q.state = st /\ req' = [req EXCEPT ![r] = q]
    BY <1>1, <1>3, RequestEdited
  <2>2. Good(w, s)' /\ work' = [work EXCEPT ![w] = s]
    BY DEF Good, Step
  <2>3. /\ UNCHANGED <<dir, row, book, floor, clock, epoch, paused, pool, mined, final, forks>>
        /\ paidOut' \subseteq Requests
    BY <1>1 DEF chainVars, Shape
  <2> QED
    BY <2>1, <2>2, <2>3, InboundMoves
<1> QED
  BY <1>2, <1>3

LEMMA CompleteStep ==
  ASSUME IInv, NEW w \in Workers, CompleteOperation(w)
  PROVE  IInv' /\ RowsAdvance
<1>1. work[w].step = "complete"
  BY DEF CompleteOperation
<1>2. PICK o \in Ops : /\ work[w].op = o /\ work[w] # Idle /\ Good(w, work[w])
                       /\ work[w] = [step |-> "complete", op |-> o]
  BY <1>1, Remembered
<1>3. PICK r \in Requests : r = o[1] /\ o = <<r, o[2]>> /\ o[2] \in Kinds
  BY OpFacts
<1>4. row[o].state = "Finalized" /\ ExecutedForGood(o) /\ Fits(o)
  BY <1>1, <1>2 DEF Good, IInv, RowsGood, RowGood
<1>5. /\ OnFinalized(o) /\ UNCHANGED <<dir, row, floor, chainVars>>
      /\ o[2] = "Settlement" => Step(w, [work[w] EXCEPT !.step = "observe"])
      /\ o[2] \in {"Payout", "Refund"} => Step(w, Idle)
      /\ o[2] = "TreasuryWithdraw" =>
           Step(w, [work[w] EXCEPT !.step = "confirm"]) \/ Step(w, Idle)
  BY <1>2 DEF CompleteOperation
<1>6. CASE o[2] = "Payout"
  <2>1. PayoutSettled(r) /\ Step(w, Idle) /\ o = <<r, "Payout">>
    BY <1>3, <1>5, <1>6 DEF OnFinalized
  <2> QED
    BY <1>4, <1>5, <2>1, PayoutSettledKeeps
<1>7. CASE o[2] = "TreasuryWithdraw"
  <2>1. RebalanceExecuted(r) /\ dir[r] = "Treasury"
    BY <1>3, <1>4, <1>5, <1>7 DEF OnFinalized, Fits
  <2>2. CASE Step(w, Idle)
    <3>1. Good(w, Idle) /\ Good(w, Idle)' /\ Idle \in WorkType
      BY IdleStep DEF Good
    <3> QED
      BY <1>5, <2>1, <2>2, <3>1, RebalanceExecutedKeeps
  <2>3. CASE Step(w, [work[w] EXCEPT !.step = "confirm"])
    <3> DEFINE s == [step |-> "confirm", op |-> o]
    <3>1. s \in WorkType /\ s.step = "confirm" /\ s.op = o
      BY LaterWork
    <3>2. Step(w, s)
      BY <1>2, <2>3
    <3> HIDE DEF s
    <3>3. Good(w, s) /\ Good(w, s)'
      <4>1. ExecutedForGood(o)' /\ row'[o] = row[o]
        BY <1>4, <1>5 DEF ExecutedForGood, chainVars
      <4> QED
        BY <1>4, <1>7, <3>1, <4>1 DEF Good
    <3> QED
      BY <1>5, <2>1, <3>1, <3>2, <3>3, RebalanceExecutedKeeps
  <2> QED
    BY <1>5, <1>7, <2>2, <2>3
<1>8. CASE o[2] = "Settlement"
  <2> DEFINE s == [step |-> "observe", op |-> o]
  <2>1. s \in WorkType /\ s.step = "observe"
    BY DEF WorkType
  <2>2. Step(w, s)
    BY <1>2, <1>5, <1>8
  <2>3. /\ req' = req \/ req' = [req EXCEPT ![r].state = "Settled"]
        /\ book' = book /\ o = <<r, "Settlement">>
    BY <1>3, <1>5, <1>8 DEF OnFinalized, SettlementConfirmed
  <2>4. FromRobinhood(r) /\ ExecutedForGood(<<r, "Settlement">>)
    BY <1>3, <1>4, <1>8 DEF Fits
  <2>5. UNCHANGED <<dir, row, book, floor, chainVars>>
    BY <1>5, <2>3
  <2> HIDE DEF s
  <2> QED
    BY <2>1, <2>2, <2>3, <2>4, <2>5, DepositFinalizedKeeps
<1>9. CASE o[2] = "Refund"
  <2>1. /\ req' = req \/ req' = [req EXCEPT ![r].state = "Refunded"]
        /\ book' = book /\ o = <<r, "Refund">> /\ Step(w, Idle)
    BY <1>3, <1>5, <1>9 DEF OnFinalized, RefundConfirmed
  <2>2. FromRobinhood(r) /\ ExecutedForGood(<<r, "Refund">>)
    BY <1>3, <1>4, <1>9 DEF Fits
  <2>3. UNCHANGED <<dir, row, book, floor, chainVars>>
    BY <1>5, <2>1
  <2> QED
    BY <2>1, <2>2, <2>3, IdleStep, DepositFinalizedKeeps
<1> QED
  BY <1>3, <1>6, <1>7, <1>8, <1>9 DEF Kinds

-----------------------------------------------------------------------------
(* The theorems *)

LEMMA InitHolds ==
  ASSUME Init
  PROVE  IInv
<1>1. /\ dir \in [Requests -> Directions]
      /\ req = [r \in Requests |->
                  [state |-> IF dir[r] = "Treasury" THEN "Approved" ELSE "SourceFinalized",
                   note |-> "none", completion |-> FALSE, observed |-> FALSE]]
      /\ row = [o \in Ops |-> NoRow] /\ floor = 0 /\ work = [w \in Workers |-> Idle]
      /\ clock = 0 /\ epoch = 0 /\ paused = FALSE
      /\ pool = {} /\ mined = <<>> /\ final = 0 /\ forks = 0 /\ paidOut = {}
  BY DEF Init
<1>2. /\ \A r \in Requests : /\ req[r] \in ReqType
                             /\ req[r].state = IF dir[r] = "Treasury" THEN "Approved" ELSE "SourceFinalized"
                             /\ req[r].note = "none"
      /\ req \in [Requests -> ReqType]
  BY <1>1 DEF ReqType, ReqStates
<1>3. NoRow \in RowType /\ NoRow.state = "none" /\ NoRow.version = -1 /\ NoRow.nonce = -1
  BY RhnBoundsAssumption DEF NoRow, RowType, TxStates, NoPayload
<1>4. \A o \in Ops : row[o] = NoRow
  BY <1>1
<1>5. mined \in Seq(MinedType) /\ Len(mined) = 0 /\ DOMAIN mined = {}
  BY <1>1
<1>6. Shape
  BY <1>1, <1>2, <1>3, <1>5, IdleStep, RhnBoundsAssumption DEF Shape
<1>7. RowsGood /\ NonceUnique
  BY <1>3, <1>4 DEF RowsGood, RowGood, NonceUnique
<1>8. \A r \in Requests : CompletedBy(r) = {}
  BY <1>2 DEF CompletedBy, ToRobinhood, FromRobinhood
<1>9. RequestsGood /\ CompletedMeansExecuted
  BY <1>8 DEF RequestsGood, RequestGood, CompletedMeansExecuted
<1>10. WorkGood
  BY <1>1, IdleStep DEF WorkGood
<1>11. SentAccounted
  BY <1>1, <1>5 DEF SentAccounted
<1>12. ReserveRowMatchesRequests
  <2>1. {r \in Requests : Holding(r)} = {r \in Requests : ToRobinhood(r)}
    BY <1>2 DEF Holding, ToRobinhood
  <2>2. {r \in Requests : LeftReserve(r)} = {}
    BY <1>8 DEF LeftReserve
  <2>3. SumOver(Net, {}) = 0
    BY SumEmpty
  <2>4. InitialBalance - 0 = InitialBalance
    BY RhnAmountsAssumption
  <2> QED
    BY <2>1, <2>2, <2>3, <2>4 DEF Init, ReserveRowMatchesRequests
<1> QED
  BY <1>6, <1>7, <1>9, <1>10, <1>11, <1>12 DEF IInv

LEMMA WorkerStep ==
  ASSUME IInv, NEW w \in Workers,
         DaemonStep(w) \/ MarkRobinhoodRefundPending(w) \/ Stop(w) \/ ReconcileNonce(w)
  PROVE  IInv' /\ RowsAdvance
BY BeginStep, RecordAuthorizationStep, AllocateStep, RecordSignedStep, SendStep,
   RecordBroadcastStep, ReviewRevertedStep, ParkRevertedStep, FailStep, VerifyStep, CompleteStep,
   ConfirmStep,
   ObservationStep, MarkRefundPendingStep, StopStep, ReconcileNonceStep
   DEF DaemonStep

LEMMA OperationStep ==
  ASSUME IInv, NEW w \in Workers, NEW o \in Ops,
         \/ SignRefused(w, o) \/ SignAndSend(w, o) \/ Rebroadcast(w, o)
         \/ RecordRobinhoodReplacement(w, o) \/ GiveUpBroadcast(w, o) \/ PollReceipt(w, o)
  PROVE  IInv' /\ RowsAdvance
BY ResolveStep, SignAndSendStep, ReplacementStep, PollStep

LEMMA RequestStep ==
  ASSUME IInv, NEW r \in Requests,
         \/ AuthorizePayout(r) \/ AuthorizeSettlement(r) \/ ParkForDestinationBounds(r)
         \/ ParkDeposit(r) \/ ResumeManualReview(r)
         \/ PayDestination(r) \/ ConfirmDestination(r)
         \/ RecordPayoutCompletionSubmitted(r) \/ MarkPayoutCompletionConfirmed(r)
  PROVE  IInv' /\ RowsAdvance
BY AuthorizeStep, ParkBoundsStep, DepositStep, CompletionStep

\* Every step keeps the invariant and moves every row forwards only.
LEMMA InvariantKept ==
  ASSUME IInv, [Next]_vars
  PROVE  IInv' /\ RowsAdvance
<1>1. CASE UNCHANGED vars
  <2>1. UNCHANGED <<ledgerVars, work, chainVars>> /\ row' = row
    BY <1>1 DEF vars, ledgerVars
  <2>2. UNCHANGED <<dir, req, row, book, floor, work, clock, epoch, paused, pool, mined, final, forks,
                    paidOut>>
    BY <2>1 DEF ledgerVars, chainVars
  <2>3. UNCHANGED <<ledgerVars, work>> /\ Shape
    BY <2>1 DEF IInv
  <2>4. SentAccounted' /\ \A o \in Ops : ExecutedForGood(o) => ExecutedForGood(o)'
    BY <2>2 DEF IInv, SentAccounted, Accounted, ExecutedForGood
  <2>5. /\ clock' \in 0 .. MaxClock /\ epoch' \in 0 .. MaxEpoch /\ forks' \in 0 .. MaxReorgs
        /\ paidOut' \subseteq Requests /\ pool' \subseteq TxType /\ mined' \in Seq(MinedType)
        /\ final' \in 0 .. Len(mined')
    BY <2>2, <2>3 DEF Shape
  <2> QED
    BY <2>3, <2>4, <2>5, ChainOnly
<1>2. CASE Next
  BY <1>2, RequestStep, CheckStep, WorkerStep, OperationStep, ReconcileStep, ClockStep, MineStep,
     DeepenStep DEF Next
<1> QED
  BY <1>1, <1>2

LEMMA InvariantHolds == Spec => []IInv
<1>1. Init => IInv
  BY InitHolds
<1>2. IInv /\ [Next]_vars => IInv'
  BY InvariantKept
<1> QED
  BY <1>1, <1>2, PTL DEF Spec

\* For every number of requests, processes, replacements, reorganisations and
\* foreign nonces, the service's books follow the chain: a request is completed
\* only by an operation executed for good, the reserve row is the sum of what
\* is held and what has left, its counters never go negative, and everything
\* sent is in the ledger under a nonce of its own (settlement.rs, submitter.rs,
\* robinhood_tx.rs).
THEOREM BooksAlwaysFollowChain == Spec => []BooksFollowChain
<1>1. IInv => BooksFollowChain
  <2> SUFFICES ASSUME IInv PROVE BooksFollowChain
    OBVIOUS
  <2>1. TypeOK
    BY BookTyped DEF IInv, Shape, TypeOK, ReqType
  <2>2. NothingUnaccounted
    <3>1. \A t \in pool : Accounted(t)
      BY DEF IInv, SentAccounted
    <3>2. \A i \in DOMAIN mined : mined[i].op # ForeignOp => Accounted(mined[i])
      BY DEF IInv, SentAccounted
    <3> QED
      BY <3>1, <3>2 DEF IInv, NonceUnique, NothingUnaccounted, Accounted, Late
  <2> QED
    BY <2>1, <2>2 DEF IInv, BooksFollowChain
<1> QED
  BY <1>1, InvariantHolds, PTL

\* No step of any process, and no fault, changes a recorded nonce, lowers a
\* version or replaces a stored quorum (allocate_robinhood_nonce,
\* record_robinhood_replacement, record_robinhood_authorization).
THEOREM NoncesNeverReused == Spec => NoncesAreForever
<1>1. IInv /\ [Next]_vars =>
        [\A o \in Ops : /\ row[o].nonce >= 0 => row'[o].nonce = row[o].nonce
                        /\ row'[o].version >= row[o].version
                        /\ row[o].sigs # NoPayload => row'[o].sigs = row[o].sigs]_vars
  BY InvariantKept DEF RowsAdvance, Advances
<1> QED
  BY <1>1, InvariantHolds, PTL DEF Spec, NoncesAreForever

-----------------------------------------------------------------------------
(* Each deposit ends once *)

\* A refund of the request is under way or has been.
RefundOpen(r) == row[<<r, "Refund">>].state # "none" \/ RefundBeginning(r)

RefundStates == {"ManualReview", "RefundPending", "Refunded"}

\* Only a parked deposit that its destination has not paid is refunded, and
\* none leaves that road again.
RefundAlone(r) ==
  /\ RefundOpen(r) => FromRobinhood(r) /\ r \notin paidOut /\ req[r].state \in RefundStates
  /\ r \in paidOut => FromRobinhood(r)

Exclusive == \A r \in Requests : RefundAlone(r)

\* What a step must not do to keep one deposit on its road.
LEMMA RoadKept ==
  ASSUME NEW r \in Requests, RefundAlone(r), dir' = dir,
         RefundOpen(r)' => RefundOpen(r),
         paidOut' = paidOut,
         RefundOpen(r) /\ req[r].state \in RefundStates => req'[r].state \in RefundStates
  PROVE  RefundAlone(r)'
BY DEF RefundAlone, FromRobinhood

\* A process takes up s: only what was begun already.
LEMMA NothingBegun ==
  ASSUME Shape, NEW w \in Workers, NEW s, work' = [work EXCEPT ![w] = s],
         s # Idle => s.op \in Ops /\ (s.op[2] = "Refund" => RefundOpen(s.op[1])),
         NEW r \in Requests, row'[<<r, "Refund">>].state # "none" => RefundOpen(r),
         RefundOpen(r)'
  PROVE  RefundOpen(r)
<1>1. CASE row'[<<r, "Refund">>].state # "none"
  BY <1>1
<1>2. CASE RefundBeginning(r)'
  <2>1. PICK v \in Workers : work'[v] # Idle /\ work'[v].op = <<r, "Refund">>
    BY <1>2 DEF RefundBeginning, Workers
  <2>2. CASE v = w
    <3>1. work'[v] = s
      BY <2>2 DEF Shape
    <3>2. s # Idle /\ s.op = <<r, "Refund">> /\ s.op[2] = "Refund" /\ s.op[1] = r
      BY <2>1, <3>1
    <3> QED
      BY <3>2
  <2>3. CASE v # w
    <3>1. work'[v] = work[v]
      BY <2>3 DEF Shape
    <3> QED
      BY <2>1, <3>1 DEF RefundOpen, RefundBeginning
  <2> QED
    BY <2>2, <2>3
<1> QED
  BY <1>1, <1>2 DEF RefundOpen

\* A step of one process that keeps the requests and creates no row, or only
\* the row of the operation it has in hand.
LEMMA RowAndWork ==
  ASSUME Shape, Exclusive, NEW w \in Workers, NEW s, work' = [work EXCEPT ![w] = s],
         NEW o \in Ops, row[o].state # "none" \/ (work[w] # Idle /\ work[w].op = o),
         s # Idle => s.op = o,
         \A p \in Ops : p # o => row'[p] = row[p],
         UNCHANGED <<dir, paidOut>>,
         \A r \in Requests :
           RefundOpen(r) /\ req[r].state \in RefundStates => req'[r].state \in RefundStates
  PROVE  Exclusive'
<1>1. o[1] \in Requests /\ o = <<o[1], o[2]>>
  BY OpFacts
<1>2. o[2] = "Refund" => RefundOpen(o[1])
  BY <1>1 DEF RefundOpen, RefundBeginning
<1> SUFFICES ASSUME NEW r \in Requests PROVE RefundAlone(r)'
  BY DEF Exclusive
<1>3. <<r, "Refund">> \in Ops
  BY OpMade DEF Kinds
<1>4. row'[<<r, "Refund">>].state # "none" => RefundOpen(r)
  <2>1. CASE <<r, "Refund">> = o
    <3>1. o[1] = r /\ o[2] = "Refund"
      BY <2>1
    <3> QED
      BY <1>2, <3>1
  <2>2. CASE <<r, "Refund">> # o
    BY <1>3, <2>2 DEF RefundOpen
  <2> QED
    BY <2>1, <2>2
<1>5. RefundOpen(r)' => RefundOpen(r)
  BY <1>2, <1>4, NothingBegun
<1>6. RefundAlone(r)
  BY DEF Exclusive
<1> QED
  BY <1>5, <1>6, RoadKept

\* A step that creates no row of a refund and begins none.
LEMMA RequestsAlone ==
  ASSUME Exclusive, UNCHANGED <<dir, work, paidOut>>,
         \A r \in Requests : row'[<<r, "Refund">>].state # "none" => row[<<r, "Refund">>].state # "none",
         \A r \in Requests :
           RefundOpen(r) /\ req[r].state \in RefundStates => req'[r].state \in RefundStates
  PROVE  Exclusive'
<1> SUFFICES ASSUME NEW r \in Requests PROVE RefundAlone(r)'
  BY DEF Exclusive
<1>1. RefundOpen(r)' => RefundOpen(r)
  BY DEF RefundOpen, RefundBeginning
<1>2. RefundAlone(r)
  BY DEF Exclusive
<1> QED
  BY <1>1, <1>2, RoadKept

\* A process takes up an operation that is no refund, or goes idle.
LEMMA WorkTaken ==
  ASSUME Shape, Exclusive, NEW w \in Workers, NEW s, work' = [work EXCEPT ![w] = s],
         s # Idle => s.op \in Ops /\ s.op[2] # "Refund",
         UNCHANGED <<dir, req, row, paidOut>>
  PROVE  Exclusive'
<1> SUFFICES ASSUME NEW r \in Requests PROVE RefundAlone(r)'
  BY DEF Exclusive
<1>1. row'[<<r, "Refund">>].state # "none" => RefundOpen(r)
  BY DEF RefundOpen
<1>2. RefundOpen(r)' => RefundOpen(r)
  BY <1>1, NothingBegun
<1>3. RefundAlone(r)
  BY DEF Exclusive
<1> QED
  BY <1>2, <1>3, RoadKept

\* One request moves to st, or only its other columns change.
LEMMA StateOnRoad ==
  ASSUME Shape, NEW r \in Requests, NEW st,
         \/ req' = req
         \/ req' = [req EXCEPT ![r].state = st]
         \/ req' = [req EXCEPT ![r].observed = TRUE]
         \/ req' = [req EXCEPT ![r].completion = TRUE]
         \/ req' = [req EXCEPT ![r].state = st, ![r].observed = TRUE]
         \/ \E n : req' = [req EXCEPT ![r].state = st, ![r].note = n],
         RefundOpen(r) /\ req[r].state \in RefundStates => st \in RefundStates
  PROVE  \A q \in Requests :
           RefundOpen(q) /\ req[q].state \in RefundStates => req'[q].state \in RefundStates
<1> SUFFICES ASSUME NEW q \in Requests, RefundOpen(q), req[q].state \in RefundStates
             PROVE  req'[q].state \in RefundStates
  OBVIOUS
<1>1. req \in [Requests -> ReqType] /\ req[q] \in ReqType /\ req[r] \in ReqType
  BY DEF Shape
<1>2. CASE q = r
  <2>1. req'[r].state = req[r].state \/ req'[r].state = st
    BY <1>1 DEF ReqType
  <2> QED
    BY <1>2, <2>1
<1>3. CASE q # r
  <2>1. req'[q] = req[q]
    BY <1>1, <1>3
  <2> QED
    BY <2>1
<1> QED
  BY <1>2, <1>3

-----------------------------------------------------------------------------
(* The steps of a request's life *)

LEMMA RequestOnRoad ==
  ASSUME IInv, Exclusive, ~ResumesIntoRefund, NEW r \in Requests,
         \/ ParkForDestinationBounds(r) \/ ParkDeposit(r) \/ ResumeManualReview(r)
         \/ ConfirmDestination(r)
         \/ RecordPayoutCompletionSubmitted(r) \/ MarkPayoutCompletionConfirmed(r)
  PROVE  Exclusive'
<1>1. Shape
  BY DEF IInv
<1>2. UNCHANGED <<dir, row, work, paidOut>>
  BY DEF ParkForDestinationBounds, ParkDeposit, ResumeManualReview, ConfirmDestination,
         RecordPayoutCompletionSubmitted, MarkPayoutCompletionConfirmed, chainVars
<1>3. \A q \in Requests :
        RefundOpen(q) /\ req[q].state \in RefundStates => req'[q].state \in RefundStates
  <2>1. CASE ParkForDestinationBounds(r) \/ ParkDeposit(r)
    <3>1. req[r].state = "SourceFinalized"
          /\ \E n : req' = [req EXCEPT ![r].state = "ManualReview", ![r].note = n]
      BY <2>1 DEF ParkForDestinationBounds, ParkDeposit
    <3> QED
      BY <1>1, <3>1, StateOnRoad DEF RefundStates
  <2>2. CASE ResumeManualReview(r)
    <3>1. ~RefundOpen(r)
      BY <2>2 DEF ResumeManualReview, ResumesIntoRefund, RefundOpen
    <3>2. \E n : req' = [req EXCEPT ![r].state = "SourceFinalized", ![r].note = n]
      BY <2>2 DEF ResumeManualReview
    <3> QED
      BY <1>1, <3>1, <3>2, StateOnRoad
  <2>3. CASE ConfirmDestination(r)
    <3>1. req[r].state = "DestinationSubmitted"
          /\ req' = [req EXCEPT ![r].state = "DestinationConfirmed"]
      BY <2>3 DEF ConfirmDestination
    <3> QED
      BY <1>1, <3>1, StateOnRoad DEF RefundStates
  <2>4. CASE MarkPayoutCompletionConfirmed(r)
    <3>1. req[r].state = "DestinationConfirmed" /\ req' = [req EXCEPT ![r].state = "Settled"]
      BY <2>4 DEF MarkPayoutCompletionConfirmed
    <3> QED
      BY <1>1, <3>1, StateOnRoad DEF RefundStates
  <2>5. CASE RecordPayoutCompletionSubmitted(r)
    <3>1. req' = [req EXCEPT ![r].completion = TRUE]
      BY <2>5 DEF RecordPayoutCompletionSubmitted
    <3> QED
      BY <1>1, <3>1, StateOnRoad
  <2> QED
    BY <2>1, <2>2, <2>3, <2>4, <2>5
<1> QED
  BY <1>2, <1>3, RequestsAlone

\* The destination pays only a request that no refund was begun for.
LEMMA PayOnRoad ==
  ASSUME IInv, Exclusive, NEW r \in Requests, PayDestination(r)
  PROVE  Exclusive' /\ ~RefundOpen(r)
<1>1. /\ FromRobinhood(r) /\ req[r].state = "SourceFinalized"
      /\ req' = [req EXCEPT ![r].state = "DestinationSubmitted"]
      /\ paidOut' = paidOut \cup {r} /\ UNCHANGED <<dir, row, work>>
  BY DEF PayDestination
<1>2. ~RefundOpen(r)
  BY <1>1 DEF Exclusive, RefundAlone, RefundStates
<1>3. ASSUME NEW q \in Requests PROVE RefundAlone(q)'
  <2>1. RefundOpen(q)' = RefundOpen(q)
    BY <1>1 DEF RefundOpen, RefundBeginning
  <2>2. RefundAlone(q)
    BY DEF Exclusive
  <2>3. CASE q = r
    BY <1>1, <1>2, <2>1, <2>3 DEF RefundAlone, FromRobinhood
  <2>4. CASE q # r
    <3>1. req'[q] = req[q] /\ (q \in paidOut' => q \in paidOut)
      BY <1>1, <2>4 DEF IInv, Shape
    <3> QED
      BY <1>1, <2>1, <2>2, <3>1 DEF RefundAlone, FromRobinhood
  <2> QED
    BY <2>3, <2>4
<1> QED
  BY <1>2, <1>3 DEF Exclusive

\* begin_refund begins with a parked deposit that was not paid.
LEMMA CheckRefundOnRoad ==
  ASSUME IInv, Exclusive, NEW w \in Workers, NEW r \in Requests, CheckRefund(w, r)
  PROVE  Exclusive'
<1> DEFINE s == [step |-> "begin", op |-> <<r, "Refund">>, auth |-> Payload]
<1>1. /\ FromRobinhood(r) /\ req[r].state = "ManualReview" /\ r \notin paidOut
      /\ work' = [work EXCEPT ![w] = s] /\ UNCHANGED <<ledgerVars, chainVars>>
  BY DEF CheckRefund, Begin, Step
<1>2. UNCHANGED <<dir, req, row, paidOut>> /\ Shape
  BY <1>1 DEF ledgerVars, chainVars, IInv
<1>3. s.op = <<r, "Refund">> /\ <<r, "Refund">>[2] = "Refund"
  OBVIOUS
<1> HIDE DEF s
<1>4. ASSUME NEW q \in Requests PROVE RefundAlone(q)'
  <2>1. CASE q = r
    BY <1>1, <1>2, <2>1 DEF RefundAlone, FromRobinhood, RefundStates
  <2>2. CASE q # r
    <3>1. RefundOpen(q)' => RefundOpen(q)
      <4>1. SUFFICES ASSUME RefundBeginning(q)' PROVE RefundBeginning(q)
        BY <1>2 DEF RefundOpen
      <4>2. PICK v \in Workers : work'[v] # Idle /\ work'[v].op = <<q, "Refund">>
        BY <4>1 DEF RefundBeginning, Workers
      <4>3. v # w
        <5>1. work'[w] = s
          BY <1>1, <1>2 DEF Shape
        <5> QED
          BY <1>3, <2>2, <4>2, <5>1
      <4>4. work'[v] = work[v]
        BY <1>1, <1>2, <4>3 DEF Shape
      <4> QED
        BY <4>2, <4>4 DEF RefundBeginning
    <3>2. RefundAlone(q)
      BY DEF Exclusive
    <3> QED
      BY <1>2, <3>1, <3>2, RoadKept
  <2> QED
    BY <2>1, <2>2
<1> QED
  BY <1>4 DEF Exclusive

LEMMA BeginOnRoad ==
  ASSUME IInv, Exclusive, NEW r \in Requests,
         \/ AuthorizePayout(r) \/ AuthorizeSettlement(r)
         \/ \E w \in Workers : BeginTreasuryWithdraw(w, r)
  PROVE  Exclusive'
<1>1. Shape
  BY DEF IInv
<1>2. UNCHANGED <<ledgerVars, chainVars>>
  BY DEF AuthorizePayout, AuthorizeSettlement, BeginTreasuryWithdraw
<1>3. UNCHANGED <<dir, req, row, paidOut>>
  BY <1>2 DEF ledgerVars, chainVars
<1>4. ASSUME NEW w \in Workers, NEW k \in Kinds \ {"Refund"}, NEW step, NEW a,
             Step(w, [step |-> step, op |-> <<r, k>>, auth |-> a])
      PROVE  Exclusive'
  <2> DEFINE s == [step |-> step, op |-> <<r, k>>, auth |-> a]
  <2>1. s.op \in Ops /\ s.op[2] # "Refund"
    BY OpMade
  <2>2. work' = [work EXCEPT ![w] = s]
    BY <1>4 DEF Step
  <2> HIDE DEF s
  <2> QED
    BY <1>1, <1>3, <2>1, <2>2, WorkTaken
<1>5. CASE AuthorizePayout(r)
  BY <1>4, <1>5 DEF AuthorizePayout, Begin, Workers, Kinds
<1>6. CASE AuthorizeSettlement(r)
  BY <1>4, <1>6 DEF AuthorizeSettlement, Begin, Workers, Kinds
<1>7. CASE \E w \in Workers : BeginTreasuryWithdraw(w, r)
  <2>1. PICK w \in Workers : BeginTreasuryWithdraw(w, r)
    BY <1>7
  <2> DEFINE o == <<r, "TreasuryWithdraw">>
  <2>2. Begin(w, o) \/ Step(w, [step |-> "collect", op |-> o, auth |-> row[o].auth])
    BY <2>1 DEF BeginTreasuryWithdraw
  <2> QED
    BY <1>4, <2>2 DEF Begin, Kinds
<1> QED
  BY <1>5, <1>6, <1>7

-----------------------------------------------------------------------------
(* The steps of a process *)

\* The steps of work in hand that leave the requests alone.
LEMMA HandOnRoad ==
  ASSUME IInv, Exclusive, NEW w \in Workers,
         \/ BeginRobinhoodTx(w) \/ RecordRobinhoodAuthorization(w)
         \/ AllocateRobinhoodNonce(w) \/ RecordRobinhoodSigned(w)
         \/ SendRawTransaction(w) \/ RecordRobinhoodBroadcast(w)
         \/ ReviewReverted(w) \/ VerifyOperationEffect(w)
  PROVE  Exclusive'
<1>1. Shape /\ work[w] # Idle /\ work[w].op \in Ops
  <2>1. Shape /\ work[w].step # "idle"
    BY DEF IInv, BeginRobinhoodTx, RecordRobinhoodAuthorization, AllocateRobinhoodNonce,
           RecordRobinhoodSigned, SendRawTransaction, RecordRobinhoodBroadcast, ReviewReverted,
           VerifyOperationEffect
  <2> QED
    BY <2>1, IdleStep, WorkFacts
<1> DEFINE o == work[w].op
<1>2. UNCHANGED <<dir, req, paidOut>>
  BY DEF BeginRobinhoodTx, RecordRobinhoodAuthorization, AllocateRobinhoodNonce,
         RecordRobinhoodSigned, SendRawTransaction, RecordRobinhoodBroadcast, ReviewReverted,
         VerifyOperationEffect, ledgerVars, chainVars
<1>3. \A p \in Ops : p # o => row'[p] = row[p]
  <2>1. row \in [Ops -> RowType]
    BY <1>1 DEF Shape
  <2> QED
    BY <2>1 DEF BeginRobinhoodTx, RecordRobinhoodAuthorization, AllocateRobinhoodNonce,
           RecordRobinhoodSigned, SendRawTransaction, RecordRobinhoodBroadcast, ReviewReverted,
           ReviewRow, RowTo, VerifyOperationEffect, ledgerVars
<1>4. PICK s : work' = [work EXCEPT ![w] = s] /\ (s # Idle => s.op = o)
  <2>1. ASSUME NEW s, Step(w, s), s = Idle \/ s.op = o
        PROVE  \E t : work' = [work EXCEPT ![w] = t] /\ (t # Idle => t.op = o)
    BY <2>1 DEF Step
  <2>2. ASSUME NEW st PROVE [work[w] EXCEPT !.step = st].op = o
    <3>1. work[w] \in WorkType /\ work[w] # Idle
      BY <1>1 DEF Shape
    <3> QED
      BY <3>1 DEF WorkType
  <2>3. [step |-> "pending", op |-> o].op = o
    OBVIOUS
  <2> HIDE DEF o
  <2>4. CASE BeginRobinhoodTx(w)
    BY <2>1, <2>2, <2>4 DEF BeginRobinhoodTx
  <2>5. CASE RecordRobinhoodAuthorization(w)
    BY <2>1, <2>3, <2>5 DEF RecordRobinhoodAuthorization, o
  <2>6. CASE AllocateRobinhoodNonce(w)
    BY <2>1, <2>2, <2>6 DEF AllocateRobinhoodNonce
  <2>7. CASE RecordRobinhoodSigned(w) \/ RecordRobinhoodBroadcast(w)
    BY <2>1, <2>2, <2>7 DEF RecordRobinhoodSigned, RecordRobinhoodBroadcast, Done
  <2>8. CASE SendRawTransaction(w) \/ ReviewReverted(w) \/ VerifyOperationEffect(w)
    BY <2>1, <2>2, <2>8 DEF SendRawTransaction, ReviewReverted, VerifyOperationEffect
  <2> QED
    BY <2>4, <2>5, <2>6, <2>7, <2>8
<1> HIDE DEF o
<1>5. o \in Ops /\ work[w].op = o
  BY <1>1 DEF o
<1> QED
  BY <1>1, <1>2, <1>3, <1>4, <1>5, RowAndWork

\* The steps of work in hand that move its request.
LEMMA HandMovesRequest ==
  ASSUME IInv, Exclusive, NEW w \in Workers,
         \/ MarkRobinhoodRefundPending(w) \/ ParkReverted(w) \/ FailRebalance(w)
         \/ CompleteOperation(w) \/ ConfirmRebalance(w) \/ MarkObservationSettled(w)
  PROVE  Exclusive'
<1>1. Shape /\ work[w] # Idle /\ work[w].op \in Ops /\ Good(w, work[w])
  <2>1. Shape /\ work[w].step # "idle" /\ WorkGood
    BY DEF IInv, MarkRobinhoodRefundPending, ParkReverted, FailRebalance, CompleteOperation,
           ConfirmRebalance, MarkObservationSettled
  <2> QED
    BY <2>1, IdleStep, WorkFacts DEF WorkGood
<1>2. PICK o \in Ops : work[w].op = o
  BY <1>1
<1>3. o[1] \in Requests /\ o[2] \in Kinds
  BY OpFacts
<1>4. UNCHANGED <<dir, row, paidOut>>
  BY DEF MarkRobinhoodRefundPending, ParkReverted, FailRebalance, CompleteOperation,
         ConfirmRebalance, MarkObservationSettled, chainVars
<1>5. PICK s : work' = [work EXCEPT ![w] = s] /\ (s # Idle => s.op = o)
  <2>1. \A st : [work[w] EXCEPT !.step = st].op = o
    <3>1. work[w] \in WorkType /\ work[w] # Idle
      BY <1>1 DEF Shape
    <3> QED
      BY <1>2, <3>1 DEF WorkType
  <2> QED
    BY <1>2, <2>1 DEF MarkRobinhoodRefundPending, ParkReverted, FailRebalance, CompleteOperation,
                ConfirmRebalance, MarkObservationSettled, Done, Step
<1>6. \A r \in Requests :
        RefundOpen(r) /\ req[r].state \in RefundStates => req'[r].state \in RefundStates
  <2>1. RefundOpen(o[1]) => FromRobinhood(o[1])
    BY <1>3 DEF Exclusive, RefundAlone
  <2>2. CASE MarkRobinhoodRefundPending(w)
    <3>1. req' = req \/ req' = [req EXCEPT ![o[1]].state = "RefundPending"]
      BY <1>2, <2>2 DEF MarkRobinhoodRefundPending
    <3> QED
      BY <1>1, <1>3, <3>1, StateOnRoad DEF RefundStates
  <2>3. CASE MarkObservationSettled(w)
    <3>1. req' = [req EXCEPT ![o[1]].observed = TRUE]
      BY <1>2, <2>3 DEF MarkObservationSettled
    <3> QED
      BY <1>1, <1>3, <3>1, StateOnRoad
  <2>4. CASE ParkReverted(w)
    <3>1. OnReverted(o) /\ row[o].state # "none"
      BY <1>1, <1>2, <2>4 DEF ParkReverted, Good, Stopped
    <3>2. Fits(o)
      BY <3>1 DEF IInv, RowsGood, RowGood
    <3>3. CASE o[2] = "TreasuryWithdraw"
      <4>1. ~RefundOpen(o[1]) /\ \E st : req' = req \/ req' = [req EXCEPT ![o[1]].state = st]
        BY <2>1, <3>1, <3>2, <3>3 DEF OnReverted, RebalanceExecuted, Fits, FromRobinhood
      <4> QED
        BY <1>1, <1>3, <4>1, StateOnRoad
    <3>4. CASE o[2] # "TreasuryWithdraw"
      <4>1. req' = req \/ \E n : req' = [req EXCEPT ![o[1]].state = "ManualReview", ![o[1]].note = n]
        BY <3>1, <3>4 DEF OnReverted
      <4> QED
        BY <1>1, <1>3, <4>1, StateOnRoad DEF RefundStates
    <3> QED
      BY <3>3, <3>4
  <2>5. CASE CompleteOperation(w)
    <3>1. OnFinalized(o) /\ row[o].state # "none"
      BY <1>1, <1>2, <2>5 DEF CompleteOperation, Good
    <3>2. Fits(o)
      BY <3>1 DEF IInv, RowsGood, RowGood
    <3>3. CASE o[2] = "Payout"
      <4>1. ~RefundOpen(o[1])
        BY <2>1, <3>2, <3>3 DEF Fits, ToRobinhood, FromRobinhood
      <4>2. \E st : req' = req \/ req' = [req EXCEPT ![o[1]].state = st]
        BY <3>1, <3>3 DEF OnFinalized, PayoutSettled
      <4> QED
        BY <1>1, <1>3, <4>1, <4>2, StateOnRoad
    <3>4. CASE o[2] = "Settlement"
      <4>1. req' = req \/ (req[o[1]].state = "DestinationConfirmed"
                           /\ req' = [req EXCEPT ![o[1]].state = "Settled"])
        BY <3>1, <3>4 DEF OnFinalized, SettlementConfirmed
      <4>2. \/ req' = req
            \/ req' = [req EXCEPT ![o[1]].state = "Settled"] /\ req[o[1]].state \notin RefundStates
        BY <4>1 DEF RefundStates
      <4>3. CASE req' = req
        BY <4>3
      <4>4. CASE req' # req
        BY <1>1, <1>3, <4>2, <4>4, StateOnRoad
      <4> QED
        BY <4>3, <4>4
    <3>5. CASE o[2] = "Refund"
      <4>1. req' = req \/ req' = [req EXCEPT ![o[1]].state = "Refunded"]
        BY <3>1, <3>5 DEF OnFinalized, RefundConfirmed
      <4> QED
        BY <1>1, <1>3, <4>1, StateOnRoad DEF RefundStates
    <3>6. CASE o[2] = "TreasuryWithdraw"
      <4>1. ~RefundOpen(o[1])
        BY <2>1, <3>2, <3>6 DEF Fits, FromRobinhood
      <4>2. \E st : req' = req \/ req' = [req EXCEPT ![o[1]].state = st]
        BY <3>1, <3>6 DEF OnFinalized, RebalanceExecuted
      <4> QED
        BY <1>1, <1>3, <4>1, <4>2, StateOnRoad
    <3> QED
      BY <1>3, <3>3, <3>4, <3>5, <3>6 DEF Kinds
  <2>6. CASE FailRebalance(w) \/ ConfirmRebalance(w)
    <3>1. o[2] = "TreasuryWithdraw" /\ row[o].state # "none"
      BY <1>1, <1>2, <2>6 DEF FailRebalance, ConfirmRebalance, Good, Stopped
    <3>2. Fits(o)
      BY <3>1 DEF IInv, RowsGood, RowGood
    <3>3. ~RefundOpen(o[1])
      BY <2>1, <3>1, <3>2 DEF Fits, FromRobinhood
    <3>4. \E st : req' = req \/ req' = [req EXCEPT ![o[1]].state = st]
      BY <1>2, <2>6 DEF FailRebalance, ConfirmRebalance
    <3> QED
      BY <1>1, <1>3, <3>3, <3>4, StateOnRoad
  <2> QED
    BY <2>2, <2>3, <2>4, <2>5, <2>6
<1>7. row[o].state # "none" \/ (work[w] # Idle /\ work[w].op = o)
  BY <1>1, <1>2
<1>8. \A p \in Ops : p # o => row'[p] = row[p]
  BY <1>4
<1> QED
  BY <1>1, <1>4, <1>5, <1>6, <1>7, <1>8, RowAndWork

LEMMA StopOnRoad ==
  ASSUME IInv, Exclusive, NEW w \in Workers, Stop(w)
  PROVE  Exclusive'
<1>1. Shape /\ work' = [work EXCEPT ![w] = Idle] /\ UNCHANGED <<dir, req, row, paidOut>>
  BY DEF IInv, Stop, Done, Step, ledgerVars, chainVars
<1> QED
  BY <1>1, WorkTaken

\* The steps that take up an existing row.
LEMMA OperationOnRoad ==
  ASSUME IInv, Exclusive, NEW w \in Workers, NEW o \in Ops,
         \/ SignRefused(w, o) \/ SignAndSend(w, o) \/ Rebroadcast(w, o)
         \/ RecordRobinhoodReplacement(w, o) \/ GiveUpBroadcast(w, o) \/ PollReceipt(w, o)
  PROVE  Exclusive'
<1>1. Shape /\ row[o].state # "none" /\ work[w] = Idle /\ row \in [Ops -> RowType]
      /\ work \in [Workers -> WorkType]
  BY DEF IInv, Shape, SignRefused, SignAndSend, Rebroadcast, RecordRobinhoodReplacement,
         GiveUpBroadcast, PollReceipt, InFlight
<1>2. o[1] \in Requests
  BY OpFacts
<1>3. UNCHANGED <<dir, paidOut>>
  BY DEF SignRefused, SignAndSend, Rebroadcast, RecordRobinhoodReplacement, GiveUpBroadcast,
         PollReceipt, ledgerVars, chainVars
<1>4. \A p \in Ops : p # o => row'[p] = row[p]
  BY <1>1 DEF SignRefused, SignAndSend, Rebroadcast, RecordRobinhoodReplacement, GiveUpBroadcast,
         PollReceipt, ResolveOrReview, Reconcile, ReviewRow, RowTo, ledgerVars
<1>5. \A r \in Requests :
        RefundOpen(r) /\ req[r].state \in RefundStates => req'[r].state \in RefundStates
  <2>1. \/ req' = req
        \/ /\ req[o[1]].state = "DestinationConfirmed"
           /\ req' = [req EXCEPT ![o[1]].state = "Settled", ![o[1]].observed = TRUE]
    BY DEF SignRefused, SignAndSend, Rebroadcast, RecordRobinhoodReplacement, GiveUpBroadcast,
         PollReceipt, ResolveOrReview, SettlementProven, Reconcile, ledgerVars
  <2> QED
    BY <1>1, <1>2, <2>1, StateOnRoad DEF RefundStates
<1>6. PICK s : work' = [work EXCEPT ![w] = s] /\ (s # Idle => s.op = o)
  <2>1. \A st : [step |-> st, op |-> o].op = o
    OBVIOUS
  <2>2. work = [work EXCEPT ![w] = Idle]
    BY <1>1
  <2>3. work' = work \/ \E st : Step(w, [step |-> st, op |-> o]) \/ Step(w, Idle)
    BY DEF SignRefused, SignAndSend, Rebroadcast, RecordRobinhoodReplacement, GiveUpBroadcast,
           PollReceipt
  <2> QED
    BY <2>1, <2>2, <2>3 DEF Step
<1>7. row[o].state # "none" \/ (work[w] # Idle /\ work[w].op = o)
  BY <1>1
<1>8. Shape
  BY <1>1
<1> QED
  BY <1>3, <1>4, <1>5, <1>6, <1>7, <1>8, RowAndWork

LEMMA ReconcileOnRoad ==
  ASSUME IInv, Exclusive, NEW o \in Ops, ReconcileSettlement(o)
  PROVE  Exclusive'
<1>1. /\ Shape /\ o[1] \in Requests /\ o[2] = "Settlement" /\ UNCHANGED <<dir, work, paidOut>>
      /\ row' = [row EXCEPT ![o].state = "Finalized"]
      /\ req[o[1]].state = "DestinationConfirmed"
      /\ req' = [req EXCEPT ![o[1]].state = "Settled", ![o[1]].observed = TRUE]
  BY OpFacts DEF IInv, ReconcileSettlement, SettlementProven, Reconcile, chainVars
<1>2. \A r \in Requests :
        RefundOpen(r) /\ req[r].state \in RefundStates => req'[r].state \in RefundStates
  BY <1>1, StateOnRoad DEF RefundStates
<1>3. ASSUME NEW r \in Requests PROVE row'[<<r, "Refund">>] = row[<<r, "Refund">>]
  <2>1. <<r, "Refund">> \in Ops /\ <<r, "Refund">>[2] = "Refund"
    BY OpMade DEF Kinds
  <2>2. <<r, "Refund">> # o
    BY <1>1, <2>1
  <2> QED
    BY <1>1, <2>1, <2>2 DEF Shape
<1> QED
  BY <1>1, <1>2, <1>3, RequestsAlone

\* Steps of the chain, and of nonces.
LEMMA ChainOnRoad ==
  ASSUME IInv, Exclusive,
         \/ \E w \in Workers : ReconcileNonce(w)
         \/ \E t \in pool : Evict(t)
         \/ Tick \/ RotateSigners \/ TogglePause
         \/ Mine \/ MineForeign \/ Deepen \/ Reorg \/ UNCHANGED vars
  PROVE  Exclusive'
<1>1. UNCHANGED <<dir, req, row, work, paidOut>>
  BY DEF ReconcileNonce, Evict, Tick, RotateSigners, TogglePause, Mine, MineForeign, Deepen, Reorg,
         vars, ledgerVars, chainVars
<1> QED
  BY <1>1, RequestsAlone

LEMMA ExclusiveKept ==
  ASSUME IInv, Exclusive, [~ResumesIntoRefund]_vars, [Next]_vars
  PROVE  Exclusive'
BY RequestOnRoad, PayOnRoad, CheckRefundOnRoad, BeginOnRoad, HandOnRoad, HandMovesRequest,
   StopOnRoad, OperationOnRoad, ReconcileOnRoad, ChainOnRoad DEF Next, DaemonStep

LEMMA ExclusiveHolds == Spec /\ [][~ResumesIntoRefund]_vars => [](IInv /\ Exclusive)
<1>1. Init => Exclusive
  <2> SUFFICES ASSUME Init, NEW r \in Requests PROVE RefundAlone(r)
    BY DEF Exclusive
  <2>1. <<r, "Refund">> \in Ops
    BY OpMade DEF Kinds
  <2>2. row[<<r, "Refund">>].state = "none"
    BY <2>1 DEF Init, NoRow
  <2>3. ~RefundBeginning(r) /\ r \notin paidOut
    BY DEF Init, RefundBeginning
  <2> QED
    BY <2>2, <2>3 DEF RefundAlone, RefundOpen
<1>2. IInv /\ Exclusive /\ [~ResumesIntoRefund]_vars /\ [Next]_vars => Exclusive'
  BY ExclusiveKept
<1> QED
  BY <1>1, <1>2, InvariantHolds, PTL DEF Spec

-----------------------------------------------------------------------------
(* The refinement *)

AtMostOnce == \A r \in Requests : Outcomes[r] \in {{}, {"paid"}, {"returned"}}

\* Whatever the chain executed for good has a row, of a request it fits.
LEMMA ExecutedFits ==
  ASSUME IInv, NEW o \in Ops, ExecutedForGood(o)
  PROVE  row[o].state # "none" /\ Fits(o)
<1>1. PICK i \in 1 .. final : mined[i].op = o
  BY DEF ExecutedForGood
<1>2. i \in DOMAIN mined /\ o # ForeignOp
  BY MinedFacts, OpFacts DEF IInv
<1>3. Accounted(mined[i])
  BY <1>1, <1>2 DEF IInv, SentAccounted
<1>4. row[o].state # "none"
  BY <1>1, <1>3 DEF Accounted, Late
<1> QED
  BY <1>4 DEF IInv, RowsGood, RowGood

LEMMA EndedOnce ==
  ASSUME IInv, Exclusive
  PROVE  AtMostOnce
<1> SUFFICES ASSUME NEW r \in Requests PROVE Outcomes[r] \in {{}, {"paid"}, {"returned"}}
  BY DEF AtMostOnce
<1>1. /\ <<r, "Payout">> \in Ops /\ <<r, "Payout">>[1] = r /\ <<r, "Payout">>[2] = "Payout"
      /\ <<r, "Refund">> \in Ops
  BY OpMade DEF Kinds
<1>2. ExecutedForGood(<<r, "Refund">>) => FromRobinhood(r) /\ r \notin paidOut
  BY <1>1, ExecutedFits DEF Exclusive, RefundAlone, RefundOpen
<1>3. ExecutedForGood(<<r, "Payout">>) => ToRobinhood(r)
  BY <1>1, ExecutedFits DEF Fits
<1>4. ~(ToRobinhood(r) /\ FromRobinhood(r))
  BY DEF ToRobinhood, FromRobinhood
<1> QED
  BY <1>2, <1>3, <1>4 DEF Outcomes

\* A step in which at most one deposit gains an outcome.
LEMMA OneEnds ==
  ASSUME AtMostOnce, AtMostOnce', NEW d \in Requests,
         \A r \in Requests : r # d => Outcomes'[r] = Outcomes[r],
         Outcomes[d] \subseteq Outcomes'[d]
  PROVE  [Deposit!Next]_Outcomes
<1>1. Outcomes[d] \in {{}, {"paid"}, {"returned"}} /\ Outcomes'[d] \in {{}, {"paid"}, {"returned"}}
  BY DEF AtMostOnce
<1>2. Outcomes = [r \in Requests |-> Outcomes[r]] /\ Outcomes' = [r \in Requests |-> Outcomes'[r]]
  BY DEF Outcomes
<1> HIDE DEF Outcomes
<1>3. CASE Outcomes'[d] = Outcomes[d]
  <2>1. \A r \in Requests : Outcomes'[r] = Outcomes[r]
    BY <1>3
  <2> QED
    BY <1>2, <2>1
<1>4. CASE Outcomes'[d] # Outcomes[d]
  <2>1. PICK way \in {"paid", "returned"} : Outcomes[d] = {} /\ Outcomes'[d] = {way}
    BY <1>1, <1>4
  <2>2. Outcomes' = [Outcomes EXCEPT ![d] = {way}]
    BY <1>2, <2>1
  <2>3. Deposit!End(d, way)
    BY <2>1, <2>2 DEF Deposit!End
  <2> QED
    BY <2>3 DEF Deposit!Next
<1> QED
  BY <1>3, <1>4

\* The same, read off the chains: all operations executed anew are of d.
LEMMA OneExecutes ==
  ASSUME AtMostOnce, AtMostOnce', NEW d \in Requests,
         \A o \in Ops : ExecutedForGood(o) => ExecutedForGood(o)',
         \A o \in Ops : o[1] # d => (ExecutedForGood(o)' => ExecutedForGood(o)),
         paidOut \subseteq paidOut', paidOut' \subseteq paidOut \cup {d}
  PROVE  [Deposit!Next]_Outcomes
<1>1. ASSUME NEW r \in Requests
      PROVE  /\ <<r, "Payout">> \in Ops /\ <<r, "Payout">>[1] = r
             /\ <<r, "Refund">> \in Ops /\ <<r, "Refund">>[1] = r
  BY OpMade DEF Kinds
<1>2. ASSUME NEW r \in Requests, r # d PROVE Outcomes'[r] = Outcomes[r]
  <2>1. /\ ExecutedForGood(<<r, "Payout">>)' <=> ExecutedForGood(<<r, "Payout">>)
        /\ ExecutedForGood(<<r, "Refund">>)' <=> ExecutedForGood(<<r, "Refund">>)
        /\ r \in paidOut' <=> r \in paidOut
    BY <1>1, <1>2
  <2> QED
    BY <2>1 DEF Outcomes
<1>3. Outcomes[d] \subseteq Outcomes'[d]
  <2>1. /\ ExecutedForGood(<<d, "Payout">>) => ExecutedForGood(<<d, "Payout">>)'
        /\ ExecutedForGood(<<d, "Refund">>) => ExecutedForGood(<<d, "Refund">>)'
        /\ d \in paidOut => d \in paidOut'
    BY <1>1
  <2> QED
    BY <2>1 DEF Outcomes
<1> QED
  BY <1>2, <1>3, OneEnds

\* Steps that bury nothing and pay nothing.
LEMMA NothingEnds ==
  ASSUME Shape, final' = final, paidOut' = paidOut, \A i \in 1 .. final : mined'[i] = mined[i]
  PROVE  Outcomes' = Outcomes
BY DEF Outcomes, ExecutedForGood

LEMMA DeepenEnds ==
  ASSUME Shape, AtMostOnce, AtMostOnce', Deepen
  PROVE  [Deposit!Next]_Outcomes
<1> DEFINE p == mined[final + 1].op
<1>1. final' = final + 1 /\ mined' = mined /\ paidOut' = paidOut /\ final < Len(mined)
  BY DEF Deepen
<1>2. final \in Nat /\ mined[final + 1] \in MinedType
  BY <1>1, MinedFacts
<1>3. \A o \in Ops : ExecutedForGood(o) => ExecutedForGood(o)'
  BY <1>1, <1>2, FinalStays
<1>4. \A o \in Ops : o # p => (ExecutedForGood(o)' => ExecutedForGood(o))
  BY <1>1, <1>2 DEF ExecutedForGood
<1>5. p \in Ops \/ p = ForeignOp
  BY <1>2 DEF MinedType
<1> HIDE DEF p
<1>6. CASE p \in Ops
  <2>1. p[1] \in Requests
    BY <1>6, OpFacts
  <2>2. \A o \in Ops : o[1] # p[1] => (ExecutedForGood(o)' => ExecutedForGood(o))
    BY <1>4
  <2> QED
    BY <1>1, <1>3, <2>1, <2>2, OneExecutes
<1>7. CASE p = ForeignOp
  <2>1. \A o \in Ops : ExecutedForGood(o)' <=> ExecutedForGood(o)
    BY <1>3, <1>4, <1>7, OpFacts
  <2>2. \A r \in Requests : <<r, "Payout">> \in Ops /\ <<r, "Refund">> \in Ops
    BY OpMade DEF Kinds
  <2>3. Outcomes' = Outcomes
    BY <1>1, <2>1, <2>2 DEF Outcomes
  <2> QED
    BY <2>3
<1> QED
  BY <1>5, <1>6, <1>7

LEMMA StepEnds ==
  ASSUME Shape, AtMostOnce, AtMostOnce', [Next]_vars
  PROVE  [Deposit!Next]_Outcomes
<1>1. /\ mined \in Seq(MinedType) /\ Len(mined) \in Nat /\ final \in Nat /\ final <= Len(mined)
  BY MinedFacts
<1>2. CASE Deepen
  BY <1>2, DeepenEnds
<1>3. CASE \E r \in Requests : PayDestination(r)
  <2>1. PICK r \in Requests : PayDestination(r)
    BY <1>3
  <2>2. UNCHANGED <<mined, final>> /\ paidOut' = paidOut \cup {r}
    BY <2>1 DEF PayDestination
  <2>3. \A o \in Ops : ExecutedForGood(o)' <=> ExecutedForGood(o)
    BY <2>2 DEF ExecutedForGood
  <2> QED
    BY <2>2, <2>3, OneExecutes
<1>4. CASE UNCHANGED <<mined, final, paidOut>>
  BY <1>4, NothingEnds
<1>5. CASE Mine \/ MineForeign
  <2>1. PICK m : mined' = Append(mined, m) /\ UNCHANGED <<final, paidOut>>
    BY <1>5 DEF Mine, MineForeign
  <2>2. \A i \in 1 .. final : mined'[i] = mined[i]
    BY <1>1, <2>1
  <2> QED
    BY <2>1, <2>2, NothingEnds
<1>6. CASE Reorg
  <2>1. mined' = SubSeq(mined, 1, Len(mined) - 1) /\ UNCHANGED <<final, paidOut>> /\ final < Len(mined)
    BY <1>6 DEF Reorg
  <2>2. \A i \in 1 .. Len(mined) - 1 : mined'[i] = mined[i]
    BY <1>1, <2>1, SubSeqProperties
  <2>3. \A i \in 1 .. final : mined'[i] = mined[i]
    BY <1>1, <2>1, <2>2
  <2> QED
    BY <2>1, <2>3, NothingEnds
<1>7. \/ Deepen \/ Mine \/ MineForeign \/ Reorg \/ UNCHANGED <<mined, final, paidOut>>
      \/ \E r \in Requests : PayDestination(r)
  <2>1. ASSUME NEW r \in Requests,
               \/ AuthorizePayout(r) \/ AuthorizeSettlement(r) \/ ParkForDestinationBounds(r)
               \/ ParkDeposit(r) \/ ResumeManualReview(r) \/ ConfirmDestination(r)
               \/ RecordPayoutCompletionSubmitted(r) \/ MarkPayoutCompletionConfirmed(r)
        PROVE  UNCHANGED <<mined, final, paidOut>>
    BY <2>1 DEF AuthorizePayout, AuthorizeSettlement, ParkForDestinationBounds, ParkDeposit,
         ResumeManualReview, ConfirmDestination, RecordPayoutCompletionSubmitted,
         MarkPayoutCompletionConfirmed, chainVars
  <2>2. ASSUME NEW w \in Workers, NEW r \in Requests,
               CheckRefund(w, r) \/ BeginTreasuryWithdraw(w, r)
        PROVE  UNCHANGED <<mined, final, paidOut>>
    BY <2>2 DEF CheckRefund, BeginTreasuryWithdraw, chainVars
  <2>3. ASSUME NEW w \in Workers,
               DaemonStep(w) \/ MarkRobinhoodRefundPending(w) \/ Stop(w) \/ ReconcileNonce(w)
        PROVE  UNCHANGED <<mined, final, paidOut>>
    BY <2>3 DEF DaemonStep, BeginRobinhoodTx, RecordRobinhoodAuthorization,
         AllocateRobinhoodNonce, RecordRobinhoodSigned, SendRawTransaction,
         RecordRobinhoodBroadcast, ReviewReverted, ParkReverted, VerifyOperationEffect,
         CompleteOperation, MarkObservationSettled, MarkRobinhoodRefundPending, Stop,
         FailRebalance, ConfirmRebalance,
         ReconcileNonce, chainVars
  <2>4. ASSUME NEW w \in Workers, NEW o \in Ops,
               \/ SignRefused(w, o) \/ SignAndSend(w, o) \/ Rebroadcast(w, o)
               \/ RecordRobinhoodReplacement(w, o) \/ GiveUpBroadcast(w, o) \/ PollReceipt(w, o)
        PROVE  UNCHANGED <<mined, final, paidOut>>
    BY <2>4 DEF SignRefused, SignAndSend, Rebroadcast, RecordRobinhoodReplacement,
         GiveUpBroadcast, PollReceipt, chainVars
  <2>5. ASSUME \/ \E o \in Ops : ReconcileSettlement(o)
               \/ \E t \in pool : Evict(t)
               \/ Tick \/ RotateSigners \/ TogglePause \/ UNCHANGED vars
        PROVE  UNCHANGED <<mined, final, paidOut>>
    BY <2>5 DEF ReconcileSettlement, Evict, Tick, RotateSigners, TogglePause, vars, chainVars
  <2> QED
    BY <2>1, <2>2, <2>3, <2>4, <2>5 DEF Next
<1> QED
  BY <1>2, <1>3, <1>4, <1>5, <1>6, <1>7

\* Settlement implements DepositOutcome for every number of requests, processes
\* and faults, in every behaviour in which no request is resumed while a refund
\* of it is between its checks and its row: a request ends once, paid or
\* returned, and its end is never undone. Of all the interleavings of the
\* specification, that of begin_refund with resume_manual_review_inbound is thus
\* the only one that can make a request end twice.
THEOREM DepositsEndOnce == Spec /\ [][~ResumesIntoRefund]_vars => EndsOnce
<1>1. Init => Deposit!Init
  BY DEF Init, Outcomes, ExecutedForGood, Deposit!Init
<1>2. IInv /\ Exclusive => AtMostOnce
  BY EndedOnce
<1>3. IInv /\ AtMostOnce /\ AtMostOnce' /\ [Next]_vars => [Deposit!Next]_Outcomes
  BY StepEnds DEF IInv
<1>4. Spec /\ [][~ResumesIntoRefund]_vars => [](IInv /\ Exclusive)
  BY ExclusiveHolds
<1> QED
  BY <1>1, <1>2, <1>3, <1>4, PTL DEF Spec, EndsOnce, Deposit!Spec
=============================================================================
