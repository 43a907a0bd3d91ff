--------------------------- MODULE VaultPoolProofs ---------------------------
(***************************************************************************)
(* Proofs about VaultPool, for any number of coins, payouts, refunds and   *)
(* splits: the service never signs two spends of one coin, unless it       *)
(* revoked one; every reserved coin has a holder; no spent coin is         *)
(* offered; and money moves one way.  The amounts play no part: of rows and payouts it is     *)
(* known that they are records, and the argument is about who holds which  *)
(* coin.                                                                   *)
(***************************************************************************)
EXTENDS VaultPool, TLAPS

RowShape(x) ==
    x = [state |-> x.state, amount |-> x.amount, confs |-> x.confs, by |-> x.by,
         spentBy |-> x.spentBy, hold |-> x.hold]
PayShape(x) ==
    x = [state |-> x.state, inputs |-> x.inputs, change |-> x.change, confs |-> x.confs,
         depth |-> x.depth]

RowsTyped ==
    /\ row = [c \in Coins |-> row[c]]
    /\ \A c \in Coins : /\ RowShape(row[c]) /\ row[c].state \in RowStates
                        /\ row[c].by \in Requests \cup {NoRequest}

PaysTyped ==
    /\ pay = [r \in Requests |-> pay[r]]
    /\ \A r \in Requests : /\ PayShape(pay[r]) /\ pay[r].state \in PayStates
                           /\ pay[r].inputs \subseteq Coins

SplitRow == [state : SplitStates, source : Coins \cup {NoCoin}, txid : BOOLEAN,
             missing : BOOLEAN, watched : BOOLEAN]

WorkSteps == {"idle", "planned", "reserved", "built", "signed", "sent"}

NodeTyped == node \in [Txs -> -1..MinConfirmations]

WorkTyped ==
    /\ work \in [step : WorkSteps, request : Requests \cup {NoRequest}, inputs : SUBSET Coins]
    /\ work.step # "idle" => work.request \in Requests \ Refunds

SplitsTyped ==
    /\ split \in [Splits -> SplitRow]
    /\ held \subseteq Splits /\ probed \in [Splits -> {"no", "built", "absent"}]
    /\ revoked \subseteq Splits

Typed ==
    NodeTyped /\ RowsTyped /\ PaysTyped /\ WorkTyped /\ SplitsTyped /\ leaked \subseteq Coins

\* A coin some request has taken, and one a transaction of ours has spent.
Taken(c) == row[c].by # NoRequest
Gone(c) == row[c].state = "Spent" /\ row[c].spentBy # NoTx

InHand == IF work.step = "reserved" THEN work.inputs ELSE {}

\* Who holds a taken coin, and until when.
HoldsFit ==
    /\ \A c \in Coins : Taken(c) => row[c].state \in {"Reserved", "Spent"}
    /\ \A c \in Coins : Taken(c) /\ pay[row[c].by].state \notin Closed => row[c].state = "Reserved"
    /\ \A c \in Coins : row[c].state = "Reserved" =>
         /\ Taken(c) /\ pay[row[c].by].state \notin Closed
         /\ c \in pay[row[c].by].inputs \/ c \in leaked \/ c \in InHand
    /\ \A c \in leaked : Taken(c)
    /\ \A r \in Requests : \A c \in pay[r].inputs : row[c].by = r
    /\ \A r \in Requests : pay[r].state = "none" => pay[r].inputs = {}

\* What the daemon relies on between two calls of one payout.
WorkFits ==
    /\ work.step \in {"planned", "reserved"} => pay[work.request].state = "none"
    /\ work.step = "reserved" => \A c \in work.inputs : row[c].by = work.request
    /\ work.step = "built" => pay[work.request].state = "Built"

\* A split not revoked has its source for itself.
Under == {"Built", "Signed", "Broadcast", "Confirmed"}

ClaimsFit ==
    /\ \A s \in Splits \ revoked : split[s].state \in Under =>
         split[s].source \in Coins /\ ~Taken(split[s].source)
    /\ \A s \in Splits \ revoked : split[s].state \in {"Broadcast", "Confirmed"} =>
         Gone(split[s].source)
    /\ \A s, t \in Splits \ revoked :
         s # t /\ split[s].state \in Under /\ split[t].state \in Under =>
           split[s].source # split[t].source

\* What the node or a sender may have of it, and what an abandon knew.
SentFit ==
    /\ \A s \in Splits \ revoked : s \in held \/ Known(SplitTx(s)) =>
         split[s].state \in {"Signed", "Broadcast", "Confirmed"}
    /\ \A s \in Splits : split[s].state \in {"none", "Built"} =>
         ~split[s].txid /\ probed[s] # "absent"
    /\ \A s \in Splits : split[s].state = "Abandoned" /\ split[s].txid => s \in revoked

\* The calls of the refunds' handlers name real coins.
EInv == errand \in [Refunds -> [step : {"idle", "planned", "sent"}, inputs : SUBSET Coins]]

\* The inductive invariant.
VInv == Typed /\ HoldsFit /\ WorkFits /\ ClaimsFit /\ SentFit

-----------------------------------------------------------------------------
(* Records and kinds.                                                       *)

\* The transactions of a payout and of a split are no others.
LEMMA Kinds ==
    /\ \A r \in Requests : PayTx(r) \in Txs /\ PayTx(r).kind = "pay" /\ PayTx(r).n = r
    /\ \A s \in Splits : SplitTx(s) \in Txs /\ SplitTx(s).kind = "split" /\ SplitTx(s).n = s
    /\ \A r : PayTx(r) # NoTx
    /\ \A s : SplitTx(s) # NoTx
    /\ \A s, t : SplitTx(s) = SplitTx(t) => s = t
    /\ \A r, s : PayTx(r) # SplitTx(s)
BY DEF PayTx, SplitTx, RootTx, Txs, NoTx

\* What a rewrite of one row leaves of the columns the argument looks at.
Fields(x, state, by, spentBy) ==
    RowShape(x) /\ x.state = state /\ x.by = by /\ x.spentBy = spentBy

\* A rewrite of one to three columns, written out.
LEMMA RowState ==
    ASSUME NEW x, RowShape(x), NEW st, NEW y, y = [x EXCEPT !.state = st]
    PROVE  y = [state |-> st, amount |-> x.amount, confs |-> x.confs, by |-> x.by,
                spentBy |-> x.spentBy, hold |-> x.hold]
BY DEF RowShape

LEMMA RowHold ==
    ASSUME NEW x, RowShape(x), NEW h, NEW y, y = [x EXCEPT !.hold = h]
    PROVE  y = [state |-> x.state, amount |-> x.amount, confs |-> x.confs, by |-> x.by,
                spentBy |-> x.spentBy, hold |-> h]
BY DEF RowShape

LEMMA RowStateBy ==
    ASSUME NEW x, RowShape(x), NEW st, NEW b, NEW y, y = [x EXCEPT !.state = st, !.by = b]
    PROVE  y = [state |-> st, amount |-> x.amount, confs |-> x.confs, by |-> b,
                spentBy |-> x.spentBy, hold |-> x.hold]
BY DEF RowShape

LEMMA RowStateSpender ==
    ASSUME NEW x, RowShape(x), NEW st, NEW sp, NEW y, y = [x EXCEPT !.state = st, !.spentBy = sp]
    PROVE  y = [state |-> st, amount |-> x.amount, confs |-> x.confs, by |-> x.by,
                spentBy |-> sp, hold |-> x.hold]
BY DEF RowShape

LEMMA RowSynced ==
    ASSUME NEW x, RowShape(x), NEW st, NEW a, NEW cf, NEW y,
           y = [x EXCEPT !.confs = cf, !.amount = a, !.state = st]
    PROVE  y = [state |-> st, amount |-> a, confs |-> cf, by |-> x.by,
                spentBy |-> x.spentBy, hold |-> x.hold]
BY DEF RowShape

LEMMA RowRewrites ==
    ASSUME NEW x, RowShape(x), NEW st, NEW b, NEW sp, NEW a, NEW cf, NEW h
    PROVE  /\ Fields([x EXCEPT !.state = st], st, x.by, x.spentBy)
           /\ Fields([x EXCEPT !.hold = h], x.state, x.by, x.spentBy)
           /\ Fields([x EXCEPT !.state = st, !.by = b], st, b, x.spentBy)
           /\ Fields([x EXCEPT !.state = st, !.spentBy = sp], st, x.by, sp)
           /\ Fields([x EXCEPT !.confs = cf, !.amount = a, !.state = st], st, x.by, x.spentBy)
<1>1. PICK y : y = [x EXCEPT !.state = st]
    OBVIOUS
<1>2. PICK z : z = [x EXCEPT !.hold = h]
    OBVIOUS
<1>3. PICK u : u = [x EXCEPT !.state = st, !.by = b]
    OBVIOUS
<1>4. PICK v : v = [x EXCEPT !.state = st, !.spentBy = sp]
    OBVIOUS
<1>5. PICK w : w = [x EXCEPT !.confs = cf, !.amount = a, !.state = st]
    OBVIOUS
<1>6. Fields(y, st, x.by, x.spentBy)
    BY <1>1, RowState DEF Fields, RowShape
<1>7. Fields(z, x.state, x.by, x.spentBy)
    BY <1>2, RowHold DEF Fields, RowShape
<1>8. Fields(u, st, b, x.spentBy)
    BY <1>3, RowStateBy DEF Fields, RowShape
<1>9. Fields(v, st, x.by, sp)
    BY <1>4, RowStateSpender DEF Fields, RowShape
<1>10. Fields(w, st, x.by, x.spentBy)
    BY <1>5, RowSynced DEF Fields, RowShape
<1> QED
    BY <1>1, <1>2, <1>3, <1>4, <1>5, <1>6, <1>7, <1>8, <1>9, <1>10, Zenon

\* One payout moves to another state with the inputs it has.
PayMoves(r, state) ==
    /\ PaysTyped'
    /\ \A q \in Requests : pay'[q].inputs = pay[q].inputs
    /\ \A q \in Requests : q # r => pay'[q].state = pay[q].state
    /\ pay'[r].state = state

LEMMA PayRewrites ==
    ASSUME PaysTyped, NEW r \in Requests, NEW st \in PayStates, NEW x, PayShape(x),
           x.state = st, x.inputs = pay[r].inputs, pay' = [pay EXCEPT ![r] = x]
    PROVE  PayMoves(r, st)
<1>1. pay'[r] = x /\ \A q \in Requests : q # r => pay'[q] = pay[q]
    BY DEF PaysTyped
<1>2. pay' = [q \in Requests |-> pay'[q]]
    BY DEF PaysTyped
<1>3. PaysTyped'
    BY <1>1, <1>2 DEF PaysTyped
<1> QED
    BY <1>1, <1>3 DEF PayMoves

LEMMA PayState ==
    ASSUME NEW p, PayShape(p), NEW st, NEW x, x = [p EXCEPT !.state = st]
    PROVE  x = [state |-> st, inputs |-> p.inputs, change |-> p.change, confs |-> p.confs,
                depth |-> p.depth]
BY DEF PayShape

LEMMA PayStateDepth ==
    ASSUME NEW p, PayShape(p), NEW st, NEW d, NEW x, x = [p EXCEPT !.state = st, !.depth = d]
    PROVE  x = [state |-> st, inputs |-> p.inputs, change |-> p.change, confs |-> p.confs,
                depth |-> d]
BY DEF PayShape

LEMMA PayStateConfs ==
    ASSUME NEW p, PayShape(p), NEW st, NEW cf, NEW x, x = [p EXCEPT !.confs = cf, !.state = st]
    PROVE  x = [state |-> st, inputs |-> p.inputs, change |-> p.change, confs |-> cf,
                depth |-> p.depth]
BY DEF PayShape

LEMMA PaySteps ==
    ASSUME PaysTyped, NEW r \in Requests, NEW st \in PayStates, NEW d, NEW cf,
           \/ pay' = [pay EXCEPT ![r].state = st]
           \/ pay' = [pay EXCEPT ![r].state = st, ![r].depth = d]
           \/ pay' = [pay EXCEPT ![r].confs = cf, ![r].state = st]
    PROVE  PayMoves(r, st)
<1>0. PayShape(pay[r]) /\ pay = [q \in Requests |-> pay[q]]
    BY DEF PaysTyped
<1>1. CASE pay' = [pay EXCEPT ![r].state = st]
  <2>1. PICK x : x = [pay[r] EXCEPT !.state = st]
    OBVIOUS
  <2>2. pay' = [pay EXCEPT ![r] = x]
    BY <1>1, <2>1, <1>0
  <2>3. PayShape(x) /\ x.state = st /\ x.inputs = pay[r].inputs
    BY <1>0, <2>1, PayState DEF PayShape
  <2> QED
    BY <2>2, <2>3, PayRewrites
<1>2. CASE pay' = [pay EXCEPT ![r].state = st, ![r].depth = d]
  <2>1. PICK x : x = [pay[r] EXCEPT !.state = st, !.depth = d]
    OBVIOUS
  <2>2. pay' = [pay EXCEPT ![r] = x]
    BY <1>2, <2>1, <1>0
  <2>3. PayShape(x) /\ x.state = st /\ x.inputs = pay[r].inputs
    BY <1>0, <2>1, PayStateDepth DEF PayShape
  <2> QED
    BY <2>2, <2>3, PayRewrites
<1>3. CASE pay' = [pay EXCEPT ![r].confs = cf, ![r].state = st]
  <2>1. PICK x : x = [pay[r] EXCEPT !.confs = cf, !.state = st]
    OBVIOUS
  <2>2. pay' = [pay EXCEPT ![r] = x]
    BY <1>3, <2>1, <1>0
  <2>3. PayShape(x) /\ x.state = st /\ x.inputs = pay[r].inputs
    BY <1>0, <2>1, PayStateConfs DEF PayShape
  <2> QED
    BY <2>2, <2>3, PayRewrites
<1> QED
    BY <1>1, <1>2, <1>3

-----------------------------------------------------------------------------
(* Frames: what a step must keep for each part of the invariant to survive. *)

\* Rows may change, but no coin changes hands and none of our spends is undone.
RowsKept ==
    /\ RowsTyped'
    /\ \A c \in Coins :
        /\ row'[c].by = row[c].by
        /\ row'[c].state = "Reserved" <=> row[c].state = "Reserved"
        /\ Taken(c) /\ row[c].state = "Spent" => row'[c].state = "Spent"
        /\ Gone(c) => Gone(c)'

\* Payouts may change state, but none is built and none completes.
PaysKept ==
    /\ PaysTyped'
    /\ \A r \in Requests :
        /\ pay'[r].inputs = pay[r].inputs
        /\ pay'[r].state = "none" <=> pay[r].state = "none"
        /\ pay'[r].state \in Closed <=> pay[r].state \in Closed

LEMMA RowsStill ==
    ASSUME RowsTyped, row' = row
    PROVE  RowsKept
<1>1. RowsTyped'
    BY DEF RowsTyped
<1> QED
    BY <1>1 DEF RowsKept, Gone

LEMMA PaysStill ==
    ASSUME PaysTyped, pay' = pay
    PROVE  PaysKept
<1>1. PaysTyped'
    BY DEF PaysTyped
<1> QED
    BY <1>1 DEF PaysKept

LEMMA HoldsFrame ==
    ASSUME RowsTyped, HoldsFit, RowsKept, PaysKept, leaked \subseteq Coins,
           leaked \subseteq leaked', leaked' \subseteq Coins,
           \A c \in leaked' : Taken(c), InHand \subseteq InHand' \cup leaked'
    PROVE  HoldsFit'
<1>1. \A c \in Coins : /\ row'[c].by = row[c].by /\ (Taken(c)' <=> Taken(c))
                       /\ row'[c].state = "Reserved" <=> row[c].state = "Reserved"
                       /\ Taken(c) /\ row[c].state = "Spent" => row'[c].state = "Spent"
    BY DEF RowsKept, Taken
<1>2. \A r \in Requests : /\ pay'[r].inputs = pay[r].inputs
                          /\ pay'[r].state = "none" <=> pay[r].state = "none"
                          /\ pay'[r].state \in Closed <=> pay[r].state \in Closed
    BY DEF PaysKept
<1>3. \A c \in Coins : Taken(c) => row[c].by \in Requests
    BY DEF RowsTyped, Taken
<1>4. PaysTyped'
    BY DEF PaysKept
<1>5. \A c \in Coins : Taken(c)' => row'[c].state \in {"Reserved", "Spent"}
    BY <1>1 DEF HoldsFit
<1>6. \A c \in Coins : Taken(c)' /\ pay'[row'[c].by].state \notin Closed => row'[c].state = "Reserved"
    BY <1>1, <1>2, <1>3 DEF HoldsFit
<1>7. \A c \in Coins : row'[c].state = "Reserved" =>
         /\ Taken(c)' /\ pay'[row'[c].by].state \notin Closed
         /\ c \in pay'[row'[c].by].inputs \/ c \in leaked' \/ c \in InHand'
    BY <1>1, <1>2, <1>3 DEF HoldsFit
<1>8. \A c \in leaked' : Taken(c)'
    BY <1>1
<1>9. \A r \in Requests : \A c \in pay'[r].inputs : row'[c].by = r
    BY <1>1, <1>2, <1>4 DEF HoldsFit, PaysTyped
<1>10. \A r \in Requests : pay'[r].state = "none" => pay'[r].inputs = {}
    BY <1>2 DEF HoldsFit
<1> QED
    BY <1>5, <1>6, <1>7, <1>8, <1>9, <1>10 DEF HoldsFit

LEMMA WorkFrame ==
    ASSUME WorkFits, work' = work, work.step # "idle" => work.request \in Requests,
           work.inputs \subseteq Coins,
           \A c \in Coins : row'[c].by = row[c].by,
           \A r \in Requests : pay[r].state \in {"none", "Built"} => pay'[r].state = pay[r].state
    PROVE  WorkFits'
BY DEF WorkFits

LEMMA ClaimsFrame ==
    ASSUME ClaimsFit, split' = split, revoked' = revoked,
           \A c \in Coins : row'[c].by = row[c].by,
           \A c \in Coins : Gone(c) => Gone(c)'
    PROVE  ClaimsFit'
<1>1. \A c \in Coins : Taken(c)' <=> Taken(c)
    BY DEF Taken
<1> QED
    BY <1>1 DEF ClaimsFit, Under

\* One split moves and keeps its source; if it is not revoked, only a split
\* under way goes on, and one on its way to the chain has its source spent.
LEMMA ClaimsMove ==
    ASSUME ClaimsFit, NEW s \in Splits, revoked \subseteq revoked',
           \A t \in Splits : t # s => split'[t].state = split[t].state,
           \A t \in Splits : split'[t].source = split[t].source,
           s \notin revoked' => (split'[s].state \in Under => split[s].state \in Under),
           s \notin revoked' =>
              (split'[s].state \in {"Broadcast", "Confirmed"} => Gone(split[s].source)'),
           \A c \in Coins : row'[c].by = row[c].by,
           \A c \in Coins : Gone(c) => Gone(c)'
    PROVE  ClaimsFit'
<1>1. \A c \in Coins : Taken(c)' <=> Taken(c)
    BY DEF Taken
<1>2. \A t \in Splits \ revoked' : split'[t].state \in Under =>
         split[t].state \in Under /\ t \notin revoked
    BY DEF ClaimsFit
<1>3. \A t \in Splits \ revoked' : split'[t].state \in Under =>
         split'[t].source \in Coins /\ ~Taken(split[t].source)'
  <2> SUFFICES ASSUME NEW t \in Splits \ revoked', split'[t].state \in Under
               PROVE  split'[t].source \in Coins /\ ~Taken(split[t].source)'
    OBVIOUS
  <2>1. split[t].source \in Coins /\ ~Taken(split[t].source)
    BY <1>2 DEF ClaimsFit
  <2>2. split'[t].source = split[t].source
    OBVIOUS
  <2> QED
    BY <2>1, <2>2 DEF Taken
<1>4. \A t \in Splits \ revoked' : split'[t].state \in {"Broadcast", "Confirmed"} =>
         Gone(split[t].source)'
  <2> SUFFICES ASSUME NEW t \in Splits \ revoked', split'[t].state \in {"Broadcast", "Confirmed"}
               PROVE  Gone(split[t].source)'
    OBVIOUS
  <2>1. CASE t = s
    BY <2>1
  <2>2. CASE t # s
    <3>1. split[t].source \in Coins /\ Gone(split[t].source)
      BY <2>2 DEF ClaimsFit, Under
    <3> DEFINE c == split[t].source
    <3>2. c' = c
      OBVIOUS
    <3>3. row'[c].state = "Spent" /\ row'[c].spentBy # NoTx
      BY <3>1 DEF Gone
    <3> QED
      BY <3>2, <3>3 DEF Gone
  <2> QED
    BY <2>1, <2>2
<1>5. \A t, u \in Splits \ revoked' :
         t # u /\ split'[t].state \in Under /\ split'[u].state \in Under =>
           split'[t].source # split'[u].source
    BY <1>2 DEF ClaimsFit
<1> QED
    BY <1>3, <1>4, <1>5 DEF ClaimsFit, Under

\* No other split is sent, probed or abandoned.
LEMMA SentMove ==
    ASSUME SentFit, NEW s \in Splits, revoked \subseteq revoked', held' \subseteq held \cup {s},
           \A t \in Splits : t # s => /\ split'[t] = split[t] /\ probed'[t] = probed[t]
                                      /\ Known(SplitTx(t))' => Known(SplitTx(t)),
           s \notin revoked' => (s \in held' \/ Known(SplitTx(s))' =>
              split'[s].state \in {"Signed", "Broadcast", "Confirmed"}),
           split'[s].state \in {"none", "Built"} => ~split'[s].txid /\ probed'[s] # "absent",
           split'[s].state = "Abandoned" /\ split'[s].txid => s \in revoked'
    PROVE  SentFit'
<1>1. \A t \in Splits \ revoked' : t \in held' \/ Known(SplitTx(t))' =>
         split'[t].state \in {"Signed", "Broadcast", "Confirmed"}
    BY DEF SentFit
<1>2. \A t \in Splits : split'[t].state \in {"none", "Built"} =>
         ~split'[t].txid /\ probed'[t] # "absent"
    BY DEF SentFit
<1>3. \A t \in Splits : split'[t].state = "Abandoned" /\ split'[t].txid => t \in revoked'
    BY DEF SentFit
<1> QED
    BY <1>1, <1>2, <1>3 DEF SentFit

LEMMA SentFrame ==
    ASSUME SentFit, split' = split, probed' = probed, revoked \subseteq revoked', held' \subseteq held,
           \A t \in Splits : Known(SplitTx(t))' => Known(SplitTx(t))
    PROVE  SentFit'
<1>1. \A t \in Splits \ revoked' : t \in held' \/ Known(SplitTx(t))' =>
         split'[t].state \in {"Signed", "Broadcast", "Confirmed"}
    BY DEF SentFit
<1>2. \A t \in Splits : split'[t].state \in {"none", "Built"} =>
         ~split'[t].txid /\ probed'[t] # "absent"
    BY DEF SentFit
<1>3. \A t \in Splits : split'[t].state = "Abandoned" /\ split'[t].txid => t \in revoked'
    BY DEF SentFit
<1> QED
    BY <1>1, <1>2, <1>3 DEF SentFit

\* Kept rows and payouts are a step forward of the money.
LEMMA SpendingKept ==
    ASSUME RowsKept, PaysKept
    PROVE  SpendingStep
<1>1. \A c \in Coins : Gone(c) => row'[c].state = "Spent"
    BY DEF RowsKept, Gone
<1> QED
    BY <1>1 DEF PaysKept, SpendingStep, Gone

\* A step of the money: the splits and what is known of them stay.
LEMMA MoneyStep ==
    ASSUME VInv, RowsKept, PaysKept, NodeTyped', WorkTyped', WorkFits',
           split' = split, probed' = probed, revoked' = revoked, held' \subseteq held,
           \A t \in Splits : Known(SplitTx(t))' => Known(SplitTx(t)),
           leaked \subseteq leaked', leaked' \subseteq Coins,
           \A c \in leaked' : Taken(c), InHand \subseteq InHand' \cup leaked'
    PROVE  VInv' /\ SpendingStep
<1>1. Typed /\ HoldsFit /\ WorkFits /\ ClaimsFit /\ SentFit
    BY DEF VInv
<1>2. RowsTyped /\ leaked \subseteq Coins /\ SplitsTyped
    BY <1>1 DEF Typed
<1>3. HoldsFit'
    BY <1>1, <1>2, HoldsFrame
<1>4. \A c \in Coins : row'[c].by = row[c].by
    BY DEF RowsKept
<1>5. \A c \in Coins : Gone(c) => Gone(c)'
    BY DEF RowsKept
<1>6. ClaimsFit'
    BY <1>1, <1>4, <1>5, ClaimsFrame
<1>7. SentFit'
    BY <1>1, SentFrame
<1>8. SplitsTyped'
    BY <1>2 DEF SplitsTyped
<1>9. RowsTyped' /\ PaysTyped'
    BY DEF RowsKept, PaysKept
<1>10. Typed'
    BY <1>8, <1>9 DEF Typed
<1>11. SpendingStep
    BY SpendingKept
<1> QED
    BY <1>3, <1>6, <1>7, <1>10, <1>11 DEF VInv

\* The same with nothing but rows, the node or what a process holds changing.
LEMMA PlainStep ==
    ASSUME VInv, RowsKept, pay' = pay, NodeTyped', work' = work, leaked' = leaked,
           split' = split, probed' = probed, revoked' = revoked, held' \subseteq held,
           \A t \in Splits : Known(SplitTx(t))' => Known(SplitTx(t))
    PROVE  VInv' /\ SpendingStep
<1>1. Typed /\ HoldsFit /\ WorkFits
    BY DEF VInv
<1>2. PaysTyped /\ WorkTyped /\ leaked \subseteq Coins
    BY <1>1 DEF Typed
<1>3. PaysKept
    BY <1>2, PaysStill
<1>4. WorkTyped'
    BY <1>2 DEF WorkTyped
<1>5. \A c \in Coins : row'[c].by = row[c].by
    BY DEF RowsKept
<1>6. work.inputs \subseteq Coins /\ (work.step # "idle" => work.request \in Requests)
    BY <1>2 DEF WorkTyped
<1>7. WorkFits'
    BY <1>1, <1>5, <1>6, WorkFrame
<1>8. \A c \in leaked' : Taken(c)
    BY <1>1 DEF HoldsFit
<1>9. InHand \subseteq InHand' \cup leaked'
    BY DEF InHand
<1> QED
    BY <1>2, <1>3, <1>4, <1>7, <1>8, <1>9, MoneyStep

\* A step of the splits: the payouts and the work in hand stay.
LEMMA SplitStep ==
    ASSUME VInv, RowsKept, NodeTyped', SplitsTyped', ClaimsFit', SentFit',
           pay' = pay, work' = work, leaked' = leaked
    PROVE  VInv' /\ SpendingStep
<1>1. Typed /\ HoldsFit /\ WorkFits
    BY DEF VInv
<1>2. RowsTyped /\ PaysTyped /\ WorkTyped /\ leaked \subseteq Coins
    BY <1>1 DEF Typed
<1>3. PaysKept
    BY <1>2, PaysStill
<1>4. WorkTyped'
    BY <1>2 DEF WorkTyped
<1>5. \A c \in Coins : row'[c].by = row[c].by
    BY DEF RowsKept
<1>6. work.inputs \subseteq Coins /\ (work.step # "idle" => work.request \in Requests)
    BY <1>2 DEF WorkTyped
<1>7. WorkFits'
    BY <1>1, <1>5, <1>6, WorkFrame
<1>8. \A c \in leaked' : Taken(c)
    BY <1>1 DEF HoldsFit
<1>9. InHand \subseteq InHand' \cup leaked'
    BY DEF InHand
<1>10. HoldsFit'
    BY <1>1, <1>2, <1>3, <1>8, <1>9, HoldsFrame
<1>11. RowsTyped' /\ PaysTyped'
    BY <1>3 DEF RowsKept, PaysKept
<1>12. Typed'
    BY <1>2, <1>4, <1>11 DEF Typed
<1>13. SpendingStep
    BY <1>3, SpendingKept
<1> QED
    BY <1>7, <1>10, <1>12, <1>13 DEF VInv

-----------------------------------------------------------------------------
(* The node and the sync.                                                   *)

\* A send makes known at most the transaction it sends.
LEMMA SentNode ==
    ASSUME ConstantsOK, NodeTyped, NEW tx \in Txs, node' = Sent(tx) \/ node' = node
    PROVE  NodeTyped' /\ \A t \in Txs : t # tx => (Known(t)' <=> Known(t))
BY DEF ConstantsOK, NodeTyped, Sent, Known

LEMMA MineFits ==
    ASSUME ConstantsOK, VInv, NEW tx \in Txs, Mine(tx) \/ Evict(tx)
    PROVE  VInv' /\ SpendingStep
<1>1. NodeTyped /\ RowsTyped
    BY DEF VInv, Typed
<1>2. NodeTyped' /\ \A t \in Txs : Known(t)' => Known(t)
    BY <1>1 DEF ConstantsOK, NodeTyped, Mine, Evict, Known
<1>3. \A t \in Splits : Known(SplitTx(t))' => Known(SplitTx(t))
  <2> SUFFICES ASSUME NEW t \in Splits PROVE Known(SplitTx(t))' => Known(SplitTx(t))
    OBVIOUS
  <2>1. SplitTx(t) \in Txs
    BY Kinds
  <2> QED
    BY <1>2, <2>1
<1>4. RowsKept
    BY <1>1, RowsStill DEF Mine, Evict
<1> QED
    BY <1>2, <1>3, <1>4, PlainStep DEF Mine, Evict

LEMMA LooksFit ==
    ASSUME VInv, ListUnspent \/ MoveFloor
    PROVE  VInv' /\ SpendingStep
<1>1. RowsTyped /\ NodeTyped
    BY DEF VInv, Typed
<1>2. RowsKept
    BY <1>1, RowsStill DEF ListUnspent, MoveFloor
<1>3. NodeTyped' /\ \A t \in Splits : Known(SplitTx(t))' => Known(SplitTx(t))
    BY <1>1 DEF NodeTyped, Known, ListUnspent, MoveFloor
<1> QED
    BY <1>2, <1>3, PlainStep DEF ListUnspent, MoveFloor

\* The upsert keeps reservations and the spends of our own transactions.
LEMMA SyncedFields ==
    ASSUME NEW x, RowShape(x), x.state \in RowStates, NEW obs
    PROVE  /\ Fields(SyncedRow(x, obs), SyncedRow(x, obs).state, x.by, x.spentBy)
           /\ SyncedRow(x, obs).state \in RowStates
           /\ SyncedRow(x, obs).state = "Reserved" <=> x.state = "Reserved"
           /\ x.state = "Spent" /\ (x.spentBy # NoTx \/ x.by # NoRequest) =>
                SyncedRow(x, obs).state = "Spent"
<1>1. PICK st : st = CASE x.state = "Reserved" -> "Reserved"
                       [] x.state = "Spent" /\ (x.spentBy # NoTx \/ x.by # NoRequest) -> "Spent"
                       [] OTHER -> IF obs.confs >= MinConfirmations THEN "Available" ELSE "Unconfirmed"
    OBVIOUS
<1>2. PICK a : a = IF x.state = "none" THEN obs.amount ELSE x.amount
    OBVIOUS
<1>3. SyncedRow(x, obs) = [x EXCEPT !.confs = obs.confs, !.amount = a, !.state = st]
    BY <1>1, <1>2 DEF SyncedRow, RowShape
<1>4. Fields(SyncedRow(x, obs), st, x.by, x.spentBy)
  <2>1. PICK cf : cf = obs.confs
    OBVIOUS
  <2>2. Fields([x EXCEPT !.confs = cf, !.amount = a, !.state = st], st, x.by, x.spentBy)
    BY RowRewrites, Zenon
  <2> QED
    BY <1>3, <2>1, <2>2, Zenon
<1>5. SyncedRow(x, obs).state = st
    BY <1>4 DEF Fields
<1>6. /\ st \in RowStates
      /\ st = "Reserved" <=> x.state = "Reserved"
      /\ x.state = "Spent" /\ (x.spentBy # NoTx \/ x.by # NoRequest) => st = "Spent"
    BY <1>1 DEF RowStates
<1> QED
    BY <1>4, <1>5, <1>6

\* A step that rewrites rows one by one keeps them when it keeps each.
Kept(x, y) ==
    /\ Fields(y, y.state, x.by, y.spentBy)
    /\ y.state \in RowStates
    /\ y.state = "Reserved" <=> x.state = "Reserved"
    /\ x.state = "Spent" /\ x.by # NoRequest => y.state = "Spent"
    /\ x.state = "Spent" /\ x.spentBy # NoTx => y.state = "Spent" /\ y.spentBy # NoTx

LEMMA RowsMove ==
    ASSUME RowsTyped, row' = [c \in Coins |-> row'[c]], \A c \in Coins : Kept(row[c], row'[c])
    PROVE  RowsKept
<1>1. \A c \in Coins : RowShape(row'[c]) /\ row'[c].state \in RowStates
                       /\ row'[c].by = row[c].by
    BY DEF Kept, Fields
<1>2. RowsTyped'
    BY <1>1 DEF RowsTyped
<1>3. \A c \in Coins :
        /\ row'[c].by = row[c].by
        /\ row'[c].state = "Reserved" <=> row[c].state = "Reserved"
        /\ Taken(c) /\ row[c].state = "Spent" => row'[c].state = "Spent"
    BY <1>1 DEF Kept, Taken
<1>4. \A c \in Coins : Gone(c) => Gone(c)'
    BY DEF Kept, Gone
<1> QED
    BY <1>2, <1>3, <1>4 DEF RowsKept

\* A row as it was is kept, and so is a free row that becomes spent.
LEMMA KeptRows ==
    ASSUME NEW x, RowShape(x), x.state \in RowStates
    PROVE  /\ Kept(x, x)
           /\ \A h : Kept(x, [x EXCEPT !.hold = h])
           /\ x.state # "Reserved" => Kept(x, [x EXCEPT !.state = "Spent"])
           /\ \A sp : x.state # "Reserved" /\ sp # NoTx =>
                Kept(x, [x EXCEPT !.state = "Spent", !.spentBy = sp])
<1>1. Kept(x, x)
    BY DEF Kept, Fields
<1>2. ASSUME NEW h PROVE Kept(x, [x EXCEPT !.hold = h])
  <2>1. PICK y : y = [x EXCEPT !.hold = h]
    OBVIOUS
  <2>2. Fields(y, x.state, x.by, x.spentBy)
    BY <2>1, RowRewrites, Zenon
  <2>3. Kept(x, y)
    BY <2>2 DEF Kept, Fields
  <2> QED
    BY <2>1, <2>3
<1>3. ASSUME x.state # "Reserved" PROVE Kept(x, [x EXCEPT !.state = "Spent"])
  <2>1. PICK y : y = [x EXCEPT !.state = "Spent"]
    OBVIOUS
  <2>2. Fields(y, "Spent", x.by, x.spentBy)
    BY <2>1, RowRewrites, Zenon
  <2>3. Kept(x, y)
    BY <1>3, <2>2 DEF Kept, Fields, RowStates
  <2> QED
    BY <2>1, <2>3
<1>4. ASSUME NEW sp, x.state # "Reserved", sp # NoTx
      PROVE  Kept(x, [x EXCEPT !.state = "Spent", !.spentBy = sp])
  <2>1. PICK y : y = [x EXCEPT !.state = "Spent", !.spentBy = sp]
    OBVIOUS
  <2>2. Fields(y, "Spent", x.by, sp)
    BY <2>1, RowRewrites, Zenon
  <2>3. Kept(x, y)
    BY <1>4, <2>2 DEF Kept, Fields, RowStates
  <2> QED
    BY <2>1, <2>3
<1> QED
    BY <1>1, <1>2, <1>3, <1>4

LEMMA SyncFits ==
    ASSUME VInv, SyncVaultUtxos
    PROVE  VInv' /\ SpendingStep
<1>1. RowsTyped /\ NodeTyped
    BY DEF VInv, Typed
<1>2. row' = [c \in Coins |-> row'[c]]
    BY DEF SyncVaultUtxos
<1>3. ASSUME NEW c \in Coins
      PROVE  \/ \E obs : row'[c] = SyncedRow(row[c], obs)
             \/ row[c].state # "Reserved" /\ row'[c] = [row[c] EXCEPT !.state = "Spent"]
             \/ row'[c] = row[c]
    BY <1>3 DEF SyncVaultUtxos
<1>4. ASSUME NEW c \in Coins PROVE Kept(row[c], row'[c])
  <2>1. RowShape(row[c]) /\ row[c].state \in RowStates
    BY <1>1, <1>4 DEF RowsTyped
  <2>2. ASSUME NEW obs, row'[c] = SyncedRow(row[c], obs) PROVE Kept(row[c], row'[c])
    BY <2>1, <2>2, SyncedFields DEF Kept, Fields
  <2>3. CASE row[c].state # "Reserved" /\ row'[c] = [row[c] EXCEPT !.state = "Spent"]
    <3>1. Kept(row[c], [row[c] EXCEPT !.state = "Spent"])
      BY <2>1, <2>3, KeptRows
    <3> QED
      BY <2>3, <3>1
  <2>4. CASE row'[c] = row[c]
    BY <2>1, <2>4, KeptRows
  <2> QED
    BY <1>3, <1>4, <2>2, <2>3, <2>4
<1>5. RowsKept
    BY <1>1, <1>2, <1>4, RowsMove
<1>6. NodeTyped' /\ \A t \in Splits : Known(SplitTx(t))' => Known(SplitTx(t))
    BY <1>1 DEF NodeTyped, Known, SyncVaultUtxos
<1> QED
    BY <1>5, <1>6, PlainStep DEF SyncVaultUtxos

LEMMA ValidateFits ==
    ASSUME VInv, NEW r \in Requests, ValidateZeroConfParent(r)
    PROVE  VInv' /\ SpendingStep
<1>1. RowsTyped /\ NodeTyped
    BY DEF VInv, Typed
<1>2. PICK d : d = Coin(PayTx(r), 1)
    OBVIOUS
<1>3. PICK h : row' = [row EXCEPT ![d].hold = h]
    BY <1>2 DEF ValidateZeroConfParent
<1>4. row' = [c \in Coins |-> row'[c]]
    BY <1>1, <1>3 DEF RowsTyped
<1>5. ASSUME NEW c \in Coins PROVE Kept(row[c], row'[c])
  <2>1. RowShape(row[c]) /\ row[c].state \in RowStates
    BY <1>1, <1>5 DEF RowsTyped
  <2>2. row'[c] = [row[c] EXCEPT !.hold = h] \/ row'[c] = row[c]
    BY <1>1, <1>3, <1>5 DEF RowsTyped
  <2>3. Kept(row[c], [row[c] EXCEPT !.hold = h]) /\ Kept(row[c], row[c])
    BY <2>1, KeptRows
  <2> QED
    BY <2>2, <2>3
<1>6. RowsKept
    BY <1>1, <1>4, <1>5, RowsMove
<1>7. NodeTyped' /\ \A t \in Splits : Known(SplitTx(t))' => Known(SplitTx(t))
    BY <1>1 DEF NodeTyped, Known, ValidateZeroConfParent
<1> QED
    BY <1>6, <1>7, PlainStep DEF ValidateZeroConfParent

-----------------------------------------------------------------------------
(* A payout, call by call.                                                  *)

\* The daemon's work moves while rows and payouts stay: nothing reserved.
LEMMA WorkStep ==
    ASSUME VInv, UNCHANGED <<row, pay, split, probed, revoked, leaked, held>>, NodeTyped',
           WorkTyped', WorkFits', InHand \subseteq InHand' \cup leaked',
           \A t \in Splits : Known(SplitTx(t))' => Known(SplitTx(t))
    PROVE  VInv' /\ SpendingStep
<1>1. Typed /\ HoldsFit
    BY DEF VInv
<1>2. RowsTyped /\ PaysTyped /\ leaked \subseteq Coins
    BY <1>1 DEF Typed
<1>3. RowsKept /\ PaysKept
    BY <1>2, RowsStill, PaysStill
<1>4. \A c \in leaked' : Taken(c)
    BY <1>1 DEF HoldsFit
<1> QED
    BY <1>2, <1>3, <1>4, MoneyStep

LEMMA PlanFits ==
    ASSUME VInv, NEW r \in Requests \ Refunds, NEW inputs \in SUBSET Coins, PlanPayout(r, inputs)
    PROVE  VInv' /\ SpendingStep
<1>1. NodeTyped
    BY DEF VInv, Typed
<1>2. /\ work.step = "idle" /\ pay[r].state = "none" /\ pay' = pay
      /\ work' = [step |-> "planned", request |-> r, inputs |-> inputs]
    BY DEF PlanPayout
<1>3. work'.step = "planned" /\ work'.request = r /\ WorkTyped'
    BY <1>2 DEF WorkTyped, WorkSteps
<1>4. WorkFits'
    BY <1>2, <1>3 DEF WorkFits
<1>5. InHand \subseteq InHand' \cup leaked'
    BY <1>2 DEF InHand
<1>6. NodeTyped' /\ \A t \in Splits : Known(SplitTx(t))' => Known(SplitTx(t))
    BY <1>1 DEF NodeTyped, Known, PlanPayout
<1> QED
    BY <1>3, <1>4, <1>5, <1>6, WorkStep DEF PlanPayout

\* A step of the work in hand, and dropping it.
LEMMA WorkRewrites ==
    ASSUME WorkTyped, NEW st \in WorkSteps, work.step # "idle", work' = [work EXCEPT !.step = st]
    PROVE  /\ WorkTyped' /\ work'.step = st /\ work'.request = work.request
           /\ work'.inputs = work.inputs
BY DEF WorkTyped

LEMMA WorkDropped ==
    ASSUME work' = NoWork
    PROVE  WorkTyped' /\ work'.step = "idle" /\ WorkFits' /\ InHand' = {}
<1>1. WorkTyped' /\ work'.step = "idle"
    BY DEF NoWork, WorkTyped, WorkSteps
<1> QED
    BY <1>1 DEF WorkFits, InHand

LEMMA SendPayoutFits ==
    ASSUME ConstantsOK, VInv, SendPayout
    PROVE  VInv' /\ SpendingStep
<1>1. NodeTyped /\ WorkTyped
    BY DEF VInv, Typed
<1>2. work.step = "signed" /\ work.request \in Requests
    BY <1>1 DEF SendPayout, WorkTyped
<1>3. PICK tx \in Txs : tx = PayTx(work.request)
    BY <1>2, Kinds
<1>4. node' = Sent(tx) \/ node' = node
    BY <1>3 DEF SendPayout
<1>5. NodeTyped' /\ \A t \in Txs : t # tx => (Known(t)' <=> Known(t))
    BY <1>1, <1>4, SentNode
<1>6. ASSUME NEW t \in Splits PROVE Known(SplitTx(t))' => Known(SplitTx(t))
  <2>1. SplitTx(t) \in Txs /\ SplitTx(t) # tx
    BY <1>3, <1>6, Kinds
  <2> QED
    BY <1>5, <2>1
<1>7. WorkTyped' /\ WorkFits'
  <2>1. CASE work' = NoWork
    BY <2>1, WorkDropped
  <2>2. CASE work' = [work EXCEPT !.step = "sent"]
    <3>1. WorkTyped' /\ work'.step = "sent"
      BY <1>1, <1>2, <2>2, WorkRewrites DEF WorkSteps
    <3> QED
      BY <3>1 DEF WorkFits
  <2> QED
    BY <2>1, <2>2 DEF SendPayout
<1>8. InHand \subseteq InHand' \cup leaked'
    BY <1>2 DEF InHand
<1> QED
    BY <1>5, <1>6, <1>7, <1>8, WorkStep DEF SendPayout

\* A payout moves on from a state that is neither open nor final.
LEMMA PaysMove ==
    ASSUME PaysTyped, NEW r \in Requests, NEW st, PayMoves(r, st), st # "none", st \notin Closed,
           pay[r].state # "none", pay[r].state \notin Closed
    PROVE  PaysKept
BY DEF PayMoves, PaysKept

LEMMA SignedFits ==
    ASSUME VInv, RecordPayoutSigned
    PROVE  VInv' /\ SpendingStep
<1>1. Typed /\ HoldsFit /\ WorkFits
    BY DEF VInv
<1>2. NodeTyped /\ WorkTyped /\ RowsTyped /\ PaysTyped /\ leaked \subseteq Coins
    BY <1>1 DEF Typed
<1>3. work.step = "built" /\ work.request \in Requests /\ pay[work.request].state = "Built"
    BY <1>1, <1>2 DEF RecordPayoutSigned, WorkTyped, WorkFits
<1>4. PICK r \in Requests : r = work.request
    BY <1>3
<1>5. pay' = [pay EXCEPT ![r].state = "Signed"]
    BY <1>4 DEF RecordPayoutSigned
<1>6. PayMoves(r, "Signed")
    BY <1>2, <1>5, PaySteps DEF PayStates
<1>7. PaysKept
    BY <1>2, <1>3, <1>4, <1>6, PaysMove DEF Closed
<1>8. RowsKept
    BY <1>2, RowsStill DEF RecordPayoutSigned
<1>9. WorkTyped' /\ work'.step = "signed"
    BY <1>2, <1>3, WorkRewrites DEF WorkSteps, RecordPayoutSigned
<1>10. WorkFits'
    BY <1>9 DEF WorkFits
<1>11. NodeTyped' /\ \A t \in Splits : Known(SplitTx(t))' => Known(SplitTx(t))
    BY <1>2 DEF NodeTyped, Known, RecordPayoutSigned
<1>12. leaked' = leaked /\ (\A c \in leaked' : Taken(c)) /\ InHand \subseteq InHand' \cup leaked'
    BY <1>1, <1>3 DEF HoldsFit, InHand, RecordPayoutSigned
<1> QED
    BY <1>2, <1>7, <1>8, <1>9, <1>10, <1>11, <1>12, MoneyStep DEF RecordPayoutSigned

LEMMA BroadcastMoves ==
    ASSUME PaysTyped, NEW r \in Requests, pay[r].state = "Signed", pay' = PayoutBroadcast(r)
    PROVE  PaysKept /\ PayMoves(r, "Broadcast")
<1>1. PICK d : d = IF pay[r].change > 0 THEN ParentDepth(pay[r].inputs) + 1 ELSE 0
    OBVIOUS
<1>2. pay' = [pay EXCEPT ![r].state = "Broadcast", ![r].depth = d]
    BY <1>1 DEF PayoutBroadcast
<1>3. PayMoves(r, "Broadcast")
    BY <1>2, PaySteps DEF PayStates
<1> QED
    BY <1>3, PaysMove DEF Closed

LEMMA RecordBroadcastFits ==
    ASSUME VInv, RecordPayoutBroadcast
    PROVE  VInv' /\ SpendingStep
<1>1. Typed /\ HoldsFit /\ WorkFits
    BY DEF VInv
<1>2. NodeTyped /\ WorkTyped /\ RowsTyped /\ PaysTyped /\ leaked \subseteq Coins
    BY <1>1 DEF Typed
<1>3. work.step = "sent" /\ work.request \in Requests
    BY <1>2 DEF RecordPayoutBroadcast, WorkTyped
<1>4. PaysKept
  <2>1. CASE pay' = pay
    BY <1>2, <2>1, PaysStill
  <2>2. CASE pay[work.request].state = "Signed" /\ pay' = PayoutBroadcast(work.request)
    BY <1>2, <1>3, <2>2, BroadcastMoves
  <2> QED
    BY <2>1, <2>2 DEF RecordPayoutBroadcast
<1>5. RowsKept
    BY <1>2, RowsStill DEF RecordPayoutBroadcast
<1>6. WorkTyped' /\ WorkFits'
    BY WorkDropped DEF RecordPayoutBroadcast
<1>7. NodeTyped' /\ \A t \in Splits : Known(SplitTx(t))' => Known(SplitTx(t))
    BY <1>2 DEF NodeTyped, Known, RecordPayoutBroadcast
<1>8. leaked' = leaked /\ (\A c \in leaked' : Taken(c)) /\ InHand \subseteq InHand' \cup leaked'
    BY <1>1, <1>3 DEF HoldsFit, InHand, RecordPayoutBroadcast
<1> QED
    BY <1>2, <1>4, <1>5, <1>6, <1>7, <1>8, MoneyStep DEF RecordPayoutBroadcast

\* A payout that is neither open nor built moves while the work stays.
LEMMA PayStep ==
    ASSUME VInv, NodeTyped', PaysKept, row' = row, work' = work, leaked' = leaked,
           \A q \in Requests : pay[q].state \in {"none", "Built"} => pay'[q].state = pay[q].state,
           UNCHANGED <<split, probed, revoked, held>>,
           \A t \in Splits : Known(SplitTx(t))' => Known(SplitTx(t))
    PROVE  VInv' /\ SpendingStep
<1>1. Typed /\ HoldsFit /\ WorkFits
    BY DEF VInv
<1>2. WorkTyped /\ RowsTyped /\ leaked \subseteq Coins
    BY <1>1 DEF Typed
<1>3. RowsKept
    BY <1>2, RowsStill
<1>4. work.inputs \subseteq Coins /\ (work.step # "idle" => work.request \in Requests)
    BY <1>2 DEF WorkTyped
<1>5. WorkFits'
    BY <1>1, <1>4, WorkFrame
<1>6. WorkTyped'
    BY <1>2 DEF WorkTyped
<1>7. (\A c \in leaked' : Taken(c)) /\ InHand \subseteq InHand' \cup leaked'
    BY <1>1 DEF HoldsFit, InHand
<1> QED
    BY <1>2, <1>3, <1>5, <1>6, <1>7, MoneyStep

LEMMA RetryFits ==
    ASSUME ConstantsOK, VInv, NEW r \in Requests, RetryPayout(r)
    PROVE  VInv' /\ SpendingStep
<1>1. NodeTyped /\ PaysTyped
    BY DEF VInv, Typed
<1>2. PICK tx \in Txs : tx = PayTx(r)
    BY Kinds
<1>3. node' = Sent(tx)
    BY <1>2 DEF RetryPayout
<1>4. NodeTyped' /\ \A t \in Txs : t # tx => (Known(t)' <=> Known(t))
    BY <1>1, <1>3, SentNode
<1>5. ASSUME NEW t \in Splits PROVE Known(SplitTx(t))' => Known(SplitTx(t))
  <2>1. SplitTx(t) \in Txs /\ SplitTx(t) # tx
    BY <1>2, <1>5, Kinds
  <2> QED
    BY <1>4, <2>1
<1>6. PaysKept /\ PayMoves(r, "Broadcast")
    BY <1>1, BroadcastMoves DEF RetryPayout
<1>7. \A q \in Requests : pay[q].state \in {"none", "Built"} => pay'[q].state = pay[q].state
    BY <1>6 DEF PayMoves, RetryPayout
<1> QED
    BY <1>4, <1>5, <1>6, <1>7, PayStep DEF RetryPayout

LEMMA UpdateFits ==
    ASSUME VInv, NEW r \in Requests, UpdatePayoutConfirmations(r)
    PROVE  VInv' /\ SpendingStep
<1>1. NodeTyped /\ PaysTyped
    BY DEF VInv, Typed
<1>2. PICK st : st = IF node[PayTx(r)] >= MinConfirmations THEN "Confirmed" ELSE pay[r].state
    OBVIOUS
<1>3. PICK cf : cf = Max({pay[r].confs, node[PayTx(r)]})
    OBVIOUS
<1>4. pay' = [pay EXCEPT ![r].confs = cf, ![r].state = st]
    BY <1>2, <1>3 DEF UpdatePayoutConfirmations
<1>5. pay[r].state = "Broadcast" /\ st \in {"Broadcast", "Confirmed"}
    BY <1>2 DEF UpdatePayoutConfirmations
<1>6. st \in PayStates
    BY <1>5 DEF PayStates
<1>7. PayMoves(r, st)
    BY <1>1, <1>4, <1>6, PaySteps
<1>8. PaysKept
    BY <1>1, <1>5, <1>7, PaysMove DEF Closed
<1>9. \A q \in Requests : pay[q].state \in {"none", "Built"} => pay'[q].state = pay[q].state
    BY <1>5, <1>7 DEF PayMoves
<1>10. NodeTyped' /\ \A t \in Splits : Known(SplitTx(t))' => Known(SplitTx(t))
    BY <1>1 DEF NodeTyped, Known, UpdatePayoutConfirmations
<1> QED
    BY <1>8, <1>9, <1>10, PayStep DEF UpdatePayoutConfirmations

\* A crash between the reservation and the plan's row leaves its coins held.
LEMMA CrashFits ==
    ASSUME ConstantsOK, VInv, Crash
    PROVE  VInv' /\ SpendingStep
<1>1. Typed /\ HoldsFit /\ WorkFits
    BY DEF VInv
<1>2. /\ NodeTyped /\ WorkTyped /\ RowsTyped /\ PaysTyped /\ leaked \subseteq Coins
      /\ held \subseteq Splits
    BY <1>1 DEF Typed, SplitsTyped
<1>3. leaked' = leaked \cup InHand /\ work.inputs \subseteq Coins
    BY <1>2 DEF Crash, InHand, WorkTyped
<1>4. \A c \in InHand : Taken(c)
  <2> SUFFICES ASSUME NEW c \in InHand PROVE Taken(c)
    OBVIOUS
  <2>1. work.step = "reserved" /\ c \in work.inputs /\ row[c].by = work.request
    BY <1>1 DEF InHand, WorkFits
  <2>2. pay[work.request].state = "none" /\ work.request \in Requests
    BY <1>1, <1>2, <2>1 DEF WorkFits, WorkTyped
  <2> QED
    BY <2>1, <2>2 DEF Taken, ConstantsOK
<1>5. WorkTyped' /\ WorkFits'
    BY WorkDropped DEF Crash
<1>6. RowsKept /\ PaysKept
    BY <1>2, RowsStill, PaysStill DEF Crash
<1>7. NodeTyped' /\ \A t \in Splits : Known(SplitTx(t))' => Known(SplitTx(t))
    BY <1>2 DEF NodeTyped, Known, Crash
<1>8. leaked' \subseteq Coins /\ (\A c \in leaked' : Taken(c)) /\ InHand \subseteq InHand' \cup leaked'
    BY <1>1, <1>2, <1>3, <1>4 DEF HoldsFit, InHand
<1>9. held' \subseteq held /\ leaked \subseteq leaked'
    BY <1>3 DEF Crash
<1> QED
    BY <1>5, <1>6, <1>7, <1>8, <1>9, MoneyStep DEF Crash

\* A step of the money that changes who holds what: the splits stay, and the
\* sources of those not revoked are not among the coins it touches.
LEMMA HoldingStep ==
    ASSUME VInv, RowsTyped', PaysTyped', WorkTyped', HoldsFit', WorkFits',
           UNCHANGED <<node, split, probed, held, leaked>>, revoked \subseteq revoked', revoked' \subseteq Splits,
           \A s \in Splits \ revoked' : split[s].state \in Under => ~Taken(split[s].source)',
           \A c \in Coins : Gone(c) => Gone(c)',
           \A r \in Requests : pay[r].state # "none" =>
             /\ pay'[r].inputs = pay[r].inputs
             /\ pay[r].state \in Closed => pay'[r].state \in Closed
    PROVE  VInv' /\ SpendingStep
<1>1. Typed /\ ClaimsFit /\ SentFit
    BY DEF VInv
<1>2. Typed'
    BY <1>1 DEF Typed, NodeTyped, SplitsTyped
<1>3. ClaimsFit'
  <2>1. \A s \in Splits \ revoked' : split[s].state \in {"Broadcast", "Confirmed"} =>
          Gone(split[s].source)'
    <3> SUFFICES ASSUME NEW s \in Splits \ revoked', split[s].state \in {"Broadcast", "Confirmed"}
                 PROVE  Gone(split[s].source)'
      OBVIOUS
    <3>1. split[s].source \in Coins /\ Gone(split[s].source)
      BY <1>1 DEF ClaimsFit, Under
    <3>2. row'[split[s].source].state = "Spent" /\ row'[split[s].source].spentBy # NoTx
      BY <3>1 DEF Gone
    <3> QED
      BY <3>2 DEF Gone
  <2>2. \A s \in Splits \ revoked' : split'[s].state \in Under =>
          split'[s].source \in Coins /\ ~Taken(split[s].source)'
    BY <1>1 DEF ClaimsFit
  <2>3. \A s, t \in Splits \ revoked' :
         s # t /\ split'[s].state \in Under /\ split'[t].state \in Under =>
           split'[s].source # split'[t].source
    BY <1>1 DEF ClaimsFit
  <2> QED
    BY <2>1, <2>2, <2>3 DEF ClaimsFit, Under
<1>4. SentFit'
    BY <1>1, SentFrame DEF Known
<1>5. SpendingStep
    BY DEF SpendingStep, Gone
<1> QED
    BY <1>2, <1>3, <1>4, <1>5 DEF VInv

\* A coin on reserve for a request is not a split's source: the source of a
\* live split is claimed, that of a confirmed one is gone.
LEMMA ReservableFree ==
    ASSUME VInv, NEW c \in Coins, Reservable(c), NEW s \in Splits \ revoked, split[s].state \in Under
    PROVE  split[s].source # c
<1>1. SUFFICES ASSUME split[s].source = c PROVE FALSE
    OBVIOUS
<1>2. split[s].state \notin {"Built", "Signed", "Broadcast"}
    BY <1>1 DEF Reservable, LiveSplitClaim, LiveSplit
<1>3. split[s].state = "Confirmed"
    BY <1>2 DEF Under
<1>4. Gone(c)
    BY <1>1, <1>3 DEF VInv, ClaimsFit
<1> QED
    BY <1>4 DEF Gone, Reservable, ZeroConfChange

LEMMA ReserveFits ==
    ASSUME ConstantsOK, VInv, ReserveVaultUtxos
    PROVE  VInv' /\ SpendingStep
<1>1. Typed /\ HoldsFit /\ WorkFits /\ ClaimsFit
    BY DEF VInv
<1>2. NodeTyped /\ WorkTyped /\ RowsTyped /\ PaysTyped /\ leaked \subseteq Coins
    BY <1>1 DEF Typed
<1>3. work.step = "planned"
    BY DEF ReserveVaultUtxos
<1>4. work.request \in Requests /\ work.inputs \subseteq Coins /\ pay[work.request].state = "none"
    BY <1>1, <1>2, <1>3 DEF WorkTyped, WorkFits
<1>5. CASE row' = row /\ work' = NoWork
  <2>1. WorkTyped' /\ WorkFits'
    BY <1>5, WorkDropped
  <2>2. InHand \subseteq InHand' \cup leaked'
    BY <1>3 DEF InHand
  <2>3. NodeTyped' /\ \A t \in Splits : Known(SplitTx(t))' => Known(SplitTx(t))
    BY <1>2 DEF NodeTyped, Known, ReserveVaultUtxos
  <2> QED
    BY <1>5, <2>1, <2>2, <2>3, WorkStep DEF ReserveVaultUtxos
<1>6. CASE /\ \A c \in work.inputs : Reservable(c)
           /\ row' = [c \in Coins |-> IF c \in work.inputs
                        THEN [row[c] EXCEPT !.state = "Reserved", !.by = work.request] ELSE row[c]]
           /\ work' = [work EXCEPT !.step = "reserved"]
  <2> PICK r \in Requests : r = work.request
    BY <1>4
  <2>1. WorkTyped' /\ work'.step = "reserved" /\ work'.request = r /\ work'.inputs = work.inputs
    BY <1>2, <1>3, <1>6, WorkRewrites DEF WorkSteps
  <2>2. ASSUME NEW c \in work.inputs
        PROVE  Fields(row'[c], "Reserved", r, row[c].spentBy)
    <3>1. c \in Coins /\ RowShape(row[c])
      BY <1>2, <1>4, <2>2 DEF RowsTyped
    <3>2. row'[c] = [row[c] EXCEPT !.state = "Reserved", !.by = r]
      BY <1>6, <3>1
    <3>3. Fields([row[c] EXCEPT !.state = "Reserved", !.by = r], "Reserved", r, row[c].spentBy)
      BY <3>1, RowRewrites
    <3> QED
      BY <3>2, <3>3
  <2>3. \A c \in Coins : c \notin work.inputs => row'[c] = row[c]
    BY <1>6
  <2>4. \A c \in work.inputs : row[c].state \in {"Available", "Unconfirmed"}
    BY <1>6 DEF Reservable, ZeroConfChange
  <2>5. \A c \in work.inputs : row'[c].state = "Reserved" /\ row'[c].by = r
    BY <2>2 DEF Fields
  <2>6. RowsTyped'
    <3>1. row' = [c \in Coins |-> row'[c]]
      BY <1>6
    <3>2. \A c \in Coins : /\ RowShape(row'[c]) /\ row'[c].state \in RowStates
                           /\ row'[c].by \in Requests \cup {NoRequest}
      BY <1>2, <2>2, <2>3 DEF Fields, RowsTyped, RowStates
    <3> QED
      BY <3>1, <3>2 DEF RowsTyped
  <2>7. pay' = pay /\ leaked' = leaked /\ split' = split /\ r # NoRequest
    BY DEF ReserveVaultUtxos, ConstantsOK
  <2>8. \A c \in work.inputs : ~Taken(c)
    BY <1>1, <1>4, <2>4 DEF HoldsFit
  <2>9. \A q \in Requests : pay[q].inputs \cap work.inputs = {}
    BY <1>1, <2>8 DEF HoldsFit, Taken, ConstantsOK
  <2>10. leaked \cap work.inputs = {}
    BY <1>1, <2>8 DEF HoldsFit
  <2>11. InHand' = work.inputs /\ InHand = {}
    BY <1>3, <2>1 DEF InHand
  <2>12. HoldsFit'
    <3>1. \A c \in Coins : Taken(c)' => row'[c].state \in {"Reserved", "Spent"}
      BY <1>1, <2>3, <2>5 DEF HoldsFit, Taken
    <3>2. \A c \in Coins : Taken(c)' /\ pay'[row'[c].by].state \notin Closed => row'[c].state = "Reserved"
      BY <1>1, <2>3, <2>5, <2>7 DEF HoldsFit, Taken
    <3>3. \A c \in Coins : row'[c].state = "Reserved" =>
             /\ Taken(c)' /\ pay'[row'[c].by].state \notin Closed
             /\ c \in pay'[row'[c].by].inputs \/ c \in leaked' \/ c \in InHand'
      BY <1>1, <1>4, <2>3, <2>5, <2>7, <2>11 DEF HoldsFit, Taken, Closed
    <3>4. \A c \in leaked' : Taken(c)'
      BY <1>1, <1>2, <2>3, <2>7, <2>10 DEF HoldsFit, Taken
    <3>5. \A q \in Requests : \A c \in pay'[q].inputs : row'[c].by = q
      BY <1>1, <1>2, <2>3, <2>7, <2>9 DEF HoldsFit, PaysTyped
    <3>6. \A q \in Requests : pay'[q].state = "none" => pay'[q].inputs = {}
      BY <1>1, <2>7 DEF HoldsFit
    <3> QED
      BY <3>1, <3>2, <3>3, <3>4, <3>5, <3>6 DEF HoldsFit
  <2>13. WorkFits'
    BY <1>4, <2>1, <2>5, <2>7 DEF WorkFits
  <2>14. PaysTyped'
    BY <1>2, <2>7 DEF PaysTyped
  <2>15. \A c \in Coins : Gone(c) => Gone(c)'
    BY <2>3, <2>4 DEF Gone
  <2>16. \A s \in Splits \ revoked : split[s].state \in Under => ~Taken(split[s].source)'
    <3> SUFFICES ASSUME NEW s \in Splits \ revoked, split[s].state \in Under
                 PROVE  ~Taken(split[s].source)'
      OBVIOUS
    <3>1. split[s].source \in Coins /\ ~Taken(split[s].source)
      BY <1>1 DEF ClaimsFit
    <3>2. split[s].source \notin work.inputs
      BY <1>4, <1>6, ReservableFree
    <3>3. row'[split[s].source].by = row[split[s].source].by
      BY <2>3, <3>1, <3>2
    <3> QED
      BY <2>7, <3>1, <3>3 DEF Taken
  <2>17. \A q \in Requests : pay[q].state # "none" =>
             /\ pay'[q].inputs = pay[q].inputs
             /\ pay[q].state \in Closed => pay'[q].state \in Closed
    BY <2>7
  <2> QED
    BY <1>1, <2>1, <2>6, <2>12, <2>13, <2>14, <2>15, <2>16, <2>17, HoldingStep 
       DEF ReserveVaultUtxos, Typed, SplitsTyped
<1> QED
    BY <1>5, <1>6 DEF ReserveVaultUtxos

\* The row of the plan takes over what the daemon had in hand.
LEMMA BuiltFits ==
    ASSUME ConstantsOK, VInv, RecordPayoutBuilt
    PROVE  VInv' /\ SpendingStep
<1>1. Typed /\ HoldsFit /\ WorkFits /\ ClaimsFit
    BY DEF VInv
<1>2. NodeTyped /\ WorkTyped /\ RowsTyped /\ PaysTyped /\ leaked \subseteq Coins
    BY <1>1 DEF Typed
<1>3. work.step = "reserved"
    BY DEF RecordPayoutBuilt
<1>4. work.request \in Requests /\ work.inputs \subseteq Coins /\ pay[work.request].state = "none"
    BY <1>1, <1>2, <1>3 DEF WorkTyped, WorkFits
<1> PICK r \in Requests : r = work.request
    BY <1>4
<1>5. PICK ch : pay' = [pay EXCEPT ![r] = [state |-> "Built", inputs |-> work.inputs, change |-> ch,
                                           confs |-> 0, depth |-> 0]]
    BY DEF RecordPayoutBuilt
<1>6. PICK x : x = [state |-> "Built", inputs |-> work.inputs, change |-> ch, confs |-> 0, depth |-> 0]
    OBVIOUS
<1>7. PayShape(x) /\ x.state = "Built" /\ x.inputs = work.inputs
    BY <1>6 DEF PayShape
<1>8. pay'[r] = x /\ \A q \in Requests : q # r => pay'[q] = pay[q]
    BY <1>2, <1>5, <1>6 DEF PaysTyped
<1>9. PaysTyped'
  <2>1. pay' = [q \in Requests |-> pay'[q]]
    BY <1>2, <1>5 DEF PaysTyped
  <2> QED
    BY <1>2, <1>4, <1>7, <1>8, <2>1 DEF PaysTyped, PayStates
<1>10. WorkTyped' /\ work'.step = "built" /\ work'.request = r
    BY <1>2, <1>3, WorkRewrites DEF WorkSteps, RecordPayoutBuilt
<1>11. row' = row /\ leaked' = leaked /\ split' = split
    BY DEF RecordPayoutBuilt
<1>12. RowsTyped'
    BY <1>2, <1>11 DEF RowsTyped
<1>13. WorkFits'
    BY <1>7, <1>8, <1>10 DEF WorkFits
<1>14. pay[r].inputs = {} /\ \A c \in work.inputs : row[c].by = r
    BY <1>1, <1>3, <1>4 DEF HoldsFit, WorkFits
<1>15. \A c \in Coins : Taken(c) => row[c].by \in Requests
    BY <1>2 DEF RowsTyped, Taken
<1>16. InHand = work.inputs
    BY <1>3 DEF InHand
<1>17. HoldsFit'
  <2>1. \A c \in Coins : Taken(c)' <=> Taken(c)
    BY <1>11 DEF Taken
  <2>2. \A q \in Requests : pay'[q].state \in Closed <=> pay[q].state \in Closed
    BY <1>4, <1>7, <1>8 DEF Closed
  <2>3. \A c \in Coins : Taken(c)' => row'[c].state \in {"Reserved", "Spent"}
    BY <1>1, <1>11, <2>1 DEF HoldsFit
  <2>4. \A c \in Coins : Taken(c)' /\ pay'[row'[c].by].state \notin Closed => row'[c].state = "Reserved"
    BY <1>1, <1>11, <1>15, <2>1, <2>2 DEF HoldsFit
  <2>5. \A c \in Coins : row'[c].state = "Reserved" =>
           /\ Taken(c)' /\ pay'[row'[c].by].state \notin Closed
           /\ c \in pay'[row'[c].by].inputs \/ c \in leaked' \/ c \in InHand'
    <3> SUFFICES ASSUME NEW c \in Coins, row[c].state = "Reserved"
                 PROVE  /\ Taken(c)' /\ pay'[row[c].by].state \notin Closed
                        /\ c \in pay'[row[c].by].inputs \/ c \in leaked
      BY <1>11
    <3>1. /\ Taken(c) /\ pay[row[c].by].state \notin Closed
          /\ c \in pay[row[c].by].inputs \/ c \in leaked \/ c \in work.inputs
      BY <1>1, <1>16 DEF HoldsFit
    <3>2. c \in work.inputs => c \in pay'[row[c].by].inputs
      BY <1>7, <1>8, <1>14
    <3>3. c \in pay[row[c].by].inputs => c \in pay'[row[c].by].inputs
      BY <1>8, <1>14, <1>15, <3>1
    <3> QED
      BY <1>15, <2>1, <2>2, <3>1, <3>2, <3>3
  <2>6. \A c \in leaked' : Taken(c)'
    BY <1>1, <1>2, <1>11, <2>1 DEF HoldsFit
  <2>7. \A q \in Requests : \A c \in pay'[q].inputs : row'[c].by = q
    BY <1>1, <1>7, <1>8, <1>11, <1>14 DEF HoldsFit
  <2>8. \A q \in Requests : pay'[q].state = "none" => pay'[q].inputs = {}
    BY <1>1, <1>7, <1>8 DEF HoldsFit
  <2> QED
    BY <2>3, <2>4, <2>5, <2>6, <2>7, <2>8 DEF HoldsFit
<1>18. \A c \in Coins : Gone(c) => Gone(c)'
    BY <1>11 DEF Gone
<1>19. \A s \in Splits \ revoked : split[s].state \in Under => ~Taken(split[s].source)'
    BY <1>1, <1>11 DEF ClaimsFit, Taken
<1>20. \A q \in Requests : pay[q].state # "none" =>
         /\ pay'[q].inputs = pay[q].inputs
         /\ pay[q].state \in Closed => pay'[q].state \in Closed
    BY <1>4, <1>8
<1> QED
    BY <1>1, <1>9, <1>10, <1>12, <1>13, <1>17, <1>18, <1>19, <1>20, HoldingStep 
       DEF RecordPayoutBuilt, Typed, SplitsTyped

BookedRows(r) ==
    row' = [c \in Coins |-> IF row[c].by = r
              THEN [row[c] EXCEPT !.state = "Spent", !.spentBy = PayTx(r)] ELSE row[c]]

\* The coins of one payout or refund are booked as spent by it, and no others.
LEMMA BookFits ==
    ASSUME ConstantsOK, VInv, NEW r \in Requests, NEW st \in {"Completed", "RefundBroadcast"},
           pay[r].state \in {"Signed", "Confirmed"}, work.step # "idle" => work.request # r,
           pay' = [pay EXCEPT ![r].state = st], BookedRows(r),
           UNCHANGED <<node, split, work, held, probed, leaked, revoked>>
    PROVE  VInv' /\ SpendingStep
<1>1. Typed /\ HoldsFit /\ WorkFits /\ ClaimsFit
    BY DEF VInv
<1>2. NodeTyped /\ WorkTyped /\ RowsTyped /\ PaysTyped /\ leaked \subseteq Coins
    BY <1>1 DEF Typed
<1>3. r # NoRequest /\ st \in Closed /\ st \in PayStates /\ st # "none" /\ pay[r].state # "none"
    BY DEF ConstantsOK, Closed, PayStates
<1>4. PayMoves(r, st)
    BY <1>2, <1>3, PaySteps
<1>5. PaysTyped' /\ (\A q \in Requests : pay'[q].inputs = pay[q].inputs)
      /\ pay'[r].state = st /\ \A q \in Requests : q # r => pay'[q].state = pay[q].state
    BY <1>4 DEF PayMoves
<1>6. ASSUME NEW c \in Coins, row[c].by = r
      PROVE  Fields(row'[c], "Spent", r, PayTx(r))
  <2>1. RowShape(row[c])
    BY <1>2, <1>6 DEF RowsTyped
  <2>2. row'[c] = [row[c] EXCEPT !.state = "Spent", !.spentBy = PayTx(r)]
    BY <1>6 DEF BookedRows
  <2>3. PICK sp : sp = PayTx(r)
    OBVIOUS
  <2>4. Fields([row[c] EXCEPT !.state = "Spent", !.spentBy = sp], "Spent", row[c].by, sp)
    BY <2>1, RowRewrites
  <2> QED
    BY <1>6, <2>2, <2>3, <2>4
<1>7. \A c \in Coins : row[c].by # r => row'[c] = row[c]
    BY DEF BookedRows
<1>8. \A c \in Coins : row[c].by = r =>
        row'[c].state = "Spent" /\ row'[c].by = r /\ row'[c].spentBy # NoTx
    BY <1>6, <1>3, Kinds DEF Fields
<1>9. RowsTyped'
  <2>1. row' = [c \in Coins |-> row'[c]]
    BY DEF BookedRows
  <2>2. \A c \in Coins : /\ RowShape(row'[c]) /\ row'[c].state \in RowStates
                         /\ row'[c].by \in Requests \cup {NoRequest}
    BY <1>2, <1>6, <1>7 DEF Fields, RowsTyped, RowStates
  <2> QED
    BY <2>1, <2>2 DEF RowsTyped
<1>10. \A c \in Coins : row'[c].by = row[c].by
    BY <1>7, <1>8
<1>11. \A c \in Coins : Taken(c) => row[c].by \in Requests
    BY <1>2 DEF RowsTyped, Taken
<1>12. InHand' = InHand /\ WorkTyped'
    BY <1>2 DEF InHand, WorkTyped
<1>13. HoldsFit'
  <2>1. \A c \in Coins : Taken(c)' <=> Taken(c)
    BY <1>10 DEF Taken
  <2>2. \A c \in Coins : Taken(c)' => row'[c].state \in {"Reserved", "Spent"}
    BY <1>1, <1>7, <1>8, <2>1 DEF HoldsFit
  <2>3. \A c \in Coins : Taken(c)' /\ pay'[row'[c].by].state \notin Closed => row'[c].state = "Reserved"
    BY <1>1, <1>3, <1>5, <1>7, <1>8, <1>11, <2>1 DEF HoldsFit
  <2>4. \A c \in Coins : row'[c].state = "Reserved" =>
           /\ Taken(c)' /\ pay'[row'[c].by].state \notin Closed
           /\ c \in pay'[row'[c].by].inputs \/ c \in leaked' \/ c \in InHand'
    <3> SUFFICES ASSUME NEW c \in Coins, row'[c].state = "Reserved"
                 PROVE  /\ Taken(c)' /\ pay'[row'[c].by].state \notin Closed
                        /\ c \in pay'[row'[c].by].inputs \/ c \in leaked' \/ c \in InHand'
      OBVIOUS
    <3>1. row[c].by # r /\ row'[c] = row[c]
      BY <1>7, <1>8
    <3>2. /\ Taken(c) /\ pay[row[c].by].state \notin Closed
          /\ c \in pay[row[c].by].inputs \/ c \in leaked \/ c \in InHand
      BY <1>1, <3>1 DEF HoldsFit
    <3>3. row[c].by \in Requests
      BY <1>11, <3>2
    <3> QED
      BY <1>5, <1>12, <2>1, <3>1, <3>2, <3>3
  <2>5. \A c \in leaked' : Taken(c)'
    BY <1>1, <1>2, <2>1 DEF HoldsFit
  <2>6. \A q \in Requests : \A c \in pay'[q].inputs : row'[c].by = q
    BY <1>1, <1>2, <1>5, <1>10 DEF HoldsFit, PaysTyped
  <2>7. \A q \in Requests : pay'[q].state = "none" => pay'[q].inputs = {}
    BY <1>1, <1>5 DEF HoldsFit
  <2> QED
    BY <2>2, <2>3, <2>4, <2>5, <2>6, <2>7 DEF HoldsFit
<1>14. WorkFits'
  <2>1. work.inputs \subseteq Coins
    BY <1>2 DEF WorkTyped
  <2>2. work.step # "idle" => pay'[work.request].state = pay[work.request].state
    BY <1>2, <1>5 DEF WorkTyped
  <2> QED
    BY <1>1, <1>10, <2>1, <2>2 DEF WorkFits
<1>15. \A c \in Coins : Gone(c) => Gone(c)'
    BY <1>7, <1>8 DEF Gone
<1>16. \A s \in Splits \ revoked : split[s].state \in Under => ~Taken(split[s].source)'
    BY <1>1, <1>3, <1>10 DEF ClaimsFit, Taken
<1>17. \A q \in Requests : pay[q].state # "none" =>
         /\ pay'[q].inputs = pay[q].inputs
         /\ pay[q].state \in Closed => pay'[q].state \in Closed
    BY <1>3, <1>5
<1> QED
    BY <1>1, <1>2, <1>5, <1>9, <1>12, <1>13, <1>14, <1>15, <1>16, <1>17, HoldingStep DEF Typed, SplitsTyped

\* A request settles.
LEMMA CompleteFits ==
    ASSUME ConstantsOK, VInv, NEW r \in Requests, CompletePayout(r)
    PROVE  VInv' /\ SpendingStep
BY BookFits DEF CompletePayout, BookedRows

-----------------------------------------------------------------------------
(* A refund, call by call.                                                  *)

\* The handlers' own memory.
LEMMA ErrandsFit ==
    ASSUME EInv, Next \/ UNCHANGED vars
    PROVE  EInv'
<1>1. ASSUME NEW q \in Refunds, NEW inputs \in SUBSET Coins, PlanRefund(q, inputs) PROVE EInv'
    BY <1>1 DEF EInv, PlanRefund
<1>2. ASSUME NEW q \in Refunds,
             BeginRefund(q) \/ SignRefund(q) \/ SendRefund(q) \/ RecordRefundBroadcast(q) \/ ConfirmRefund(q)
      PROVE  EInv'
  <2>1. \/ errand' = [errand EXCEPT ![q] = NoErrand]
        \/ errand' = [errand EXCEPT ![q] = [step |-> "sent", inputs |-> {}]]
        \/ errand' = errand
    BY <1>2 DEF BeginRefund, SignRefund, SendRefund, RecordRefundBroadcast, ConfirmRefund
  <2> QED
    BY <2>1 DEF EInv, NoErrand
<1>3. CASE Crash
    BY <1>3 DEF EInv, Crash, NoErrand
<1>4. CASE errand' = errand
    BY <1>4 DEF EInv
<1>5. ASSUME NEW s \in Splits,
             \/ \E c \in Coins : BuildSplit(s, c)
             \/ SignSplit(s) \/ ReleaseBuiltSplit(s) \/ SendSplit(s) \/ ResumeSignedSplit(s)
             \/ RecordSplitBroadcast(s) \/ ConfirmSplit(s) \/ DriveBroadcastSplit(s)
             \/ ReadoptSplit(s) \/ WatchExpires(s) \/ ProbeSplit(s) \/ AbandonSplit(s)
      PROVE  errand' = errand
    BY <1>5 DEF BuildSplit, SignSplit, ReleaseBuiltSplit, SendSplit, ResumeSignedSplit,
                RecordSplitBroadcast, ConfirmSplit, DriveBroadcastSplit, ReadoptSplit,
                WatchExpires, ProbeSplit, AbandonSplit
<1>6. ASSUME NEW r \in Requests,
             \/ ValidateZeroConfParent(r)
             \/ \E inputs \in SUBSET Coins : PlanPayout(r, inputs)
             \/ RetryPayout(r) \/ UpdatePayoutConfirmations(r) \/ CompletePayout(r)
      PROVE  errand' = errand
    BY <1>6 DEF ValidateZeroConfParent, PlanPayout, RetryPayout, UpdatePayoutConfirmations, CompletePayout
<1>7. ASSUME \/ \E tx \in Txs : Mine(tx) \/ Evict(tx)
             \/ ListUnspent \/ SyncVaultUtxos \/ ReserveVaultUtxos \/ RecordPayoutBuilt
             \/ RecordPayoutSigned \/ SendPayout \/ RecordPayoutBroadcast \/ MoveFloor
             \/ UNCHANGED vars
      PROVE  errand' = errand
    BY <1>7 DEF Mine, Evict, ListUnspent, SyncVaultUtxos, ReserveVaultUtxos, RecordPayoutBuilt,
                RecordPayoutSigned, SendPayout, RecordPayoutBroadcast, MoveFloor, vars
<1> QED
    BY <1>1, <1>2, <1>3, <1>4, <1>5, <1>6, <1>7 DEF Next

LEMMA PlanRefundFits ==
    ASSUME VInv, NEW q \in Refunds, NEW inputs \in SUBSET Coins, PlanRefund(q, inputs)
    PROVE  VInv' /\ SpendingStep
<1>1. RowsTyped /\ NodeTyped
    BY DEF VInv, Typed
<1>2. RowsKept
    BY <1>1, RowsStill DEF PlanRefund
<1>3. NodeTyped' /\ \A t \in Splits : Known(SplitTx(t))' => Known(SplitTx(t))
    BY <1>1 DEF NodeTyped, Known, PlanRefund
<1> QED
    BY <1>2, <1>3, PlainStep DEF PlanRefund

\* The refund takes coins nobody holds; a split that had claimed one of them is
\* revoked by that.
LEMMA BeginFits ==
    ASSUME ConstantsOK, VInv, EInv, NEW r \in Refunds, BeginRefund(r)
    PROVE  VInv' /\ SpendingStep
<1>1. Typed /\ HoldsFit /\ WorkFits /\ ClaimsFit
    BY DEF VInv
<1>2. /\ NodeTyped /\ WorkTyped /\ RowsTyped /\ PaysTyped /\ leaked \subseteq Coins
      /\ revoked \subseteq Splits
    BY <1>1 DEF Typed, SplitsTyped
<1>3. r \in Requests /\ r # NoRequest
    BY DEF ConstantsOK
<1>4. PICK taken \in SUBSET Coins : taken = errand[r].inputs
    BY DEF EInv
<1>5. CASE UNCHANGED <<pay, row, revoked>>
  <2>1. RowsKept
    BY <1>2, <1>5, RowsStill
  <2>2. NodeTyped' /\ \A t \in Splits : Known(SplitTx(t))' => Known(SplitTx(t))
    BY <1>2 DEF NodeTyped, Known, BeginRefund
  <2> QED
    BY <1>5, <2>1, <2>2, PlainStep DEF BeginRefund
<1>6. ASSUME pay[r].state = "none", \A c \in taken : Takeable(c),
             NEW ch, pay' = [pay EXCEPT ![r] = [state |-> "Built", inputs |-> taken, change |-> ch,
                                                confs |-> 0, depth |-> 0]],
             row' = [c \in Coins |-> IF c \in taken
                       THEN [row[c] EXCEPT !.state = "Reserved", !.by = r] ELSE row[c]],
             revoked' = revoked \cup {s \in Splits : LiveSplit(s) /\ split[s].source \in taken}
      PROVE  VInv' /\ SpendingStep
  <2>1. ASSUME NEW c \in taken
        PROVE  Fields(row'[c], "Reserved", r, row[c].spentBy)
    <3>1. c \in Coins /\ RowShape(row[c])
      BY <1>2, <2>1 DEF RowsTyped
    <3>2. row'[c] = [row[c] EXCEPT !.state = "Reserved", !.by = r]
      BY <1>6, <3>1
    <3>3. Fields([row[c] EXCEPT !.state = "Reserved", !.by = r], "Reserved", r, row[c].spentBy)
      BY <3>1, RowRewrites
    <3> QED
      BY <3>2, <3>3
  <2>2. \A c \in Coins : c \notin taken => row'[c] = row[c]
    BY <1>6
  <2>3. \A c \in taken : row[c].state = "Available"
    BY <1>6 DEF Takeable
  <2>4. \A c \in taken : row'[c].state = "Reserved" /\ row'[c].by = r
    BY <2>1 DEF Fields
  <2>5. RowsTyped'
    <3>1. row' = [c \in Coins |-> row'[c]]
      BY <1>6
    <3>2. \A c \in Coins : /\ RowShape(row'[c]) /\ row'[c].state \in RowStates
                           /\ row'[c].by \in Requests \cup {NoRequest}
      BY <1>2, <1>3, <2>1, <2>2 DEF Fields, RowsTyped, RowStates
    <3> QED
      BY <3>1, <3>2 DEF RowsTyped
  <2>6. PICK x : x = [state |-> "Built", inputs |-> taken, change |-> ch, confs |-> 0, depth |-> 0]
    OBVIOUS
  <2>7. PayShape(x) /\ x.state = "Built" /\ x.inputs = taken
    BY <2>6 DEF PayShape
  <2>8. pay'[r] = x /\ \A q \in Requests : q # r => pay'[q] = pay[q]
    BY <1>2, <1>3, <1>6, <2>6 DEF PaysTyped
  <2>9. PaysTyped'
    <3>1. pay' = [q \in Requests |-> pay'[q]]
      BY <1>2, <1>6 DEF PaysTyped
    <3> QED
      BY <1>2, <2>7, <2>8, <3>1 DEF PaysTyped, PayStates
  <2>10. work' = work /\ leaked' = leaked /\ split' = split /\ WorkTyped' /\ InHand' = InHand
    BY <1>2 DEF BeginRefund, WorkTyped, InHand
  <2>11. \A c \in taken : ~Taken(c)
    BY <1>1, <2>3 DEF HoldsFit
  <2>12. \A q \in Requests : pay[q].inputs \cap taken = {}
    BY <1>1, <2>11 DEF HoldsFit, Taken, ConstantsOK
  <2>13. leaked \cap taken = {}
    BY <1>1, <2>11 DEF HoldsFit
  <2>14. pay[r].inputs = {} /\ \A c \in Coins : Taken(c) => row[c].by \in Requests
    BY <1>1, <1>2, <1>3, <1>6 DEF HoldsFit, RowsTyped, Taken
  <2>15. "Built" \notin Closed /\ "none" \notin Closed
    BY DEF Closed
  <2>16. \A q \in Requests : pay'[q].state \in Closed <=> pay[q].state \in Closed
    BY <1>6, <2>7, <2>8, <2>15
  <2>17. HoldsFit'
    <3>1. \A c \in Coins : Taken(c)' => row'[c].state \in {"Reserved", "Spent"}
      BY <1>1, <2>2, <2>4 DEF HoldsFit, Taken
    <3>2. \A c \in Coins : Taken(c)' /\ pay'[row'[c].by].state \notin Closed => row'[c].state = "Reserved"
      BY <1>1, <2>2, <2>4, <2>14, <2>16 DEF HoldsFit, Taken
    <3>3. \A c \in Coins : row'[c].state = "Reserved" =>
             /\ Taken(c)' /\ pay'[row'[c].by].state \notin Closed
             /\ c \in pay'[row'[c].by].inputs \/ c \in leaked' \/ c \in InHand'
      <4> SUFFICES ASSUME NEW c \in Coins, row'[c].state = "Reserved"
                   PROVE  /\ Taken(c)' /\ pay'[row'[c].by].state \notin Closed
                          /\ c \in pay'[row'[c].by].inputs \/ c \in leaked' \/ c \in InHand'
        OBVIOUS
      <4>1. CASE c \in taken
        BY <1>3, <2>4, <2>7, <2>8, <2>15, <4>1 DEF Taken
      <4>2. CASE c \notin taken
        <5>1. row'[c] = row[c] /\ row[c].state = "Reserved"
          BY <2>2, <4>2
        <5>2. /\ Taken(c) /\ pay[row[c].by].state \notin Closed
              /\ c \in pay[row[c].by].inputs \/ c \in leaked \/ c \in InHand
          BY <1>1, <5>1 DEF HoldsFit
        <5>3. row[c].by \in Requests
          BY <2>14, <5>2
        <5>4. c \in pay[row[c].by].inputs => c \in pay'[row[c].by].inputs
          BY <2>8, <2>14, <5>3
        <5>5. Taken(c)'
          BY <5>1, <5>2 DEF Taken
        <5> QED
          BY <2>10, <2>16, <5>1, <5>2, <5>3, <5>4, <5>5
      <4> QED
        BY <4>1, <4>2
    <3>4. \A c \in leaked' : Taken(c)'
      BY <1>1, <1>2, <2>2, <2>10, <2>13 DEF HoldsFit, Taken
    <3>5. \A q \in Requests : \A c \in pay'[q].inputs : row'[c].by = q
      BY <1>1, <1>2, <2>2, <2>4, <2>7, <2>8, <2>12 DEF HoldsFit, PaysTyped
    <3>6. \A q \in Requests : pay'[q].state = "none" => pay'[q].inputs = {}
      BY <1>1, <2>7, <2>8 DEF HoldsFit
    <3> QED
      BY <3>1, <3>2, <3>3, <3>4, <3>5, <3>6 DEF HoldsFit
  <2>18. WorkFits'
    <3>1. work.inputs \subseteq Coins
      BY <1>2 DEF WorkTyped
    <3>2. work.step # "idle" => work.request # r /\ work.request \in Requests
      BY <1>2 DEF WorkTyped
    <3>3. work.step # "idle" => pay'[work.request] = pay[work.request]
      BY <2>8, <3>2
    <3>4. ASSUME work.step = "reserved", NEW c \in work.inputs
          PROVE  row'[c].by = work.request
      <4>1. row[c].by = work.request /\ Taken(c)
        BY <1>1, <3>2, <3>4 DEF WorkFits, Taken, ConstantsOK
      <4> QED
        BY <2>2, <2>11, <3>1, <3>4, <4>1
    <3> QED
      BY <1>1, <2>10, <3>3, <3>4 DEF WorkFits
  <2>19. \A c \in Coins : Gone(c) => Gone(c)'
    BY <2>2, <2>3 DEF Gone
  <2>20. \A s \in Splits \ revoked' : split[s].state \in Under => ~Taken(split[s].source)'
    <3> SUFFICES ASSUME NEW s \in Splits \ revoked', split[s].state \in Under
                 PROVE  ~Taken(split[s].source)'
      OBVIOUS
    <3>1. s \notin revoked /\ split[s].source \in Coins /\ ~Taken(split[s].source)
      BY <1>1, <1>6 DEF ClaimsFit
    <3>2. split[s].source \notin taken
      <4>1. CASE LiveSplit(s)
        BY <1>6, <4>1
      <4>2. CASE split[s].state = "Confirmed"
        BY <1>1, <2>3, <3>1, <4>2 DEF ClaimsFit, Gone
      <4> QED
        BY <4>1, <4>2 DEF Under, LiveSplit
    <3>3. row'[split[s].source].by = row[split[s].source].by
      BY <2>2, <3>1, <3>2
    <3> QED
      BY <2>10, <3>1, <3>3 DEF Taken
  <2>21. \A q \in Requests : pay[q].state # "none" =>
             /\ pay'[q].inputs = pay[q].inputs
             /\ pay[q].state \in Closed => pay'[q].state \in Closed
    BY <1>6, <2>8
  <2>22. revoked \subseteq revoked' /\ revoked' \subseteq Splits
    BY <1>2, <1>6
  <2> QED
    BY <2>5, <2>9, <2>10, <2>17, <2>18, <2>19, <2>20, <2>21, <2>22, HoldingStep DEF BeginRefund
<1> QED
    BY <1>4, <1>5, <1>6 DEF BeginRefund

\* A refund is signed; the work in hand is another request's.
LEMMA SignRefundFits ==
    ASSUME ConstantsOK, VInv, NEW q \in Refunds, SignRefund(q)
    PROVE  VInv' /\ SpendingStep
<1>1. Typed /\ HoldsFit /\ WorkFits
    BY DEF VInv
<1>2. NodeTyped /\ WorkTyped /\ RowsTyped /\ PaysTyped /\ leaked \subseteq Coins
    BY <1>1 DEF Typed
<1>3. q \in Requests /\ "Signed" \in PayStates /\ "Signed" \notin Closed /\ "Built" \notin Closed
    BY DEF ConstantsOK, PayStates, Closed
<1>4. PayMoves(q, "Signed")
    BY <1>2, <1>3, PaySteps DEF SignRefund
<1>5. PaysKept
    BY <1>2, <1>3, <1>4, PaysMove DEF SignRefund
<1>6. WorkTyped' /\ WorkFits'
  <2>1. work.step # "idle" => pay'[work.request].state = pay[work.request].state
    BY <1>2, <1>4 DEF WorkTyped, PayMoves
  <2> QED
    BY <1>1, <1>2, <2>1 DEF WorkTyped, WorkFits, SignRefund
<1>7. RowsKept
    BY <1>2, RowsStill DEF SignRefund
<1>8. NodeTyped' /\ \A t \in Splits : Known(SplitTx(t))' => Known(SplitTx(t))
    BY <1>2 DEF NodeTyped, Known, SignRefund
<1>9. leaked' = leaked /\ (\A c \in leaked' : Taken(c)) /\ InHand \subseteq InHand' \cup leaked'
    BY <1>1 DEF HoldsFit, InHand, SignRefund
<1> QED
    BY <1>2, <1>5, <1>6, <1>7, <1>8, <1>9, MoneyStep DEF SignRefund

LEMMA SendRefundFits ==
    ASSUME ConstantsOK, VInv, NEW q \in Refunds, SendRefund(q)
    PROVE  VInv' /\ SpendingStep
<1>1. NodeTyped /\ RowsTyped
    BY DEF VInv, Typed
<1>2. PICK tx \in Txs : tx = PayTx(q)
    BY Kinds DEF ConstantsOK
<1>3. node' = Sent(tx)
    BY <1>2 DEF SendRefund
<1>4. NodeTyped' /\ \A t \in Txs : t # tx => (Known(t)' <=> Known(t))
    BY <1>1, <1>3, SentNode
<1>5. ASSUME NEW t \in Splits PROVE Known(SplitTx(t))' => Known(SplitTx(t))
  <2>1. SplitTx(t) \in Txs /\ SplitTx(t) # tx
    BY <1>2, <1>5, Kinds
  <2> QED
    BY <1>4, <2>1
<1>6. RowsKept
    BY <1>1, RowsStill DEF SendRefund
<1> QED
    BY <1>4, <1>5, <1>6, PlainStep DEF SendRefund

LEMMA RecordRefundFits ==
    ASSUME ConstantsOK, VInv, NEW q \in Refunds, RecordRefundBroadcast(q)
    PROVE  VInv' /\ SpendingStep
<1>1. RowsTyped /\ NodeTyped /\ WorkTyped
    BY DEF VInv, Typed
<1>2. q \in Requests /\ (work.step # "idle" => work.request # q)
    BY <1>1 DEF ConstantsOK, WorkTyped
<1>3. CASE pay[q].state = "Signed"
    BY <1>2, <1>3, BookFits DEF RecordRefundBroadcast, BookedRows
<1>4. CASE UNCHANGED <<pay, row>>
  <2>1. RowsKept
    BY <1>1, <1>4, RowsStill
  <2>2. NodeTyped' /\ \A t \in Splits : Known(SplitTx(t))' => Known(SplitTx(t))
    BY <1>1 DEF NodeTyped, Known, RecordRefundBroadcast
  <2> QED
    BY <1>4, <2>1, <2>2, PlainStep DEF RecordRefundBroadcast
<1> QED
    BY <1>3, <1>4 DEF RecordRefundBroadcast

LEMMA ConfirmRefundFits ==
    ASSUME ConstantsOK, VInv, NEW q \in Refunds, ConfirmRefund(q)
    PROVE  VInv' /\ SpendingStep
<1>1. NodeTyped /\ PaysTyped
    BY DEF VInv, Typed
<1>2. /\ q \in Requests /\ "Refunded" \in PayStates /\ "Refunded" \in Closed
      /\ pay[q].state = "RefundBroadcast" /\ "RefundBroadcast" \in Closed
    BY DEF ConstantsOK, PayStates, Closed, ConfirmRefund
<1>3. PayMoves(q, "Refunded")
    BY <1>1, <1>2, PaySteps DEF ConfirmRefund
<1>4. PaysKept
    BY <1>2, <1>3 DEF PayMoves, PaysKept
<1>5. \A r \in Requests : pay[r].state \in {"none", "Built"} => pay'[r].state = pay[r].state
    BY <1>2, <1>3 DEF PayMoves
<1>6. NodeTyped' /\ \A t \in Splits : Known(SplitTx(t))' => Known(SplitTx(t))
    BY <1>1 DEF NodeTyped, Known, ConfirmRefund
<1> QED
    BY <1>4, <1>5, <1>6, PayStep DEF ConfirmRefund

-----------------------------------------------------------------------------
(* The splits.                                                              *)

\* One row of vault_utxo_splits moves.
LEMMA SplitRewrites ==
    ASSUME split \in [Splits -> SplitRow], NEW s \in Splits, NEW x \in SplitRow,
           split' = [split EXCEPT ![s] = x]
    PROVE  /\ split' \in [Splits -> SplitRow] /\ split'[s] = x
           /\ \A t \in Splits : t # s => split'[t] = split[t]
OBVIOUS

\* The rewrites the calls make, column by column.
SplitMoves(s, state, txid) ==
    /\ split' \in [Splits -> SplitRow]
    /\ \A t \in Splits : t # s => split'[t] = split[t]
    /\ \A t \in Splits : split'[t].source = split[t].source
    /\ split'[s].state = state /\ split'[s].txid = txid

LEMMA SplitMoveOne ==
    ASSUME split \in [Splits -> SplitRow], NEW s \in Splits, NEW st \in SplitStates,
           NEW tx \in BOOLEAN, NEW m \in BOOLEAN, NEW x,
           \/ x = [split[s] EXCEPT !.state = st] /\ tx = split[s].txid
           \/ x = [split[s] EXCEPT !.state = st, !.txid = tx]
           \/ x = [split[s] EXCEPT !.state = st, !.missing = m] /\ tx = split[s].txid
           \/ x = [split[s] EXCEPT !.missing = m] /\ st = split[s].state /\ tx = split[s].txid
           \/ x = [split[s] EXCEPT !.watched = m] /\ st = split[s].state /\ tx = split[s].txid,
           split' = [split EXCEPT ![s] = x]
    PROVE  SplitMoves(s, st, tx)
<1>0. split[s] \in SplitRow
    OBVIOUS
<1>1. x \in SplitRow /\ x.state = st /\ x.txid = tx /\ x.source = split[s].source
    BY <1>0 DEF SplitRow
<1>2. /\ split' \in [Splits -> SplitRow] /\ split'[s] = x
      /\ \A t \in Splits : t # s => split'[t] = split[t]
    BY <1>1, SplitRewrites
<1> QED
    BY <1>1, <1>2 DEF SplitMoves

\* A split that moves without its row of coins changing.
LEMMA SplitMove ==
    ASSUME VInv, NEW s \in Splits, NEW st, NEW tx, SplitMoves(s, st, tx),
           RowsKept, NodeTyped', pay' = pay, work' = work, leaked' = leaked,
           held' \subseteq held \cup {s}, revoked \subseteq revoked', revoked' \subseteq Splits,
           probed' \in [Splits -> {"no", "built", "absent"}],
           \A t \in Splits : t # s => /\ probed'[t] = probed[t]
                                      /\ Known(SplitTx(t))' => Known(SplitTx(t)),
           s \notin revoked' => (st \in Under => split[s].state \in Under),
           s \notin revoked' => (st \in {"Broadcast", "Confirmed"} => Gone(split[s].source)'),
           s \notin revoked' => (s \in held' \/ Known(SplitTx(s))' =>
              st \in {"Signed", "Broadcast", "Confirmed"}),
           st \in {"none", "Built"} => ~tx /\ probed'[s] # "absent",
           st = "Abandoned" /\ tx => s \in revoked'
    PROVE  VInv' /\ SpendingStep
<1>1. Typed /\ ClaimsFit /\ SentFit
    BY DEF VInv
<1>2. held \subseteq Splits
    BY <1>1 DEF Typed, SplitsTyped
<1>3. /\ \A t \in Splits : t # s => split'[t] = split[t]
      /\ \A t \in Splits : split'[t].source = split[t].source
      /\ split'[s].state = st /\ split'[s].txid = tx /\ split' \in [Splits -> SplitRow]
    BY DEF SplitMoves
<1>4. SplitsTyped'
    BY <1>2, <1>3 DEF SplitsTyped
<1>5. \A c \in Coins : row'[c].by = row[c].by
    BY DEF RowsKept
<1>6. \A c \in Coins : Gone(c) => Gone(c)'
    BY DEF RowsKept
<1>7. ClaimsFit'
    BY <1>1, <1>3, <1>5, <1>6, ClaimsMove
<1>8. SentFit'
    BY <1>1, <1>3, SentMove
<1> QED
    BY <1>4, <1>7, <1>8, SplitStep

\* A new split takes a coin that is available and that no other claims.
LEMMA BuildFits ==
    ASSUME VInv, NEW s \in Splits, NEW c \in Coins, BuildSplit(s, c)
    PROVE  VInv' /\ SpendingStep
<1>1. Typed /\ HoldsFit /\ ClaimsFit /\ SentFit
    BY DEF VInv
<1>2. NodeTyped /\ RowsTyped /\ SplitsTyped
    BY <1>1 DEF Typed
<1>3. split \in [Splits -> SplitRow] /\ split[s].state = "none"
    BY <1>2 DEF BuildSplit, SplitsTyped
<1>4. PICK x : x = [split[s] EXCEPT !.state = "Built", !.source = c]
    OBVIOUS
<1>5. split[s] \in SplitRow
    BY <1>3
<1>6. x \in SplitRow /\ x.state = "Built" /\ x.source = c /\ x.txid = split[s].txid
    BY <1>4, <1>5 DEF SplitRow, SplitStates
<1>7. split' = [split EXCEPT ![s] = x]
    BY <1>3, <1>4 DEF BuildSplit
<1>8. /\ split' \in [Splits -> SplitRow] /\ split'[s] = x
      /\ \A t \in Splits : t # s => split'[t] = split[t]
    BY <1>3, <1>6, <1>7, SplitRewrites
<1>9. UNCHANGED <<node, row, pay, work, held, probed, leaked, revoked>>
    BY DEF BuildSplit
<1>10. SplitsTyped'
    BY <1>2, <1>8, <1>9 DEF SplitsTyped
<1>11. /\ row[c].state = "Available"
       /\ \A t \in Splits : split[t].state \in Under => split[t].source # c
    BY DEF BuildSplit, SplitCandidate, AvailableVaultUtxos, Under
<1>12. ~Taken(c)
    BY <1>1, <1>11 DEF HoldsFit
<1>13. ClaimsFit'
  <2>1. \A t \in Splits \ revoked' : split'[t].state \in Under =>
          split'[t].source \in Coins /\ ~Taken(split[t].source)'
    <3> SUFFICES ASSUME NEW t \in Splits \ revoked, split'[t].state \in Under
                 PROVE  split'[t].source \in Coins /\ ~Taken(split[t].source)'
      BY <1>9
    <3>1. CASE t = s
      BY <1>6, <1>8, <1>9, <1>12, <3>1 DEF Taken
    <3>2. CASE t # s
      <4>1. split'[t] = split[t] /\ split[t].source \in Coins /\ ~Taken(split[t].source)
        BY <1>1, <1>8, <3>2 DEF ClaimsFit
      <4> QED
        BY <1>9, <4>1 DEF Taken
    <3> QED
      BY <3>1, <3>2
  <2>2. \A t \in Splits \ revoked' : split'[t].state \in {"Broadcast", "Confirmed"} =>
          Gone(split[t].source)'
    BY <1>1, <1>6, <1>8, <1>9 DEF ClaimsFit, Gone
  <2>3. \A t, u \in Splits \ revoked' :
          t # u /\ split'[t].state \in Under /\ split'[u].state \in Under =>
            split'[t].source # split'[u].source
    BY <1>1, <1>6, <1>8, <1>9, <1>11 DEF ClaimsFit
  <2> QED
    BY <2>1, <2>2, <2>3 DEF ClaimsFit, Under
<1>14. \A t \in Splits : Known(SplitTx(t))' <=> Known(SplitTx(t))
    BY <1>9 DEF Known
<1>15. SentFit'
  <2>1. ~split[s].txid /\ probed[s] # "absent"
    BY <1>1, <1>3 DEF SentFit
  <2>2. s \notin revoked => s \notin held /\ ~Known(SplitTx(s))
    BY <1>1, <1>3 DEF SentFit
  <2> QED
    BY <1>1, <1>6, <1>8, <1>9, <1>14, <2>1, <2>2, SentMove
<1>16. RowsKept
    BY <1>2, <1>9, RowsStill
<1>17. NodeTyped'
    BY <1>2, <1>9 DEF NodeTyped
<1> QED
    BY <1>9, <1>10, <1>13, <1>15, <1>16, <1>17, SplitStep

\* What the invariant says of one split.
LEMMA SplitFacts ==
    ASSUME VInv, NEW s \in Splits
    PROVE  /\ NodeTyped /\ RowsTyped /\ SplitsTyped /\ split \in [Splits -> SplitRow]
           /\ split[s].state \in SplitStates /\ split[s].txid \in BOOLEAN
           /\ split[s].source \in Coins \cup {NoCoin}
           /\ s \notin revoked => (s \in held \/ Known(SplitTx(s)) =>
                split[s].state \in {"Signed", "Broadcast", "Confirmed"})
           /\ split[s].state \in {"none", "Built"} => ~split[s].txid /\ probed[s] # "absent"
           /\ split[s].state = "Abandoned" /\ split[s].txid => s \in revoked
           /\ s \notin revoked => (split[s].state \in {"Broadcast", "Confirmed"} =>
                split[s].source \in Coins /\ Gone(split[s].source))
<1>1. /\ NodeTyped /\ RowsTyped /\ SplitsTyped /\ split \in [Splits -> SplitRow]
      /\ split[s].state \in SplitStates /\ split[s].txid \in BOOLEAN
      /\ split[s].source \in Coins \cup {NoCoin}
    BY DEF VInv, Typed, SplitsTyped, SplitRow
<1>2. /\ s \notin revoked => (s \in held \/ Known(SplitTx(s)) =>
                split[s].state \in {"Signed", "Broadcast", "Confirmed"})
      /\ split[s].state \in {"none", "Built"} => ~split[s].txid /\ probed[s] # "absent"
      /\ split[s].state = "Abandoned" /\ split[s].txid => s \in revoked
    BY DEF VInv, SentFit
<1>3. s \notin revoked => (split[s].state \in {"Broadcast", "Confirmed"} =>
                split[s].source \in Coins /\ Gone(split[s].source))
    BY DEF VInv, ClaimsFit, Under
<1> QED
    BY <1>1, <1>2, <1>3

\* The rows stay: a spent source is still spent.
LEMMA GoneStays ==
    ASSUME RowsKept, NEW s \in Splits, NEW st, NEW tx, SplitMoves(s, st, tx),
           split[s].source \in Coins, Gone(split[s].source)
    PROVE  Gone(split[s].source)'
<1>1. split'[s].source = split[s].source
    BY DEF SplitMoves
<1>2. PICK c \in Coins : c = split[s].source
    OBVIOUS
<1>3. Gone(c)'
    BY <1>2 DEF RowsKept
<1> QED
    BY <1>1, <1>2, <1>3 DEF Gone

LEMMA SplitStill ==
    ASSUME split \in [Splits -> SplitRow], split' = split, NEW s \in Splits
    PROVE  SplitMoves(s, split[s].state, split[s].txid)
BY DEF SplitMoves

\* The splits' ledger calls that change one row of the table and nothing else.
LEMMA SplitLedgerFits ==
    ASSUME VInv, NEW s \in Splits,
           SignSplit(s) \/ ReleaseBuiltSplit(s) \/ ConfirmSplit(s) \/ ReadoptSplit(s) \/ WatchExpires(s)
    PROVE  VInv' /\ SpendingStep
<1>1. /\ NodeTyped /\ RowsTyped /\ SplitsTyped /\ split \in [Splits -> SplitRow]
      /\ split[s].state \in SplitStates /\ split[s].txid \in BOOLEAN
      /\ s \notin revoked => (s \in held \/ Known(SplitTx(s)) =>
                split[s].state \in {"Signed", "Broadcast", "Confirmed"})
      /\ split[s].state \in {"none", "Built"} => ~split[s].txid /\ probed[s] # "absent"
      /\ split[s].state = "Abandoned" /\ split[s].txid => s \in revoked
      /\ s \notin revoked => (split[s].state \in {"Broadcast", "Confirmed"} =>
                split[s].source \in Coins /\ Gone(split[s].source))
    BY SplitFacts
<1>2. /\ row' = row /\ node' = node /\ pay' = pay /\ work' = work /\ leaked' = leaked
      /\ probed' = probed /\ revoked' = revoked
    BY DEF SignSplit, ReleaseBuiltSplit, ConfirmSplit, ReadoptSplit, WatchExpires
<1>3. RowsKept /\ NodeTyped'
    BY <1>1, <1>2, RowsStill DEF NodeTyped
<1>4. \A t \in Splits : probed'[t] = probed[t] /\ (Known(SplitTx(t))' <=> Known(SplitTx(t)))
    BY <1>2 DEF Known
<1>5. /\ revoked \subseteq revoked' /\ revoked' \subseteq Splits
      /\ probed' \in [Splits -> {"no", "built", "absent"}]
    BY <1>1, <1>2 DEF SplitsTyped
<1>6. CASE SignSplit(s)
  <2>1. split[s].state = "Built" /\ held' = held \cup {s}
    BY <1>6 DEF SignSplit
  <2>2. PICK x : x = [split[s] EXCEPT !.state = "Signed"]
    OBVIOUS
  <2>3. split' = [split EXCEPT ![s] = x]
    BY <1>1, <1>6, <2>2 DEF SignSplit
  <2>4. SplitMoves(s, "Signed", split[s].txid)
    BY <1>1, <2>2, <2>3, SplitMoveOne DEF SplitStates
  <2> QED
    BY <1>1, <1>2, <1>3, <1>4, <1>5, <2>1, <2>4, SplitMove DEF Under
<1>7. CASE ReleaseBuiltSplit(s)
  <2>1. split[s].state = "Built" /\ held' = held
    BY <1>7 DEF ReleaseBuiltSplit
  <2>2. PICK x : x = [split[s] EXCEPT !.state = "Abandoned"]
    OBVIOUS
  <2>3. split' = [split EXCEPT ![s] = x]
    BY <1>1, <1>7, <2>2 DEF ReleaseBuiltSplit
  <2>4. SplitMoves(s, "Abandoned", split[s].txid)
    BY <1>1, <2>2, <2>3, SplitMoveOne DEF SplitStates
  <2> QED
    BY <1>1, <1>2, <1>3, <1>4, <1>5, <2>1, <2>4, SplitMove DEF Under
<1>8. CASE ConfirmSplit(s)
  <2>1. split[s].state = "Broadcast" /\ held' = held
    BY <1>8 DEF ConfirmSplit
  <2>2. PICK x : x = [split[s] EXCEPT !.state = "Confirmed", !.missing = FALSE]
    OBVIOUS
  <2>3. split' = [split EXCEPT ![s] = x]
    BY <1>1, <1>8, <2>2 DEF ConfirmSplit
  <2>4. SplitMoves(s, "Confirmed", split[s].txid)
    BY <1>1, <2>2, <2>3, SplitMoveOne DEF SplitStates
  <2>5. s \notin revoked => Gone(split[s].source)'
    BY <1>1, <1>3, <2>1, <2>4, GoneStays
  <2> QED
    BY <1>1, <1>2, <1>3, <1>4, <1>5, <2>1, <2>4, <2>5, SplitMove DEF Under
<1>9. CASE ReadoptSplit(s)
  <2>1. s \in revoked /\ held' = held
    BY <1>1, <1>9 DEF ReadoptSplit
  <2>2. PICK x : x = [split[s] EXCEPT !.state = "Broadcast", !.missing = FALSE]
    OBVIOUS
  <2>3. split' = [split EXCEPT ![s] = x]
    BY <1>1, <1>9, <2>2 DEF ReadoptSplit
  <2>4. SplitMoves(s, "Broadcast", split[s].txid)
    BY <1>1, <2>2, <2>3, SplitMoveOne DEF SplitStates
  <2> QED
    BY <1>1, <1>2, <1>3, <1>4, <1>5, <2>1, <2>4, SplitMove DEF Under
<1>10. CASE WatchExpires(s)
  <2>1. s \in revoked /\ held' = held /\ split[s].state = "Abandoned"
    BY <1>1, <1>10 DEF WatchExpires
  <2>2. PICK x : x = [split[s] EXCEPT !.watched = FALSE]
    OBVIOUS
  <2>3. split' = [split EXCEPT ![s] = x]
    BY <1>1, <1>10, <2>2 DEF WatchExpires
  <2>4. SplitMoves(s, "Abandoned", split[s].txid)
    BY <1>1, <2>1, <2>2, <2>3, SplitMoveOne
  <2> QED
    BY <1>1, <1>2, <1>3, <1>4, <1>5, <2>1, <2>4, SplitMove DEF Under
<1> QED
    BY <1>6, <1>7, <1>8, <1>9, <1>10

\* What a process does with signed bytes, and the operator's probe: a split
\* the node or a sender may have was signed or is revoked.
LEMMA SplitSendFits ==
    ASSUME ConstantsOK, VInv, NEW s \in Splits,
           SendSplit(s) \/ ResumeSignedSplit(s) \/ DriveBroadcastSplit(s) \/ ProbeSplit(s)
    PROVE  VInv' /\ SpendingStep
<1>1. /\ NodeTyped /\ RowsTyped /\ SplitsTyped /\ split \in [Splits -> SplitRow]
      /\ split[s].state \in SplitStates /\ split[s].txid \in BOOLEAN
      /\ s \notin revoked => (s \in held \/ Known(SplitTx(s)) =>
                split[s].state \in {"Signed", "Broadcast", "Confirmed"})
      /\ split[s].state \in {"none", "Built"} => ~split[s].txid /\ probed[s] # "absent"
      /\ split[s].state = "Abandoned" /\ split[s].txid => s \in revoked
      /\ s \notin revoked => (split[s].state \in {"Broadcast", "Confirmed"} =>
                split[s].source \in Coins /\ Gone(split[s].source))
    BY SplitFacts
<1>2. /\ row' = row /\ pay' = pay /\ work' = work /\ leaked' = leaked /\ revoked' = revoked
      /\ revoked' \subseteq Splits
    BY <1>1 DEF SendSplit, ResumeSignedSplit, DriveBroadcastSplit, ProbeSplit, SplitsTyped
<1>3. RowsKept
    BY <1>1, <1>2, RowsStill
<1>4. PICK tx \in Txs : tx = SplitTx(s)
    BY Kinds
<1>5. node' = Sent(tx) \/ node' = node
    BY <1>4 DEF SendSplit, ResumeSignedSplit, DriveBroadcastSplit, ProbeSplit
<1>6. NodeTyped' /\ \A t \in Txs : t # tx => (Known(t)' <=> Known(t))
    BY <1>1, <1>5, SentNode
<1>7. ASSUME NEW t \in Splits, t # s PROVE Known(SplitTx(t))' => Known(SplitTx(t))
  <2>1. SplitTx(t) \in Txs /\ SplitTx(t) # tx
    BY <1>4, <1>7, Kinds
  <2> QED
    BY <1>6, <2>1
<1>8. node' = node => (Known(SplitTx(s))' <=> Known(SplitTx(s)))
    BY DEF Known
<1>9. SplitMoves(s, split[s].state, split[s].txid)
  <2>1. CASE split' = split
    BY <1>1, <2>1, SplitStill
  <2>2. CASE DriveBroadcastSplit(s)
    <3>1. PICK m \in BOOLEAN : m = ~Accepted(SplitTx(s))
      OBVIOUS
    <3>2. PICK x : x = [split[s] EXCEPT !.missing = m]
      OBVIOUS
    <3>3. split' = [split EXCEPT ![s] = x]
      BY <1>1, <2>2, <3>1, <3>2 DEF DriveBroadcastSplit
    <3> QED
      BY <1>1, <3>2, <3>3, SplitMoveOne
  <2> QED
    BY <2>1, <2>2 DEF SendSplit, ResumeSignedSplit, ProbeSplit
<1>10. /\ probed' \in [Splits -> {"no", "built", "absent"}]
       /\ \A t \in Splits : t # s => probed'[t] = probed[t]
       /\ split[s].state \in {"none", "Built"} => probed'[s] # "absent"
  <2>1. probed \in [Splits -> {"no", "built", "absent"}]
    BY <1>1 DEF SplitsTyped
  <2>2. CASE probed' = probed
    BY <1>1, <2>1, <2>2
  <2>3. CASE ProbeSplit(s)
    BY <2>1, <2>3 DEF ProbeSplit, LiveSplit
  <2> QED
    BY <2>2, <2>3 DEF SendSplit, ResumeSignedSplit, DriveBroadcastSplit
<1>11. held' \subseteq held \cup {s}
    BY DEF SendSplit, ResumeSignedSplit, DriveBroadcastSplit, ProbeSplit
<1>12. s \notin revoked => (s \in held' \/ Known(SplitTx(s))' =>
          split[s].state \in {"Signed", "Broadcast", "Confirmed"})
    BY <1>1, <1>8 DEF SendSplit, ResumeSignedSplit, DriveBroadcastSplit, ProbeSplit
<1>13. s \notin revoked => (split[s].state \in {"Broadcast", "Confirmed"} => Gone(split[s].source)')
    BY <1>1, <1>3, <1>9, GoneStays
<1>14. /\ split[s].state \in {"none", "Built"} => ~split[s].txid /\ probed'[s] # "absent"
       /\ split[s].state = "Abandoned" /\ split[s].txid => s \in revoked'
       /\ revoked \subseteq revoked'
    BY <1>1, <1>2, <1>10
<1> QED
    BY <1>2, <1>3, <1>6, <1>7, <1>9, <1>10, <1>11, <1>12, <1>13, <1>14, SplitMove

\* The record of a broadcast: the source is spent by the split, or was spent
\* by an earlier transaction of ours, and the chunks enter the table.
LEMMA RecordSplitFits ==
    ASSUME VInv, NEW s \in Splits, RecordSplitBroadcast(s)
    PROVE  VInv' /\ SpendingStep
<1>1. /\ NodeTyped /\ RowsTyped /\ SplitsTyped /\ split \in [Splits -> SplitRow]
      /\ split[s].source \in Coins \cup {NoCoin}
    BY SplitFacts
<1>2. /\ split[s].state = "Signed" /\ row[split[s].source].state \in {"Available", "Spent"}
      /\ UNCHANGED <<node, pay, work, held, probed, leaked, revoked>>
      /\ split' = [split EXCEPT ![s].state = "Broadcast", ![s].txid = TRUE]
    BY DEF RecordSplitBroadcast
<1>3. PICK x : x = [split[s] EXCEPT !.state = "Broadcast", !.txid = TRUE]
    OBVIOUS
<1>4. split' = [split EXCEPT ![s] = x]
    BY <1>1, <1>2, <1>3
<1>5. SplitMoves(s, "Broadcast", TRUE)
    BY <1>1, <1>3, <1>4, SplitMoveOne DEF SplitStates
<1>6. PICK src : src = split[s].source
    OBVIOUS
<1>7. row' = [c \in Coins |->
             CASE c = src -> [row[c] EXCEPT !.state = "Spent",
                                            !.spentBy = IF @ = NoTx THEN SplitTx(s) ELSE @]
               [] c # src /\ c.tx = SplitTx(s) -> ChunkRow(s, row[c])
               [] OTHER -> row[c]]
    BY <1>6 DEF RecordSplitBroadcast
<1>8. row' = [c \in Coins |-> row'[c]]
    BY <1>7
<1>9. ASSUME src \in Coins
      PROVE  /\ Kept(row[src], row'[src])
             /\ row'[src].state = "Spent" /\ row'[src].spentBy # NoTx
  <2>1. RowShape(row[src]) /\ row[src].state \in RowStates /\ row[src].state # "Reserved"
    BY <1>1, <1>2, <1>6, <1>9 DEF RowsTyped
  <2>2. PICK sp : sp = IF row[src].spentBy = NoTx THEN SplitTx(s) ELSE row[src].spentBy
    OBVIOUS
  <2>3. sp # NoTx
    BY <2>2, Kinds
  <2>4. row'[src] = [row[src] EXCEPT !.state = "Spent", !.spentBy = sp]
    BY <1>7, <1>9, <2>2
  <2>5. Kept(row[src], [row[src] EXCEPT !.state = "Spent", !.spentBy = sp])
    BY <2>1, <2>3, KeptRows
  <2>6. Fields([row[src] EXCEPT !.state = "Spent", !.spentBy = sp], "Spent", row[src].by, sp)
    BY <2>1, RowRewrites
  <2> QED
    BY <2>3, <2>4, <2>5, <2>6 DEF Fields
<1>10. ASSUME NEW c \in Coins, c # src PROVE Kept(row[c], row'[c])
  <2>1. RowShape(row[c]) /\ row[c].state \in RowStates
    BY <1>1, <1>10 DEF RowsTyped
  <2>2. row'[c] = row[c] \/ row'[c] = ChunkRow(s, row[c])
    BY <1>7, <1>10
  <2>3. Kept(row[c], row[c])
    BY <2>1, KeptRows
  <2>4. CASE row[c].state = "none" /\ row'[c] = ChunkRow(s, row[c])
    <3>1. RowShape(NoRow) /\ NoRow.by = NoRequest
      BY DEF NoRow, RowShape
    <3>2. PICK a : row'[c] = [NoRow EXCEPT !.state = "Unconfirmed", !.amount = a]
      BY <2>4 DEF ChunkRow
    <3>3. row'[c] = [state |-> "Unconfirmed", amount |-> a, confs |-> 0, by |-> NoRequest,
                     spentBy |-> NoTx, hold |-> FALSE]
      BY <3>2 DEF NoRow
    <3>4. ~Taken(c)
      BY <2>4 DEF VInv, HoldsFit
    <3> QED
      BY <2>4, <3>3, <3>4 DEF Kept, Fields, RowShape, RowStates, Taken
  <2> QED
    BY <2>2, <2>3, <2>4 DEF ChunkRow
<1>11. RowsKept
  <2>1. \A c \in Coins : Kept(row[c], row'[c])
    BY <1>9, <1>10
  <2> QED
    BY <1>1, <1>8, <2>1, RowsMove
<1>12. s \notin revoked => src \in Coins
    BY <1>2, <1>6 DEF VInv, ClaimsFit, Under
<1>13. s \notin revoked => Gone(split[s].source)'
  <2> SUFFICES ASSUME s \notin revoked PROVE Gone(split[s].source)'
    OBVIOUS
  <2>1. split'[s].source = src
    BY <1>5, <1>6 DEF SplitMoves
  <2>2. row'[src].state = "Spent" /\ row'[src].spentBy # NoTx
    BY <1>9, <1>12
  <2> QED
    BY <2>1, <2>2 DEF Gone
<1>14. NodeTyped' /\ \A t \in Splits : probed'[t] = probed[t] /\ (Known(SplitTx(t))' <=> Known(SplitTx(t)))
    BY <1>1, <1>2 DEF NodeTyped, Known
<1>15. /\ revoked \subseteq revoked' /\ revoked' \subseteq Splits /\ held' \subseteq held \cup {s}
       /\ probed' \in [Splits -> {"no", "built", "absent"}]
    BY <1>1, <1>2 DEF SplitsTyped
<1> QED
    BY <1>2, <1>5, <1>11, <1>13, <1>14, <1>15, SplitMove DEF Under

\* An abandon frees the source; if the bytes were signed the split is revoked,
\* and its chunks leave the pool.
LEMMA AbandonFits ==
    ASSUME VInv, NEW s \in Splits, AbandonSplit(s)
    PROVE  VInv' /\ SpendingStep
<1>1. /\ NodeTyped /\ RowsTyped /\ SplitsTyped /\ split \in [Splits -> SplitRow]
      /\ split[s].state \in SplitStates /\ split[s].txid \in BOOLEAN
      /\ s \notin revoked => (s \in held \/ Known(SplitTx(s)) =>
                split[s].state \in {"Signed", "Broadcast", "Confirmed"})
      /\ split[s].state \in {"none", "Built"} => ~split[s].txid /\ probed[s] # "absent"
      /\ split[s].state = "Abandoned" /\ split[s].txid => s \in revoked
      /\ s \notin revoked => (split[s].state \in {"Broadcast", "Confirmed"} =>
                split[s].source \in Coins /\ Gone(split[s].source))
    BY SplitFacts
<1>2. /\ UNCHANGED <<node, pay, work, held, leaked>>
      /\ probed' = [probed EXCEPT ![s] = "no"] /\ probed[s] # "no"
    BY DEF AbandonSplit
<1>3. /\ probed' \in [Splits -> {"no", "built", "absent"}] /\ probed'[s] = "no"
      /\ \A t \in Splits : t # s => probed'[t] = probed[t]
    BY <1>1, <1>2 DEF SplitsTyped
<1>4. NodeTyped' /\ \A t \in Splits : Known(SplitTx(t))' <=> Known(SplitTx(t))
    BY <1>1, <1>2 DEF NodeTyped, Known
<1>5. CASE ~LiveSplit(s)
  <2>1. split' = split /\ row' = row /\ revoked' = revoked
    BY <1>5 DEF AbandonSplit
  <2>2. SplitMoves(s, split[s].state, split[s].txid)
    BY <1>1, <2>1, SplitStill
  <2>3. RowsKept
    BY <1>1, <2>1, RowsStill
  <2>4. s \notin revoked => (split[s].state \in {"Broadcast", "Confirmed"} => Gone(split[s].source)')
    BY <1>1, <2>2, <2>3, GoneStays
  <2>5. revoked' \subseteq Splits
    BY <1>1, <2>1 DEF SplitsTyped
  <2> QED
    BY <1>1, <1>2, <1>3, <1>4, <2>1, <2>2, <2>3, <2>4, <2>5, SplitMove
<1>6. CASE LiveSplit(s)
  <2>1. PICK known \in BOOLEAN : known = (split[s].txid \/ probed[s] = "absent")
    OBVIOUS
  <2>2. /\ split' = [split EXCEPT ![s].state = "Abandoned", ![s].txid = known]
        /\ row' = [c \in Coins |->
             IF known /\ c.tx = SplitTx(s) /\ row[c].state \in {"Unconfirmed", "Available"}
             THEN [row[c] EXCEPT !.state = "Spent"] ELSE row[c]]
        /\ revoked' = IF split[s].state = "Built" THEN revoked ELSE revoked \cup {s}
    BY <1>6, <2>1 DEF AbandonSplit
  <2>3. PICK x : x = [split[s] EXCEPT !.state = "Abandoned", !.txid = known]
    OBVIOUS
  <2>4. split' = [split EXCEPT ![s] = x]
    BY <1>1, <2>2, <2>3
  <2>5. SplitMoves(s, "Abandoned", known)
    BY <1>1, <2>3, <2>4, SplitMoveOne DEF SplitStates
  <2>6. ASSUME NEW c \in Coins PROVE Kept(row[c], row'[c])
    <3>1. RowShape(row[c]) /\ row[c].state \in RowStates
      BY <1>1, <2>6 DEF RowsTyped
    <3>2. \/ row'[c] = row[c]
          \/ row[c].state # "Reserved" /\ row'[c] = [row[c] EXCEPT !.state = "Spent"]
      BY <2>2, <2>6
    <3>3. /\ Kept(row[c], row[c])
          /\ row[c].state # "Reserved" => Kept(row[c], [row[c] EXCEPT !.state = "Spent"])
      BY <3>1, KeptRows
    <3> QED
      BY <3>2, <3>3
  <2>7. RowsKept
    <3>1. row' = [c \in Coins |-> row'[c]]
      BY <2>2
    <3> QED
      BY <1>1, <2>6, <3>1, RowsMove
  <2>8. revoked \subseteq revoked' /\ revoked' \subseteq Splits
    BY <1>1, <2>2 DEF SplitsTyped
  <2>9. known => s \in revoked'
    BY <1>1, <2>1, <2>2
  <2>10. s \notin revoked' => s \notin held' /\ ~Known(SplitTx(s))'
    BY <1>1, <1>2, <1>4, <2>2
  <2> QED
    BY <1>2, <1>3, <1>4, <2>5, <2>7, <2>8, <2>9, <2>10, SplitMove DEF Under
<1> QED
    BY <1>5, <1>6

-----------------------------------------------------------------------------
(* The invariant.                                                           *)

LEMMA InitFits ==
    ASSUME ConstantsOK, Init
    PROVE  VInv
<1>1. NodeTyped
    BY DEF Init, NodeTyped, ConstantsOK
<1>2. \A c \in Coins : /\ RowShape(row[c]) /\ row[c].state \in {"Available", "none"}
                       /\ row[c].by = NoRequest
  <2> SUFFICES ASSUME NEW c \in Coins
               PROVE  /\ RowShape(row[c]) /\ row[c].state \in {"Available", "none"}
                      /\ row[c].by = NoRequest
    OBVIOUS
  <2>1. CASE row[c] = NoRow
    BY <2>1 DEF NoRow, RowShape
  <2>2. CASE row[c] = [NoRow EXCEPT !.state = "Available", !.amount = RootAmount,
                                    !.confs = MinConfirmations]
    <3>1. row[c] = [state |-> "Available", amount |-> RootAmount, confs |-> MinConfirmations,
                    by |-> NoRequest, spentBy |-> NoTx, hold |-> FALSE]
      BY <2>2 DEF NoRow
    <3> QED
      BY <3>1 DEF RowShape
  <2> QED
    BY <2>1, <2>2 DEF Init
<1>3. RowsTyped
  <2>1. row = [c \in Coins |-> row[c]]
    BY DEF Init
  <2> QED
    BY <1>2, <2>1 DEF RowsTyped, RowStates
<1>4. \A r \in Requests : pay[r] = [state |-> "none", inputs |-> {}, change |-> 0, confs |-> 0, depth |-> 0]
    BY DEF Init
<1>5. PaysTyped
  <2>1. pay = [r \in Requests |-> pay[r]]
    BY DEF Init
  <2> QED
    BY <1>4, <2>1 DEF PaysTyped, PayShape, PayStates
<1>6. WorkTyped /\ work.step = "idle"
    BY DEF Init, NoWork, WorkTyped, WorkSteps
<1>7. \A s \in Splits : split[s].state = "none" /\ split[s].txid = FALSE
    BY DEF Init
<1>8. SplitsTyped /\ held = {} /\ \A s \in Splits : probed[s] = "no"
    BY DEF Init, SplitsTyped, SplitRow, SplitStates
<1>9. leaked = {}
    BY DEF Init
<1>10. HoldsFit
    BY <1>2, <1>4, <1>9 DEF HoldsFit, Taken
<1>11. WorkFits
    BY <1>6 DEF WorkFits
<1>12. ClaimsFit
    BY <1>7 DEF ClaimsFit, Under
<1>13. \A s \in Splits : ~Known(SplitTx(s))
  <2> SUFFICES ASSUME NEW s \in Splits PROVE ~Known(SplitTx(s))
    OBVIOUS
  <2>1. SplitTx(s) \in Txs /\ SplitTx(s).kind = "split"
    BY Kinds
  <2>2. node[SplitTx(s)] = -1
    BY <2>1 DEF Init
  <2> QED
    BY <2>2 DEF Known
<1>14. SentFit
    BY <1>7, <1>8, <1>13 DEF SentFit
<1> QED
    BY <1>1, <1>3, <1>5, <1>6, <1>8, <1>9, <1>10, <1>11, <1>12, <1>14 DEF VInv, Typed

LEMMA NextFits ==
    ASSUME ConstantsOK, VInv, EInv, Next
    PROVE  VInv' /\ SpendingStep
<1>1. CASE \E tx \in Txs : Mine(tx) \/ Evict(tx)
    BY <1>1, MineFits
<1>2. CASE ListUnspent \/ MoveFloor
    BY <1>2, LooksFit
<1>3. CASE SyncVaultUtxos
    BY <1>3, SyncFits
<1>4. ASSUME NEW r \in Requests \ Refunds,
             \/ ValidateZeroConfParent(r)
             \/ \E inputs \in SUBSET Coins : PlanPayout(r, inputs)
             \/ RetryPayout(r) \/ UpdatePayoutConfirmations(r) \/ CompletePayout(r)
      PROVE  VInv' /\ SpendingStep
    BY <1>4, ValidateFits, PlanFits, RetryFits, UpdateFits, CompleteFits
<1>5. CASE ReserveVaultUtxos \/ RecordPayoutBuilt \/ RecordPayoutSigned
    BY <1>5, ReserveFits, BuiltFits, SignedFits
<1>6. CASE SendPayout \/ RecordPayoutBroadcast \/ Crash
    BY <1>6, SendPayoutFits, RecordBroadcastFits, CrashFits
<1>7. ASSUME NEW s \in Splits,
             \/ \E c \in Coins : BuildSplit(s, c)
             \/ RecordSplitBroadcast(s) \/ AbandonSplit(s)
      PROVE  VInv' /\ SpendingStep
    BY <1>7, BuildFits, RecordSplitFits, AbandonFits
<1>8. ASSUME NEW s \in Splits,
             \/ SignSplit(s) \/ ReleaseBuiltSplit(s) \/ ConfirmSplit(s)
             \/ ReadoptSplit(s) \/ WatchExpires(s)
      PROVE  VInv' /\ SpendingStep
    BY <1>8, SplitLedgerFits
<1>9. ASSUME NEW s \in Splits,
             SendSplit(s) \/ ResumeSignedSplit(s) \/ DriveBroadcastSplit(s) \/ ProbeSplit(s)
      PROVE  VInv' /\ SpendingStep
    BY <1>9, SplitSendFits
<1>10. ASSUME NEW q \in Refunds,
              \/ \E inputs \in SUBSET Coins : PlanRefund(q, inputs)
              \/ BeginRefund(q) \/ SignRefund(q) \/ SendRefund(q) \/ RecordRefundBroadcast(q)
              \/ ConfirmRefund(q)
       PROVE  VInv' /\ SpendingStep
    BY <1>10, PlanRefundFits, BeginFits, SignRefundFits, SendRefundFits, RecordRefundFits,
       ConfirmRefundFits
<1> QED
    BY <1>1, <1>2, <1>3, <1>4, <1>5, <1>6, <1>7, <1>8, <1>9, <1>10 DEF Next

LEMMA InvTyped ==
    ASSUME ConstantsOK, VInv
    PROVE  TypeOK
<1>1. Typed /\ HoldsFit
    BY DEF VInv
<1>2. NodeTyped /\ RowsTyped /\ PaysTyped /\ WorkTyped /\ SplitsTyped
    BY <1>1 DEF Typed
<1>3. \A c \in Coins : /\ row[c].state \in RowStates
                       /\ row[c].by \in Requests \cup {NoRequest}
                       /\ row[c].state = "Reserved" => row[c].by # NoRequest
    BY <1>1, <1>2 DEF RowsTyped, HoldsFit, Taken
<1>4. \A s \in Splits : split[s].state \in SplitStates /\ split[s].source \in Coins \cup {NoCoin}
    BY <1>2 DEF SplitsTyped, SplitRow
<1> QED
    BY <1>2, <1>3, <1>4 DEF TypeOK, NodeTyped, PaysTyped, WorkTyped, SplitsTyped

LEMMA InvSpentOnce ==
    ASSUME ConstantsOK, VInv
    PROVE  NeverSpentTwice
<1>1. HoldsFit /\ ClaimsFit /\ PaysTyped
    BY DEF VInv, Typed
<1>2. \A r, q \in Requests : r # q => pay[r].inputs \cap pay[q].inputs = {}
    BY <1>1 DEF HoldsFit
<1>3. \A r \in Requests, s \in Splits \ revoked :
        LiveSplit(s) \/ split[s].state = "Confirmed" => split[s].source \notin pay[r].inputs
    BY <1>1 DEF HoldsFit, ClaimsFit, LiveSplit, Under, Taken, ConstantsOK
<1>4. \A s, t \in Splits \ revoked :
        s # t /\ split[s].state \in {"Signed", "Broadcast", "Confirmed"}
              /\ split[t].state \in {"Signed", "Broadcast", "Confirmed"} => split[s].source # split[t].source
    BY <1>1 DEF ClaimsFit, Under
<1> QED
    BY <1>2, <1>3, <1>4 DEF NeverSpentTwice

LEMMA InvOffered ==
    ASSUME ConstantsOK, VInv
    PROVE  OfferedCoinsAreUnspent
<1>1. SUFFICES ASSUME NEW c \in AvailableVaultUtxos, SpentOnNode(c)
               PROVE  \E s \in revoked : split[s].source = c
    BY DEF OfferedCoinsAreUnspent
<1>2. HoldsFit /\ ClaimsFit /\ SentFit
    BY DEF VInv
<1>3. c \in Coins /\ row[c].state = "Available" /\ ~LiveSplitClaim(c)
    BY DEF AvailableVaultUtxos
<1>4. PICK tx \in Txs : Known(tx) /\ c \in Inputs(tx)
    BY <1>1 DEF SpentOnNode
<1>5. ASSUME NEW r \in Requests, tx = PayTx(r) PROVE FALSE
  <2>1. tx.kind = "pay" /\ tx.n = r
    BY <1>5, Kinds
  <2>2. c \in pay[r].inputs
    BY <1>4, <2>1 DEF Inputs
  <2>3. row[c].by = r /\ Taken(c)
    BY <1>2, <1>5, <2>2 DEF HoldsFit, Taken, ConstantsOK
  <2> QED
    BY <1>2, <1>3, <2>3 DEF HoldsFit
<1>6. ASSUME NEW s \in Splits, tx = SplitTx(s) PROVE s \in revoked /\ split[s].source = c
  <2>1. tx.kind = "split" /\ tx.n = s
    BY <1>6, Kinds
  <2>2. split[s].source = c
    BY <1>4, <2>1 DEF Inputs
  <2>3. ASSUME s \notin revoked PROVE FALSE
    <3>1. split[s].state \in {"Signed", "Broadcast", "Confirmed"}
      BY <1>2, <1>4, <1>6, <2>3 DEF SentFit
    <3>2. split[s].state \notin {"Signed", "Broadcast"}
      BY <1>3, <1>6, <2>2 DEF LiveSplitClaim, LiveSplit
    <3>3. Gone(c)
      BY <1>2, <1>6, <2>2, <2>3, <3>1, <3>2 DEF ClaimsFit
    <3> QED
      BY <1>3, <3>3 DEF Gone
  <2> QED
    BY <2>2, <2>3
<1>7. ASSUME NEW i \in Roots, tx = RootTx(i) PROVE FALSE
    BY <1>4, <1>7 DEF Inputs, RootTx
<1> QED
    BY <1>4, <1>5, <1>6, <1>7 DEF Txs

LEMMA InvHeld ==
    ASSUME ConstantsOK, VInv
    PROVE  HoldsAreExplained
<1>1. HoldsFit /\ WorkFits /\ RowsTyped /\ PaysTyped /\ WorkTyped /\ leaked \subseteq Coins
    BY DEF VInv, Typed
<1> DEFINE Reserved == {c \in Coins : row[c].state = "Reserved"}
           Open == UNION {pay[r].inputs : r \in {q \in Requests : pay[q].state \notin Closed}}
           Left == {c \in leaked : pay[row[c].by].state \notin Closed}
<1>2. ASSUME NEW c \in Reserved PROVE c \in InHand \cup Open \cup Left
  <2>1. c \in Coins /\ row[c].state = "Reserved"
    BY <1>2
  <2>2. /\ Taken(c) /\ pay[row[c].by].state \notin Closed
        /\ c \in pay[row[c].by].inputs \/ c \in leaked \/ c \in InHand
    BY <1>1, <2>1 DEF HoldsFit
  <2>3. row[c].by \in Requests
    BY <1>1, <2>1, <2>2 DEF RowsTyped, Taken
  <2> QED
    BY <2>2, <2>3
<1>3. ASSUME NEW c \in InHand PROVE c \in Reserved
  <2>1. work.step = "reserved" /\ c \in work.inputs
    BY <1>3 DEF InHand
  <2>2. /\ c \in Coins /\ work.request \in Requests /\ row[c].by = work.request
        /\ pay[work.request].state = "none"
    BY <1>1, <2>1 DEF WorkTyped, WorkFits
  <2>3. Taken(c)
    BY <2>2 DEF Taken, ConstantsOK
  <2> QED
    BY <1>1, <2>2, <2>3 DEF HoldsFit, Closed
<1>4. ASSUME NEW c \in Open PROVE c \in Reserved
  <2>1. PICK r \in Requests : pay[r].state \notin Closed /\ c \in pay[r].inputs
    BY <1>4
  <2>2. c \in Coins /\ row[c].by = r /\ Taken(c)
    BY <1>1, <2>1 DEF HoldsFit, PaysTyped, Taken, ConstantsOK
  <2> QED
    BY <1>1, <2>1, <2>2 DEF HoldsFit
<1>5. ASSUME NEW c \in Left PROVE c \in Reserved
    BY <1>1, <1>5 DEF HoldsFit
<1>6. Reserved = InHand \cup Open \cup Left
  <2> HIDE DEF Reserved, Open, Left
  <2> QED
    BY <1>2, <1>3, <1>4, <1>5
<1> QED
    BY <1>6 DEF HoldsAreExplained, InHand

-----------------------------------------------------------------------------
(* The theorems.                                                            *)

LEMMA PoolInvariant ==
    ASSUME ConstantsOK
    PROVE  Spec => [](VInv /\ EInv)
<1>1. Init => VInv /\ EInv
    BY InitFits DEF Init, EInv, NoErrand
<1>2. VInv /\ EInv /\ [Next]_vars => VInv' /\ EInv'
  <2> SUFFICES ASSUME VInv, EInv, [Next]_vars PROVE VInv'
    BY ErrandsFit
  <2>1. CASE Next
    BY <2>1, NextFits
  <2>2. CASE UNCHANGED vars
    <3>1. RowsTyped /\ NodeTyped
      BY DEF VInv, Typed
    <3>2. RowsKept
      BY <2>2, <3>1, RowsStill DEF vars
    <3>3. NodeTyped' /\ \A t \in Splits : Known(SplitTx(t))' => Known(SplitTx(t))
      BY <2>2, <3>1 DEF vars, NodeTyped, Known
    <3> QED
      BY <2>2, <3>2, <3>3, PlainStep DEF vars
  <2> QED
    BY <2>1, <2>2
<1> QED
    BY <1>1, <1>2, PTL DEF Spec

\* Whatever the daemon, the operator's command, the node and crashes do, the
\* vault's tables keep their types and the service never signs two spends of
\* one coin: no coin is an input of two payouts or refunds, of one of them and
\* of a split, or of two splits, but for the splits abandoned after they were
\* signed and those whose source a refund took from under the claim
\* (reserve_vault_utxos, begin_goldcoin_refund, live_split_claim_exclusion,
\* sync_vault_utxos).
THEOREM SpentOnce ==
    ASSUME ConstantsOK
    PROVE  Spec => [](TypeOK /\ NeverSpentTwice)
<1>1. VInv => TypeOK /\ NeverSpentTwice
    BY InvTyped, InvSpentOnce
<1> QED
    BY <1>1, PoolInvariant, PTL

\* available_vault_utxos never offers as mature a coin the node knows to be
\* spent, however late list_unspent's answer is applied and a split recorded,
\* except the source of a revoked split.
THEOREM OfferedUnspent ==
    ASSUME ConstantsOK
    PROVE  Spec => []OfferedCoinsAreUnspent
<1>1. VInv => OfferedCoinsAreUnspent
    BY InvOffered
<1> QED
    BY <1>1, PoolInvariant, PTL

\* A coin is Reserved exactly while a payout not completed, a refund not yet
\* broadcast, the daemon's work in hand or an attempt that died between
\* reserve_vault_utxos and the plan's row holds it.
THEOREM HoldsExplained ==
    ASSUME ConstantsOK
    PROVE  Spec => []HoldsAreExplained
<1>1. VInv => HoldsAreExplained
    BY InvHeld
<1> QED
    BY <1>1, PoolInvariant, PTL

\* No call takes the inputs of a payout or a refund away from it, reopens one
\* whose coins are booked or puts a coin that one of our transactions spent back into the pool.
THEOREM MoneyMovesOneWay ==
    ASSUME ConstantsOK
    PROVE  Spec => [][SpendingStep]_vars
<1>1. VInv /\ EInv /\ [Next]_vars => [SpendingStep]_vars
  <2> SUFFICES ASSUME VInv, EInv, Next PROVE SpendingStep
    OBVIOUS
  <2> QED
    BY NextFits
<1> QED
    BY <1>1, PoolInvariant, PTL DEF Spec
==============================================================================
