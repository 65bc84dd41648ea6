----------------------- MODULE IssuanceCreationProofs -----------------------
(***************************************************************************)
(* Proofs about IssuanceCreation, for every set of previews, requests and  *)
(* sign links and every number of kills and errors.                        *)
(*                                                                         *)
(* The argument: a used preview is in the hands of at most one handler.    *)
(* Once that handler has opened a sign link or attached a market, the      *)
(* preview is linked to the issuance for good: nobody holds it any more,   *)
(* and only a holder can release it.  So a preview has one linked          *)
(* issuance, and only linked issuances get a market.                       *)
(***************************************************************************)
EXTENDS IssuanceCreation, SequenceTheorems, TLAPS

IssuanceRow == [preview : Preview, alive : BOOLEAN, market : Nat, accepted : Nat]
MintRow == [state : {"key", "bare", "ready"}, creator : Founder \cup {NoFounder}]
ReqRecord == [pc : PCs, preview : Preview, mode : {"custody", "wallet"}, iss : Nat, mint : Nat,
              link : SignId, wallet : Founder \cup {NoFounder}, sigs : SUBSET Nat, memo : BOOLEAN]

Typed ==
    /\ sreq \in [SignId -> SignRow(Nat, {NoPayload}, Nat, Nat)]
    /\ preview \in [Preview -> [used : BOOLEAN, issuance : Nat]]
    /\ rows \in Seq(IssuanceRow)
    /\ mints \in Seq(MintRow)
    /\ req \in [Request -> ReqRecord]

Ready(m) == m \in DOMAIN mints /\ mints[m].state = "ready"

(* The issuance is its preview's, and nobody holds the preview any more.   *)
Linked(i) ==
    /\ i \in DOMAIN rows
    /\ preview[rows[i].preview] = [used |-> TRUE, issuance |-> i]
    /\ \A g \in Request : ~(Creating(g) /\ req[g].preview = rows[i].preview)

(* Control points of the wallet flow that work on a linked issuance.       *)
Signing(h) ==
    \/ req[h].pc \in {"send", "recRead", "recWrite", "finalize", "memo", "complete"}
    \/ At(h, "attach") /\ req[h].mode = "wallet"

Attaching(h) == At(h, "attach") /\ req[h].mode = "custody"

Handler(h) ==
    /\ Creating(h) => preview[req[h].preview].used
    /\ req[h].pc \in {"link", "market", "open", "delete"} \/ Attaching(h) =>
          req[h].iss \in DOMAIN rows /\ rows[req[h].iss].preview = req[h].preview
    /\ req[h].pc \in {"market", "open"} \/ Attaching(h) => preview[req[h].preview].issuance = req[h].iss
    /\ req[h].pc = "market" => req[h].mode = "custody"
    /\ req[h].pc = "memo" => req[h].mode = "wallet"
    /\ req[h].pc \in {"memo", "attach"} => Ready(req[h].mint)
    /\ req[h].pc \in {"buildSave", "send", "recRead", "recWrite", "finalize"} => req[h].mint \in DOMAIN mints
    /\ Signing(h) => Linked(req[h].iss) /\ req[h].mode = "wallet"

OneHolder ==
    \A g, h \in Request : Creating(g) /\ Creating(h) /\ req[g].preview = req[h].preview => g = h

LinksInv ==
    \A s \in SignId :
        /\ sreq[s].subject # 0 => Linked(sreq[s].subject)
        /\ sreq[s].payload # NoPayload => sreq[s].payload \in DOMAIN mints

RowsInv ==
    \A i \in DOMAIN rows :
        /\ rows[i].market # NoMint => Linked(i) /\ Ready(rows[i].market)
        /\ rows[i].accepted # NoMint => rows[i].market # NoMint /\ Ready(rows[i].accepted)

IInv == Typed /\ (\A h \in Request : Handler(h)) /\ OneHolder /\ LinksInv /\ RowsInv

-----------------------------------------------------------------------------
(* What a step leaves alone.                                               *)

RowsGrow == \A i \in DOMAIN rows : i \in DOMAIN rows' /\ rows'[i].preview = rows[i].preview

MintsGrow == \A m \in DOMAIN mints : m \in DOMAIN mints' /\ (mints[m].state = "ready" => mints'[m].state = "ready")

(* A used preview that nobody holds is not touched, nor taken.             *)
FreePreviewsKept ==
    \A p \in Preview :
        preview[p].used /\ (\A g \in Request : ~(Creating(g) /\ req[g].preview = p)) =>
            /\ preview'[p] = preview[p]
            /\ \A g \in Request : ~(Creating(g)' /\ req'[g].preview = p)

LEMMA RowTypes ==
  ASSUME Typed
  PROVE  /\ DOMAIN rows = 1..Len(rows) /\ Len(rows) \in Nat
         /\ \A i \in DOMAIN rows : rows[i] \in IssuanceRow
         /\ DOMAIN mints = 1..Len(mints) /\ Len(mints) \in Nat
         /\ \A m \in DOMAIN mints : mints[m] \in MintRow
<1>1. rows \in Seq(IssuanceRow) /\ mints \in Seq(MintRow)
  BY DEF Typed
<1>2. (\A i \in 1..Len(rows) : rows[i] \in IssuanceRow) /\ (\A m \in 1..Len(mints) : mints[m] \in MintRow)
  BY <1>1, ElementOfSeq
<1> QED
  BY <1>1, <1>2, LenProperties

LEMMA LinkedStays ==
  ASSUME Typed, RowsGrow, FreePreviewsKept
  PROVE  \A i : Linked(i) => Linked(i)'
<1> SUFFICES ASSUME NEW i, Linked(i)
             PROVE  Linked(i)'
  OBVIOUS
<1> DEFINE p == rows[i].preview
<1>1. i \in DOMAIN rows /\ p \in Preview
  BY RowTypes DEF Linked, IssuanceRow
<1>2. preview[p].used /\ \A g \in Request : ~(Creating(g) /\ req[g].preview = p)
  BY DEF Linked
<1>3. i \in DOMAIN rows' /\ rows'[i].preview = p
  BY <1>1 DEF RowsGrow
<1>4. preview'[p] = preview[p] /\ \A g \in Request : ~(Creating(g)' /\ req'[g].preview = p)
  BY <1>1, <1>2 DEF FreePreviewsKept
<1> QED
  BY <1>3, <1>4 DEF Linked, Creating, At

(* One handler moves; what the others rely on is left alone.               *)
LEMMA OneMoves ==
  ASSUME IInv, NEW h \in Request, NEW j \in ReqRecord, req' = [req EXCEPT ![h] = j],
         RowsGrow, MintsGrow, FreePreviewsKept,
         \A g \in Request \ {h} : Creating(g) => preview'[req[g].preview] = preview[req[g].preview]
                                                 /\ (Creating(h)' => req[g].preview # j.preview),
         Handler(h)'
  PROVE  /\ req'[h] = j /\ req' \in [Request -> ReqRecord]
         /\ (\A g \in Request : Handler(g)') /\ OneHolder'
         /\ \A i : Linked(i) => Linked(i)'
<1>1. /\ req'[h] = j /\ req' \in [Request -> ReqRecord]
      /\ \A g \in Request \ {h} : req'[g] = req[g]
  BY DEF IInv, Typed
<1>2. \A i : Linked(i) => Linked(i)'
  BY LinkedStays DEF IInv
<1>3. \A m : Ready(m) => Ready(m)'
  BY DEF Ready, MintsGrow
<1>4. ASSUME NEW g \in Request, g # h
      PROVE  Handler(g)'
  <2>1. /\ req'[g] = req[g] /\ Handler(g)
        /\ Creating(g)' <=> Creating(g)
        /\ Attaching(g)' <=> Attaching(g)
        /\ Signing(g)' <=> Signing(g)
    BY <1>1, <1>4 DEF IInv, Creating, Attaching, Signing, At
  <2>2. Creating(g) => preview'[req[g].preview] = preview[req[g].preview]
    BY <1>4
  <2>3. req[g].pc \in {"link", "market", "open", "delete"} \/ Attaching(g) => Creating(g)
    BY DEF Creating, Attaching
  <2> QED
    BY <1>2, <1>3, <2>1, <2>2, <2>3 DEF Handler, RowsGrow, MintsGrow
<1>5. OneHolder'
  <2> SUFFICES ASSUME NEW f \in Request, NEW g \in Request, Creating(f)', Creating(g)',
                      req'[f].preview = req'[g].preview, f # g
               PROVE  FALSE
    BY DEF OneHolder, Creating, At
  <2>1. \A k \in Request \ {h} : req'[k] = req[k] /\ (Creating(k)' <=> Creating(k))
    BY <1>1 DEF Creating, At
  <2> QED
    BY <1>1, <2>1 DEF IInv, OneHolder
<1> QED
  BY <1>1, <1>2, <1>4, <1>5

LEMMA SameLinks ==
  ASSUME IInv, sreq' = sreq, MintsGrow, \A i : Linked(i) => Linked(i)'
  PROVE  LinksInv'
BY DEF IInv, LinksInv, MintsGrow

LEMMA SameRows ==
  ASSUME IInv, rows' = rows, MintsGrow, \A i : Linked(i) => Linked(i)'
  PROVE  RowsInv'
<1>1. \A m : Ready(m) => Ready(m)'
  BY DEF Ready, MintsGrow
<1> QED
  BY <1>1 DEF IInv, RowsInv

(* A handler that leaves the previews and the rows alone, and takes no     *)
(* preview.                                                                *)
LEMMA LocalMove ==
  ASSUME IInv, NEW h \in Request, NEW j \in ReqRecord, req' = [req EXCEPT ![h] = j],
         UNCHANGED <<preview, rows>>, MintsGrow, mints' \in Seq(MintRow),
         Creating(h)' => Creating(h) /\ j.preview = req[h].preview,
         Handler(h)'
  PROVE  /\ req'[h] = j /\ RowsInv' /\ (\A g \in Request : Handler(g)') /\ OneHolder'
         /\ (sreq' = sreq => IInv')
         /\ (sreq' \in [SignId -> SignRow(Nat, {NoPayload}, Nat, Nat)] /\ LinksInv' => IInv')
         /\ \A i : Linked(i) => Linked(i)'
<1>1. req'[h] = j /\ \A g \in Request \ {h} : req'[g] = req[g]
  BY DEF IInv, Typed
<1>2. FreePreviewsKept
  <2> SUFFICES ASSUME NEW p \in Preview, \A g \in Request : ~(Creating(g) /\ req[g].preview = p),
                      NEW g \in Request, Creating(g)', req'[g].preview = p
               PROVE  FALSE
    BY DEF FreePreviewsKept
  <2>1. Creating(g) /\ req[g].preview = p
    BY <1>1 DEF Creating, At
  <2> QED
    BY <2>1
<1>3. RowsGrow
  BY DEF RowsGrow
<1>4. \A g \in Request \ {h} : Creating(g) => preview'[req[g].preview] = preview[req[g].preview]
                                               /\ (Creating(h)' => req[g].preview # j.preview)
  BY DEF IInv, OneHolder
<1>5. /\ req' \in [Request -> ReqRecord] /\ (\A g \in Request : Handler(g)') /\ OneHolder'
      /\ \A i : Linked(i) => Linked(i)'
  BY <1>2, <1>3, <1>4, OneMoves
<1>6. RowsInv'
  BY <1>5, SameRows
<1>7. Typed /\ (sreq' = sreq => LinksInv')
  BY <1>5, SameLinks DEF IInv
<1> QED
  BY <1>1, <1>5, <1>6, <1>7 DEF IInv, Typed

LEMMA ReqTyped ==
  ASSUME IInv, NEW h \in Request
  PROVE  /\ req[h] \in ReqRecord /\ Handler(h) /\ NoReq \in ReqRecord
         /\ \A label \in PCs : [req[h] EXCEPT !.pc = label] \in ReqRecord
<1>1. (CHOOSE p \in Preview : TRUE) \in Preview /\ (CHOOSE s \in SignId : TRUE) \in SignId
  BY IssuanceAssumption
<1>2. NoReq \in ReqRecord
  BY <1>1 DEF NoReq, ReqRecord, PCs, NoMint
<1> QED
  BY <1>2 DEF IInv, Typed, ReqRecord

LEMMA IdleHandler ==
  ASSUME NEW h \in Request, req'[h] = NoReq
  PROVE  Handler(h)' /\ ~Creating(h)'
BY DEF NoReq, Handler, Creating, Signing, Attaching, At

(* A handler answers and forgets. *)
LEMMA Returns ==
  ASSUME IInv, NEW h \in Request, Return(h), UNCHANGED <<preview, rows>>,
         MintsGrow, mints' \in Seq(MintRow)
  PROVE  /\ sreq' = sreq => IInv'
         /\ sreq' \in [SignId -> SignRow(Nat, {NoPayload}, Nat, Nat)] /\ LinksInv' => IInv'
<1>1. req' = [req EXCEPT ![h] = NoReq] /\ NoReq \in ReqRecord /\ req'[h] = NoReq
  BY ReqTyped DEF Return, IInv, Typed
<1>2. Handler(h)' /\ ~Creating(h)'
  BY <1>1, IdleHandler
<1> QED
  BY <1>1, <1>2, LocalMove

LEMMA FailedCall ==
  ASSUME IInv, NEW h \in Request, Fails(h, "idle")
  PROVE  IInv'
BY Returns DEF Fails, MintsGrow, IInv, Typed

(* A handler goes on with what it knows. *)
LEMMA Goes ==
  ASSUME IInv, NEW h \in Request, NEW label \in PCs, Goto(h, label)
  PROVE  /\ [req[h] EXCEPT !.pc = label] \in ReqRecord
         /\ req' = [req EXCEPT ![h] = [req[h] EXCEPT !.pc = label]]
         /\ req'[h] = [req[h] EXCEPT !.pc = label]
         /\ req'[h].pc = label /\ req'[h].preview = req[h].preview /\ req'[h].iss = req[h].iss
         /\ req'[h].mint = req[h].mint /\ req'[h].mode = req[h].mode
         /\ req'[h].link = req[h].link /\ req'[h].sigs = req[h].sigs
BY ReqTyped DEF Goto, IInv, Typed, ReqRecord

-----------------------------------------------------------------------------
(* Mints.                                                                  *)

LEMMA MintAdded ==
  ASSUME IInv, NEW row \in MintRow, mints' = Append(mints, row)
  PROVE  /\ mints' \in Seq(MintRow) /\ MintsGrow
         /\ Len(mints) + 1 \in DOMAIN mints' /\ mints'[Len(mints) + 1] = row /\ Len(mints) + 1 \in Nat \ {0}
<1>1. mints \in Seq(MintRow) /\ DOMAIN mints = 1..Len(mints) /\ Len(mints) \in Nat
  BY RowTypes DEF IInv, Typed
<1>2. /\ mints' \in Seq(MintRow) /\ Len(mints') = Len(mints) + 1
      /\ \A m \in 1..Len(mints) : mints'[m] = mints[m]
      /\ mints'[Len(mints) + 1] = row
  BY <1>1, AppendProperties
<1>3. DOMAIN mints' = 1..(Len(mints) + 1)
  BY <1>2, LenProperties
<1> QED
  BY <1>1, <1>2, <1>3 DEF MintsGrow

LEMMA MintSet ==
  ASSUME IInv, NEW m \in DOMAIN mints, NEW st \in {"key", "bare", "ready"}, SetMint(m, st),
         mints[m].state = "ready" => st = "ready"
  PROVE  /\ mints' \in Seq(MintRow) /\ MintsGrow /\ DOMAIN mints' = DOMAIN mints
         /\ mints'[m].state = st
<1>1. mints \in Seq(MintRow) /\ DOMAIN mints = 1..Len(mints) /\ Len(mints) \in Nat
  BY RowTypes DEF IInv, Typed
<1>2. mints \in [1..Len(mints) -> MintRow]
  BY <1>1, LenProperties
<1>3. mints' = [mints EXCEPT ![m].state = st]
  BY DEF SetMint
<1>4. mints' \in [1..Len(mints) -> MintRow] /\ mints'[m].state = st /\ \A k \in DOMAIN mints : k # m => mints'[k] = mints[k]
  BY <1>1, <1>2, <1>3 DEF MintRow
<1>5. mints' \in Seq(MintRow)
  BY <1>1, <1>4
<1> QED
  BY <1>1, <1>4, <1>5 DEF MintsGrow

LEMMA SameMints ==
  ASSUME IInv, mints' = mints
  PROVE  MintsGrow /\ mints' \in Seq(MintRow)
BY DEF MintsGrow, IInv, Typed

(* Going on without a change, to where nothing new is relied on.           *)
LEMMA GoesQuietly ==
  ASSUME IInv, NEW h \in Request, NEW label \in PCs, Goto(h, label),
         UNCHANGED <<preview, rows, sreq>>, MintsGrow, mints' \in Seq(MintRow),
         \/ Creating(h) /\ label = "release"
         \/ Creating(h) /\ label = "delete" /\ req[h].iss \in DOMAIN rows /\ rows[req[h].iss].preview = req[h].preview
         \/ Signing(h) /\ label \in {"recRead", "finalize"} /\ req[h].mint \in DOMAIN mints
         \/ Signing(h) /\ label = "memo" /\ Ready(req[h].mint)'
         \/ Signing(h) /\ label = "complete"
  PROVE  IInv'
<1> DEFINE j == [req[h] EXCEPT !.pc = label]
<1>1. /\ j \in ReqRecord /\ req' = [req EXCEPT ![h] = j] /\ req'[h].pc = label
      /\ j.preview = req[h].preview /\ req'[h].preview = req[h].preview
      /\ req'[h].iss = req[h].iss /\ req'[h].mint = req[h].mint /\ req'[h].mode = req[h].mode
  BY Goes, ReqTyped DEF ReqRecord
<1>2. Handler(h)
  BY DEF IInv
<1> HIDE DEF j
<1>3. Creating(h)' => Creating(h)
  BY <1>1, <1>2 DEF Creating, Signing, At
<1>4. req[h].mint \in DOMAIN mints => req[h].mint \in DOMAIN mints'
  BY DEF MintsGrow
<1>5. Linked(req[h].iss) /\ ~Creating(h)' => Linked(req[h].iss)'
  <2> SUFFICES ASSUME ~Creating(h)'
               PROVE  Linked(req[h].iss) => Linked(req[h].iss)'
    OBVIOUS
  <2>1. \A g \in Request \ {h} : req'[g] = req[g] /\ (Creating(g)' <=> Creating(g))
    BY <1>1 DEF IInv, Typed, Creating, At
  <2> QED
    BY <1>1, <2>1 DEF Linked, Creating, At
<1>6. Handler(h)'
  <2>1. CASE Creating(h)
    BY <1>1, <1>2, <2>1 DEF Handler, Creating, Signing, Attaching, At
  <2>2. CASE Signing(h) /\ label \in {"recRead", "finalize", "memo", "complete"}
    BY <1>1, <1>2, <1>4, <1>5, <2>2 DEF Handler, Creating, Signing, Attaching, At
  <2> QED
    BY <1>2, <2>1, <2>2
<1> QED
  BY <1>1, <1>3, <1>6, LocalMove

-----------------------------------------------------------------------------
(* Custody.                                                                *)

LEMMA StartCreateStep ==
  ASSUME IInv, NEW h \in Request, NEW p \in Preview, NEW mode \in {"custody", "wallet"}, StartCreate(h, p, mode)
  PROVE  IInv'
<1> DEFINE j == [req[h] EXCEPT !.pc = "claim", !.preview = p, !.mode = mode]
<1>1. req' = [req EXCEPT ![h] = j]
  BY DEF StartCreate, IInv, Typed
<1>2. j \in ReqRecord /\ j.pc = "claim"
  <2>1. req[h] \in ReqRecord /\ "claim" \in PCs
    BY ReqTyped DEF PCs
  <2> QED
    BY <2>1 DEF ReqRecord
<1>3. UNCHANGED <<preview, rows, sreq, mints>>
  BY DEF StartCreate
<1> HIDE DEF j
<1>4. req'[h].pc = "claim"
  BY <1>1, <1>2 DEF IInv, Typed
<1>5. Handler(h)' /\ ~Creating(h)'
  BY <1>4 DEF Handler, Creating, Signing, Attaching, At
<1> QED
  BY <1>1, <1>2, <1>3, <1>5, SameMints, LocalMove

(* Taking a preview that was not used. *)
LEMMA ClaimStep ==
  ASSUME IInv, NEW h \in Request, ClaimPreview(h)
  PROVE  IInv'
<1> DEFINE p == req[h].preview
<1>1. UNCHANGED <<sreq, rows, mints>> /\ p \in Preview
  BY ReqTyped DEF ClaimPreview, ReqRecord
<1>2. CASE preview[p].used
  <2>1. Return(h) /\ UNCHANGED preview
    BY <1>2 DEF ClaimPreview
  <2> QED
    BY <1>1, <2>1, SameMints, Returns
<1>3. CASE ~preview[p].used
  <2> DEFINE j == [req[h] EXCEPT !.pc = "insert"]
  <2>1. preview' = [preview EXCEPT ![p].used = TRUE] /\ Goto(h, "insert") /\ "insert" \in PCs
    BY <1>3 DEF ClaimPreview, PCs
  <2>2. j \in ReqRecord /\ req' = [req EXCEPT ![h] = j] /\ req'[h].pc = "insert" /\ req'[h].preview = p
        /\ j.preview = p
    BY <2>1, Goes, ReqTyped DEF ReqRecord
  <2> HIDE DEF j, p
  <2>3. /\ preview' \in [Preview -> [used : BOOLEAN, issuance : Nat]] /\ preview'[p].used
        /\ \A q \in Preview : q # p => preview'[q] = preview[q]
    BY <1>1, <2>1 DEF IInv, Typed
  <2>4. \A g \in Request : Creating(g) => req[g].preview # p /\ req[g].preview \in Preview
    BY <1>3, ReqTyped DEF IInv, Handler, ReqRecord
  <2>5. \A g \in Request \ {h} : req'[g] = req[g] /\ (Creating(g)' <=> Creating(g))
    BY <2>2 DEF IInv, Typed, Creating, At
  <2>6. FreePreviewsKept
    BY <1>3, <2>2, <2>3, <2>5 DEF FreePreviewsKept
  <2>7. Handler(h)'
    BY <2>2, <2>3 DEF Handler, Creating, Signing, Attaching, At
  <2>8. RowsGrow /\ MintsGrow /\ mints' \in Seq(MintRow)
    BY <1>1, SameMints DEF RowsGrow
  <2>9. /\ req' \in [Request -> ReqRecord] /\ (\A g \in Request : Handler(g)') /\ OneHolder'
        /\ \A i : Linked(i) => Linked(i)'
    <3>1. \A g \in Request \ {h} : Creating(g) => preview'[req[g].preview] = preview[req[g].preview]
                                                  /\ req[g].preview # j.preview
      BY <2>2, <2>3, <2>4
    <3> QED
      BY <2>2, <2>6, <2>7, <2>8, <3>1, OneMoves
  <2>10. LinksInv' /\ RowsInv'
    BY <1>1, <2>8, <2>9, SameLinks, SameRows
  <2> QED
    BY <1>1, <2>3, <2>9, <2>10 DEF IInv, Typed
<1> QED
  BY <1>2, <1>3

LEMMA InsertStep ==
  ASSUME IInv, NEW h \in Request, InsertPending(h)
  PROVE  IInv'
<1>1. /\ At(h, "insert") /\ UNCHANGED <<sreq, preview, mints>> /\ Creating(h)
      /\ req[h] \in ReqRecord /\ Handler(h) /\ rows \in Seq(IssuanceRow)
  BY ReqTyped DEF InsertPending, Fails, Creating, At, IInv, Typed
<1>2. CASE Fails(h, "release")
  BY <1>1, <1>2, SameMints, GoesQuietly DEF Fails, PCs
<1>3. CASE ~Fails(h, "release")
  <2> DEFINE row == [preview |-> req[h].preview, alive |-> TRUE, market |-> NoMint, accepted |-> NoMint]
             n == Len(rows) + 1
             j == [req[h] EXCEPT !.pc = "link", !.iss = n]
  <2>1. rows' = Append(rows, row) /\ req' = [req EXCEPT ![h] = j]
    BY <1>3 DEF InsertPending, IInv, Typed
  <2>2. row \in IssuanceRow /\ row.preview = req[h].preview /\ row.market = NoMint /\ row.accepted = NoMint
    BY <1>1 DEF IssuanceRow, ReqRecord, NoMint
  <2>3. Len(rows) \in Nat /\ n \in Nat /\ DOMAIN rows = 1..Len(rows)
    BY RowTypes DEF IInv
  <2>4. /\ j \in ReqRecord /\ j.pc = "link" /\ j.iss = n /\ j.preview = req[h].preview
    BY <1>1, <2>3 DEF ReqRecord, PCs
  <2> HIDE DEF row, j
  <2>5. /\ rows' \in Seq(IssuanceRow) /\ Len(rows') = n /\ rows'[n] = row
        /\ \A i \in 1..Len(rows) : rows'[i] = rows[i]
    BY <1>1, <2>1, <2>2, AppendProperties
  <2>6. DOMAIN rows' = DOMAIN rows \cup {n}
    BY <2>3, <2>5, LenProperties
  <2>7. RowsGrow /\ MintsGrow /\ mints' \in Seq(MintRow)
    BY <1>1, <2>3, <2>5, <2>6, SameMints DEF RowsGrow
  <2>8. req'[h] = j /\ \A g \in Request \ {h} : req'[g] = req[g] /\ (Creating(g)' <=> Creating(g))
    BY <2>1, <2>4 DEF IInv, Typed, Creating, At
  <2>9. FreePreviewsKept
    BY <1>1, <2>4, <2>8 DEF FreePreviewsKept
  <2>10. Handler(h)'
    BY <1>1, <2>2, <2>4, <2>5, <2>6, <2>8 DEF Handler, Creating, Signing, Attaching, At
  <2>11. /\ req' \in [Request -> ReqRecord] /\ (\A g \in Request : Handler(g)') /\ OneHolder'
         /\ \A i : Linked(i) => Linked(i)'
    <3>1. \A g \in Request \ {h} : Creating(g) => req[g].preview # j.preview
      BY <1>1, <2>4 DEF IInv, OneHolder
    <3> QED
      BY <1>1, <2>1, <2>4, <2>7, <2>9, <2>10, <3>1, OneMoves
  <2>12. LinksInv'
    BY <1>1, <2>7, <2>11, SameLinks
  <2>13. RowsInv'
    <3>1. \A m : Ready(m) => Ready(m)'
      BY <2>7 DEF Ready, MintsGrow
    <3> QED
      BY <2>2, <2>3, <2>5, <2>6, <2>11, <3>1 DEF IInv, RowsInv
  <2> QED
    BY <1>1, <2>5, <2>11, <2>12, <2>13 DEF IInv, Typed
<1> QED
  BY <1>2, <1>3

(* The holder of a preview writes it; nobody else relies on it.            *)
LEMMA HolderWrites ==
  ASSUME IInv, NEW h \in Request, Creating(h), NEW j \in ReqRecord, req' = [req EXCEPT ![h] = j],
         j.preview = req[h].preview \/ ~Creating(h)',
         preview' \in [Preview -> [used : BOOLEAN, issuance : Nat]],
         \A q \in Preview : q # req[h].preview => preview'[q] = preview[q],
         UNCHANGED <<sreq, rows, mints>>,
         Handler(h)'
  PROVE  IInv'
<1>1. \A g \in Request \ {h} : req'[g] = req[g] /\ (Creating(g)' <=> Creating(g))
  BY DEF IInv, Typed, Creating, At
<1>2. req'[h] = j
  BY DEF IInv, Typed
<1>3. FreePreviewsKept
  BY <1>1, <1>2 DEF FreePreviewsKept
<1>4. RowsGrow /\ MintsGrow /\ mints' \in Seq(MintRow)
  BY SameMints DEF RowsGrow
<1>5. \A g \in Request \ {h} : Creating(g) => req[g].preview # req[h].preview /\ req[g].preview \in Preview
  BY ReqTyped DEF IInv, OneHolder, ReqRecord
<1>6. /\ req' \in [Request -> ReqRecord] /\ (\A g \in Request : Handler(g)') /\ OneHolder'
      /\ \A i : Linked(i) => Linked(i)'
  BY <1>3, <1>4, <1>5, OneMoves
<1>7. LinksInv' /\ RowsInv'
  BY <1>4, <1>6, SameLinks, SameRows
<1> QED
  BY <1>6, <1>7 DEF IInv, Typed

LEMMA LinkStep ==
  ASSUME IInv, NEW h \in Request, LinkPreview(h)
  PROVE  IInv'
<1>1. /\ At(h, "link") /\ Creating(h) /\ UNCHANGED <<sreq, rows, mints>>
      /\ req[h] \in ReqRecord /\ Handler(h)
  BY ReqTyped DEF LinkPreview, Fails, Creating, At
<1>2. CASE Fails(h, "release")
  BY <1>1, <1>2, SameMints, GoesQuietly DEF Fails, PCs
<1>3. CASE ~Fails(h, "release")
  <2> DEFINE p == req[h].preview
             i == req[h].iss
             label == IF req[h].mode = "wallet" THEN "open" ELSE "market"
             j == [req[h] EXCEPT !.pc = label]
  <2>1. preview' = [preview EXCEPT ![p].issuance = i] /\ Goto(h, label) /\ label \in PCs
    BY <1>3 DEF LinkPreview, PCs
  <2>2. /\ p \in Preview /\ i \in Nat /\ i \in DOMAIN rows /\ rows[i].preview = p /\ preview[p].used
        /\ label \in {"open", "market"} /\ (label = "market" => req[h].mode = "custody")
    BY <1>1 DEF ReqRecord, Handler, At
  <2>3. /\ j \in ReqRecord /\ req' = [req EXCEPT ![h] = j] /\ j.preview = p
        /\ req'[h].pc = label /\ req'[h].preview = p /\ req'[h].iss = i /\ req'[h].mode = req[h].mode
    <3> HIDE DEF label
    <3> QED
      BY <1>1, <2>1, Goes DEF ReqRecord
  <2> HIDE DEF label, j, p, i
  <2>4. /\ preview' \in [Preview -> [used : BOOLEAN, issuance : Nat]]
        /\ preview'[p].used /\ preview'[p].issuance = i
        /\ \A q \in Preview : q # p => preview'[q] = preview[q]
    BY <2>1, <2>2 DEF IInv, Typed
  <2>5. Handler(h)'
    BY <1>1, <2>2, <2>3, <2>4 DEF Handler, Creating, Signing, Attaching, At
  <2>6. p = req[h].preview
    BY DEF p
  <2> QED
    BY <1>1, <2>3, <2>4, <2>5, <2>6, HolderWrites
<1> QED
  BY <1>2, <1>3

LEMMA CreateMarketStep ==
  ASSUME IInv, NEW h \in Request, CreateMarket(h)
  PROVE  IInv'
<1>1. /\ At(h, "market") /\ Creating(h) /\ UNCHANGED <<sreq, preview, rows>>
      /\ req[h] \in ReqRecord /\ Handler(h)
      /\ req[h].iss \in DOMAIN rows /\ rows[req[h].iss].preview = req[h].preview
  BY ReqTyped DEF CreateMarket, Creating, At, Handler
<1> DEFINE new == [state |-> "ready", creator |-> NoFounder]
           n == Len(mints) + 1
           j == [req[h] EXCEPT !.pc = "attach", !.mint = n, !.memo = TRUE]
<1>2. new \in MintRow /\ new.state = "ready"
  BY DEF MintRow
<1>3. mints' = mints \/ mints' = Append(mints, new)
  BY DEF CreateMarket
<1>4. Goto(h, "delete") \/ (mints' = Append(mints, new) /\ req' = [req EXCEPT ![h] = j])
  BY DEF CreateMarket, IInv, Typed
<1> HIDE DEF new
<1>5. mints' \in Seq(MintRow) /\ MintsGrow
  BY <1>2, <1>3, SameMints, MintAdded
<1>6. CASE Goto(h, "delete")
  BY <1>1, <1>5, <1>6, GoesQuietly DEF PCs
<1>7. CASE mints' = Append(mints, new) /\ req' = [req EXCEPT ![h] = j]
  <2>1. n \in DOMAIN mints' /\ mints'[n] = new /\ n \in Nat
    BY <1>2, <1>7, MintAdded
  <2> HIDE DEF n
  <2>2. /\ j \in ReqRecord /\ j.pc = "attach" /\ j.mint = n
        /\ j.mode = req[h].mode /\ j.preview = req[h].preview /\ j.iss = req[h].iss
    BY <1>1, <2>1 DEF ReqRecord, PCs
  <2> HIDE DEF j
  <2>3. req'[h] = j
    BY <1>7 DEF IInv, Typed
  <2>4. req[h].mode = "custody"
    BY <1>1 DEF Handler, At
  <2>5. Handler(h)'
    BY <1>1, <1>2, <2>1, <2>2, <2>3, <2>4 DEF Handler, Creating, Signing, Attaching, At, Ready
  <2> QED
    BY <1>1, <1>5, <1>7, <2>2, <2>5, LocalMove
<1> QED
  BY <1>4, <1>6, <1>7

LEMMA NoChainStep ==
  ASSUME IInv, NEW h \in Request, NoChain(h)
  PROVE  IInv'
BY Returns, SameMints DEF NoChain

(* Attaching by id keeps every row's preview, and marks the linked one.    *)
LEMMA Attached ==
  ASSUME IInv, NEW h \in Request, Attach(h), mints' = mints,
         NEW i \in DOMAIN rows, i = req[h].iss, NEW m, m = req[h].mint, Ready(m),
         Linked(i)', \A k : Linked(k) => Linked(k)'
  PROVE  rows' \in Seq(IssuanceRow) /\ RowsGrow /\ RowsInv'
<1> DEFINE a == IF req[h].memo THEN m ELSE rows[i].accepted
<1>1. /\ rows \in Seq(IssuanceRow) /\ DOMAIN rows = 1..Len(rows) /\ Len(rows) \in Nat
      /\ rows \in [1..Len(rows) -> IssuanceRow] /\ m \in Nat \ {0} /\ i \in DOMAIN rows
  BY RowTypes, LenProperties DEF IInv, Typed, Ready
<1>2. rows' = [rows EXCEPT ![i] = [rows[i] EXCEPT !.market = m, !.accepted = a]] /\ a \in Nat
  <2>1. rows' = [rows EXCEPT ![i].market = m, ![i].accepted = IF req[h].memo THEN m ELSE @]
    BY DEF Attach
  <2>2. rows[i] \in IssuanceRow
    BY <1>1
  <2> QED
    BY <1>1, <2>1, <2>2 DEF IssuanceRow
<1>3. Ready(m) /\ Linked(i)'
  OBVIOUS
<1>4. a = m \/ a = rows[i].accepted
  OBVIOUS
<1> HIDE DEF a
<1> DEFINE row == [rows[i] EXCEPT !.market = m, !.accepted = a]
<1>5. row \in IssuanceRow /\ row.preview = rows[i].preview /\ row.market = m /\ row.accepted = a
  BY <1>1, <1>2 DEF IssuanceRow
<1>6. rows' = [rows EXCEPT ![i] = row]
  BY <1>2
<1> HIDE DEF row
<1>7. /\ rows' \in [1..Len(rows) -> IssuanceRow] /\ DOMAIN rows' = DOMAIN rows /\ rows'[i] = row
      /\ \A k \in DOMAIN rows : k # i => rows'[k] = rows[k]
  BY <1>1, <1>5, <1>6
<1>8. rows' \in Seq(IssuanceRow)
  BY <1>1, <1>7
<1>9. RowsGrow
  BY <1>5, <1>7 DEF RowsGrow
<1>10. \A k : Ready(k) => Ready(k)'
  BY DEF Ready
<1>11. RowsInv'
  BY <1>1, <1>3, <1>4, <1>5, <1>7, <1>10 DEF IInv, RowsInv, NoMint
<1> QED
  BY <1>8, <1>9, <1>11

LEMMA AttachCustodyStep ==
  ASSUME IInv, NEW h \in Request, AttachCustody(h)
  PROVE  IInv'
<1>0. PICK i, p, m : i = req[h].iss /\ p = req[h].preview /\ m = req[h].mint
  OBVIOUS
<1>1. /\ Attaching(h) /\ Creating(h) /\ UNCHANGED <<sreq, preview, mints>>
      /\ req[h] \in ReqRecord /\ Handler(h)
      /\ i \in DOMAIN rows /\ rows[i].preview = p /\ preview[p].used /\ preview[p].issuance = i
      /\ Ready(m) /\ p \in Preview
  <2>1. req[h] \in ReqRecord /\ Handler(h) /\ Attaching(h) /\ Creating(h) /\ UNCHANGED <<sreq, preview, mints>>
    BY ReqTyped DEF AttachCustody, Fails, Creating, Attaching, At
  <2> QED
    BY <1>0, <2>1 DEF Handler, Attaching, At, ReqRecord
<1>2. CASE Fails(h, "delete")
  BY <1>0, <1>1, <1>2, SameMints, GoesQuietly DEF Fails, PCs
<1>3. CASE ~Fails(h, "delete")
  <2>1. Attach(h) /\ Return(h)
    BY <1>3 DEF AttachCustody
  <2>2. req' = [req EXCEPT ![h] = NoReq] /\ NoReq \in ReqRecord /\ req'[h] = NoReq
    BY <2>1, ReqTyped DEF Return, IInv, Typed
  <2>3. Handler(h)' /\ ~Creating(h)'
    BY <2>2, IdleHandler
  <2>4. \A g \in Request \ {h} : req'[g] = req[g] /\ (Creating(g)' <=> Creating(g))
    BY <2>2 DEF IInv, Typed, Creating, At
  <2>5. \A g \in Request : ~(Creating(g)' /\ req'[g].preview = p)
    BY <1>0, <1>1, <2>3, <2>4 DEF IInv, OneHolder
  <2>6. RowsGrow
    <3>1. rows \in Seq(IssuanceRow) /\ DOMAIN rows = 1..Len(rows) /\ rows[i] \in IssuanceRow
      BY <1>1, RowTypes DEF IInv, Typed
    <3>2. rows' = [rows EXCEPT ![i].market = m, ![i].accepted = IF req[h].memo THEN m ELSE @]
      BY <1>0, <2>1 DEF Attach
    <3> QED
      BY <3>1, <3>2 DEF RowsGrow, IssuanceRow
  <2>7. Linked(i)'
    <3>1. i \in DOMAIN rows' /\ rows'[i].preview = p
      BY <1>1, <2>6 DEF RowsGrow
    <3>2. preview[p] = [used |-> TRUE, issuance |-> i]
      <4>1. preview[p] \in [used : BOOLEAN, issuance : Nat]
        BY <1>1 DEF IInv, Typed
      <4> QED
        BY <1>1, <4>1
    <3> QED
      BY <1>1, <2>5, <3>1, <3>2 DEF Linked, Creating, At
  <2>8. FreePreviewsKept
    BY <1>0, <1>1, <2>3, <2>4 DEF FreePreviewsKept
  <2>9. MintsGrow /\ mints' \in Seq(MintRow)
    BY <1>1, SameMints
  <2>10. /\ req' \in [Request -> ReqRecord] /\ (\A g \in Request : Handler(g)') /\ OneHolder'
         /\ \A k : Linked(k) => Linked(k)'
    BY <1>1, <2>2, <2>3, <2>6, <2>8, <2>9, OneMoves
  <2>11. rows' \in Seq(IssuanceRow) /\ RowsInv'
    BY <1>0, <1>1, <2>1, <2>7, <2>10, Attached
  <2>12. LinksInv'
    BY <1>1, <2>9, <2>10, SameLinks
  <2> QED
    BY <1>1, <2>9, <2>10, <2>11, <2>12 DEF IInv, Typed
<1> QED
  BY <1>2, <1>3

(* A row that is deleted never had a market: its preview is still held.    *)
LEMMA DeleteStep ==
  ASSUME IInv, NEW h \in Request, DeletePending(h)
  PROVE  IInv'
<1> DEFINE i == req[h].iss
<1>1. /\ At(h, "delete") /\ Creating(h) /\ UNCHANGED <<sreq, preview, mints>>
      /\ req[h] \in ReqRecord /\ Handler(h) /\ i \in DOMAIN rows
  BY ReqTyped DEF DeletePending, Fails, Creating, At, Handler
<1>2. CASE Fails(h, "release")
  BY <1>1, <1>2, SameMints, GoesQuietly DEF Fails, PCs
<1>3. CASE ~Fails(h, "release")
  <2> DEFINE j == [req[h] EXCEPT !.pc = "release"]
  <2>1. rows' = [rows EXCEPT ![i].alive = FALSE] /\ Goto(h, "release") /\ "release" \in PCs
    BY <1>3 DEF DeletePending, PCs
  <2>2. j \in ReqRecord /\ req' = [req EXCEPT ![h] = j] /\ req'[h].pc = "release"
        /\ req'[h].preview = req[h].preview /\ j.preview = req[h].preview
    BY <1>1, <2>1, Goes DEF ReqRecord
  <2> HIDE DEF j, i
  <2>3. /\ rows' \in Seq(IssuanceRow) /\ DOMAIN rows' = DOMAIN rows
        /\ \A k \in DOMAIN rows : /\ rows'[k].preview = rows[k].preview
                                  /\ rows'[k].market = rows[k].market /\ rows'[k].accepted = rows[k].accepted
    <3>1. /\ rows \in [1..Len(rows) -> IssuanceRow] /\ DOMAIN rows = 1..Len(rows) /\ Len(rows) \in Nat
      BY RowTypes, LenProperties DEF IInv, Typed
    <3>2. rows' \in [1..Len(rows) -> IssuanceRow]
      BY <1>1, <2>1, <3>1 DEF IssuanceRow
    <3>3. rows' \in Seq(IssuanceRow)
      BY <3>1, <3>2
    <3> QED
      BY <1>1, <2>1, <3>1, <3>3 DEF IssuanceRow
  <2>4. RowsGrow /\ MintsGrow /\ mints' \in Seq(MintRow)
    BY <1>1, <2>3, SameMints DEF RowsGrow
  <2>5. \A g \in Request \ {h} : req'[g] = req[g] /\ (Creating(g)' <=> Creating(g))
    BY <2>2 DEF IInv, Typed, Creating, At
  <2>6. FreePreviewsKept
    BY <1>1, <2>2, <2>5 DEF FreePreviewsKept
  <2>7. Handler(h)'
    BY <1>1, <2>2 DEF Handler, Creating, Signing, Attaching, At
  <2>8. /\ req' \in [Request -> ReqRecord] /\ (\A g \in Request : Handler(g)') /\ OneHolder'
        /\ \A k : Linked(k) => Linked(k)'
    <3>1. \A g \in Request \ {h} : Creating(g) => req[g].preview # j.preview
      BY <1>1, <2>2 DEF IInv, OneHolder
    <3> QED
      BY <1>1, <2>2, <2>4, <2>6, <2>7, <3>1, OneMoves
  <2>9. LinksInv'
    BY <1>1, <2>4, <2>8, SameLinks
  <2>10. RowsInv'
    <3>1. \A m : Ready(m) => Ready(m)'
      BY <2>4 DEF Ready, MintsGrow
    <3> QED
      BY <2>3, <2>8, <3>1 DEF IInv, RowsInv
  <2> QED
    BY <1>1, <2>3, <2>4, <2>8, <2>9, <2>10 DEF IInv, Typed
<1> QED
  BY <1>2, <1>3

LEMMA ReleaseStep ==
  ASSUME IInv, NEW h \in Request, ReleasePreview(h)
  PROVE  IInv'
<1> DEFINE p == req[h].preview
<1>1. /\ Creating(h) /\ UNCHANGED <<sreq, rows, mints>> /\ p \in Preview /\ Return(h)
      /\ preview' = [preview EXCEPT ![p] = [used |-> FALSE, issuance |-> 0]] \/ preview' = preview
  BY ReqTyped DEF ReleasePreview, Creating, At, ReqRecord
<1>2. req' = [req EXCEPT ![h] = NoReq] /\ NoReq \in ReqRecord /\ req'[h] = NoReq
  BY <1>1, ReqTyped DEF Return, IInv, Typed
<1>3. Handler(h)' /\ ~Creating(h)'
  BY <1>2, IdleHandler
<1>4. p = req[h].preview
  OBVIOUS
<1> HIDE DEF p
<1>5. /\ preview' \in [Preview -> [used : BOOLEAN, issuance : Nat]]
      /\ \A q \in Preview : q # p => preview'[q] = preview[q]
  <2>1. preview \in [Preview -> [used : BOOLEAN, issuance : Nat]]
    BY DEF IInv, Typed
  <2> DEFINE free == [used |-> FALSE, issuance |-> 0]
  <2>2. free \in [used : BOOLEAN, issuance : Nat]
    OBVIOUS
  <2>3. preview' = [preview EXCEPT ![p] = free] \/ preview' = preview
    BY <1>1
  <2> HIDE DEF free
  <2> QED
    BY <2>1, <2>2, <2>3
<1> QED
  BY <1>1, <1>2, <1>3, <1>4, <1>5, HolderWrites

-----------------------------------------------------------------------------
(* The wallet flow.                                                        *)

LEMMA LinkRows ==
  ASSUME IInv
  PROVE  \A s \in SignId : sreq[s] \in SignRow(Nat, {NoPayload}, Nat, Nat)
BY DEF IInv, Typed

(* The holder of the preview opens the link and lets go of it: from here   *)
(* on the issuance is linked.                                              *)
LEMMA OpenStep ==
  ASSUME IInv, NEW h \in Request, OpenLink(h)
  PROVE  IInv'
<1>0. PICK i, p : i = req[h].iss /\ p = req[h].preview
  OBVIOUS
<1>1. /\ Creating(h) /\ UNCHANGED <<preview, rows, mints>> /\ Return(h)
      /\ p \in Preview /\ i \in DOMAIN rows /\ i \in Nat /\ rows[i].preview = p
      /\ preview[p].used /\ preview[p].issuance = i
  <2>1. req[h] \in ReqRecord /\ Handler(h) /\ At(h, "open")
    BY ReqTyped DEF OpenLink
  <2> QED
    BY <1>0, <2>1 DEF Handler, At, ReqRecord, OpenLink, Creating
<1>2. MintsGrow /\ mints' \in Seq(MintRow)
  BY <1>1, SameMints
<1>3. CASE sreq' = sreq
  BY <1>1, <1>2, <1>3, Returns
<1>4. CASE CreateRequest(i, NoPayload)
  <2>1. req' = [req EXCEPT ![h] = NoReq] /\ NoReq \in ReqRecord /\ req'[h] = NoReq
    BY <1>1, ReqTyped DEF Return, IInv, Typed
  <2>2. Handler(h)' /\ ~Creating(h)'
    BY <2>1, IdleHandler
  <2>3. \A k : Linked(k) => Linked(k)'
    BY <1>1, <1>2, <2>1, <2>2, LocalMove
  <2>4. \A g \in Request \ {h} : req'[g] = req[g] /\ (Creating(g)' <=> Creating(g))
    BY <2>1 DEF IInv, Typed, Creating, At
  <2>5. \A g \in Request : ~(Creating(g)' /\ req'[g].preview = p)
    BY <1>0, <1>1, <2>2, <2>4 DEF IInv, OneHolder
  <2>6. preview[p] = [used |-> TRUE, issuance |-> i]
    <3>1. preview[p] \in [used : BOOLEAN, issuance : Nat]
      BY <1>1 DEF IInv, Typed
    <3> QED
      BY <1>1, <3>1
  <2>7. Linked(i)'
    BY <1>1, <2>5, <2>6 DEF Linked, Creating, At
  <2> DEFINE new == [NoRequest EXCEPT !.status = "PENDING", !.live = TRUE, !.subject = i, !.meta = NoPayload]
  <2>8. new \in SignRow(Nat, {NoPayload}, Nat, Nat) /\ new.subject = i /\ new.payload = NoPayload
    BY <1>1, IssuanceAssumption DEF NoRequest, SignRow
  <2>9. PICK s \in SignId : sreq' = [sreq EXCEPT ![s] = new]
    BY <1>4 DEF CreateRequest
  <2> HIDE DEF new
  <2>10. sreq' \in [SignId -> SignRow(Nat, {NoPayload}, Nat, Nat)]
    BY <2>8, <2>9 DEF IInv, Typed
  <2>11. LinksInv'
    BY <1>1, <2>3, <2>7, <2>8, <2>9 DEF IInv, Typed, LinksInv
  <2> QED
    BY <1>1, <1>2, <2>10, <2>11, Returns
<1> QED
  BY <1>0, <1>3, <1>4 DEF OpenLink

LEMMA BuildStep ==
  ASSUME IInv, NEW h \in Request, NEW s \in SignId, NEW w \in Founder, StartBuild(h, s, w)
  PROVE  IInv'
<1> DEFINE new == [state |-> "key", creator |-> w]
           n == Len(mints) + 1
           j == [req[h] EXCEPT !.pc = "buildSave", !.link = s, !.wallet = w, !.mint = n]
<1>1. UNCHANGED <<sreq, preview, rows>> /\ mints' = Append(mints, new) /\ req' = [req EXCEPT ![h] = j]
      /\ req[h] \in ReqRecord
  BY ReqTyped DEF StartBuild, NewKey, IInv, Typed
<1>2. new \in MintRow
  BY DEF MintRow
<1> HIDE DEF new
<1>3. mints' \in Seq(MintRow) /\ MintsGrow /\ n \in DOMAIN mints' /\ n \in Nat
  BY <1>1, <1>2, MintAdded
<1> HIDE DEF n
<1>4. "buildSave" \in PCs
  BY DEF PCs
<1>5. j \in ReqRecord /\ j.pc = "buildSave" /\ j.mint = n
  BY <1>1, <1>3, <1>4 DEF ReqRecord
<1> HIDE DEF j
<1>6. req'[h] = j
  BY <1>1 DEF IInv, Typed
<1>7. Handler(h)' /\ ~Creating(h)'
  BY <1>3, <1>5, <1>6 DEF Handler, Creating, Signing, Attaching, At
<1> QED
  BY <1>1, <1>3, <1>5, <1>7, LocalMove

LEMMA SubmitStep ==
  ASSUME IInv, NEW h \in Request, NEW s \in SignId, NEW w \in Founder, StartSubmit(h, s, w)
  PROVE  IInv'
<1>0. PICK m, i : m = sreq[s].payload /\ i = sreq[s].subject
  OBVIOUS
<1> DEFINE j == [req[h] EXCEPT !.pc = "send", !.link = s, !.wallet = w, !.mint = m, !.iss = i, !.mode = "wallet"]
<1>1. UNCHANGED <<sreq, preview, rows, mints>> /\ req' = [req EXCEPT ![h] = j] /\ req[h] \in ReqRecord
  BY <1>0, ReqTyped DEF StartSubmit, IInv, Typed
<1>2. m \in Nat /\ i \in Nat /\ m \in DOMAIN mints /\ Linked(i)
  BY <1>0, LinkRows DEF StartSubmit, MaySubmit, Exists, IInv, LinksInv, SignRow
<1>3. "send" \in PCs
  BY DEF PCs
<1>4. j \in ReqRecord /\ j.pc = "send" /\ j.mint = m /\ j.iss = i /\ j.mode = "wallet"
  BY <1>1, <1>2, <1>3 DEF ReqRecord
<1> HIDE DEF j
<1>5. req'[h] = j /\ \A g \in Request \ {h} : req'[g] = req[g]
  BY <1>1 DEF IInv, Typed
<1>6. ~Creating(h)'
  BY <1>4, <1>5 DEF Creating, At
<1>7. Linked(i)'
  BY <1>1, <1>2, <1>5, <1>6 DEF Linked, Creating, At
<1>8. Handler(h)'
  BY <1>1, <1>2, <1>4, <1>5, <1>7 DEF Handler, Creating, Signing, Attaching, At
<1> QED
  BY <1>1, <1>4, <1>6, <1>8, SameMints, LocalMove

(* A handler that writes a link row keeps its issuance.                    *)
LEMMA LinkWritten ==
  ASSUME IInv, NEW s \in SignId, NEW row \in SignRow(Nat, {NoPayload}, Nat, Nat),
         sreq' = [sreq EXCEPT ![s] = row], row.subject = sreq[s].subject,
         row.payload = sreq[s].payload \/ row.payload \in DOMAIN mints,
         MintsGrow, \A i : Linked(i) => Linked(i)'
  PROVE  sreq' \in [SignId -> SignRow(Nat, {NoPayload}, Nat, Nat)] /\ LinksInv'
BY DEF IInv, Typed, LinksInv, MintsGrow

LEMMA SaveBuildStep ==
  ASSUME IInv, NEW h \in Request, SaveBuild(h)
  PROVE  IInv'
<1>1. CASE Fails(h, "idle")
  BY <1>1, FailedCall
<1>2. CASE ~Fails(h, "idle")
  <2> DEFINE s == req[h].link
             m == req[h].mint
             w == req[h].wallet
             row == [sreq[s] EXCEPT !.signer = w, !.payload = m]
  <2>1. req[h] \in ReqRecord /\ m \in DOMAIN mints
    BY ReqTyped DEF Handler, SaveBuild, At
  <2>2. /\ s \in SignId /\ w \in Founder \cup {NoFounder} /\ m \in Nat
        /\ sreq' = [sreq EXCEPT ![s].signer = w, ![s].payload = m]
        /\ Return(h) /\ UNCHANGED <<preview, rows, mints>>
    BY <1>2, <2>1 DEF SaveBuild, SavePayload, ReqRecord
  <2> HIDE DEF s, m, w
  <2>3. sreq[s] \in SignRow(Nat, {NoPayload}, Nat, Nat)
    BY <2>2, LinkRows
  <2>4. /\ row \in SignRow(Nat, {NoPayload}, Nat, Nat) /\ row.subject = sreq[s].subject /\ row.payload = m
        /\ sreq' = [sreq EXCEPT ![s] = row]
    BY <2>2, <2>3 DEF SignRow, IInv, Typed
  <2> HIDE DEF row
  <2>5. MintsGrow /\ mints' \in Seq(MintRow)
    BY <2>2, SameMints
  <2>6. \A i : Linked(i) => Linked(i)'
    <3>1. req' = [req EXCEPT ![h] = NoReq] /\ NoReq \in ReqRecord /\ req'[h] = NoReq
      BY <2>2, ReqTyped DEF Return, IInv, Typed
    <3>2. Handler(h)' /\ ~Creating(h)'
      BY <3>1, IdleHandler
    <3> QED
      BY <2>2, <2>5, <3>1, <3>2, LocalMove
  <2> QED
    BY <2>1, <2>2, <2>4, <2>5, <2>6, LinkWritten, Returns
<1> QED
  BY <1>1, <1>2

LEMMA SendStep ==
  ASSUME IInv, NEW h \in Request, SendCreate(h)
  PROVE  IInv'
<1> DEFINE m == req[h].mint
<1>1. /\ Signing(h) /\ m \in DOMAIN mints /\ UNCHANGED <<sreq, preview, rows>>
      /\ mints' = mints \/ (SetMint(m, "bare") /\ mints[m].state = "key")
      /\ Goto(h, "recRead") \/ Return(h)
  BY ReqTyped DEF SendCreate, Signing, Handler, At
<1>2. m = req[h].mint
  OBVIOUS
<1> HIDE DEF m
<1>3. mints' \in Seq(MintRow) /\ MintsGrow
  BY <1>1, SameMints, MintSet
<1>4. CASE Goto(h, "recRead")
  BY <1>1, <1>2, <1>3, <1>4, GoesQuietly DEF PCs
<1>5. CASE Return(h)
  BY <1>1, <1>3, <1>5, Returns
<1> QED
  BY <1>1, <1>4, <1>5

LEMMA RecordStep ==
  ASSUME IInv, NEW h \in Request, ReadSignatures(h) \/ RecordSignature(h)
  PROVE  IInv'
<1>0. PICK k, m : k = req[h].iss /\ m = req[h].mint
  OBVIOUS
<1>1. CASE Fails(h, "idle")
  BY <1>1, FailedCall
<1>2. CASE ReadSignatures(h) /\ ~Fails(h, "idle")
  <2> DEFINE read == sreq[req[h].link].sigs
             j == [req[h] EXCEPT !.pc = "recWrite", !.sigs = read]
  <2>1. /\ UNCHANGED <<sreq, preview, rows, mints>> /\ req' = [req EXCEPT ![h] = j]
        /\ req[h] \in ReqRecord /\ Handler(h) /\ At(h, "recRead")
    BY <1>2, ReqTyped DEF ReadSignatures, IInv, Typed
  <2>2. read \in SUBSET Nat /\ "recWrite" \in PCs
    BY <2>1, LinkRows DEF ReqRecord, SignRow, PCs
  <2> HIDE DEF read
  <2>3. j \in ReqRecord /\ j.pc = "recWrite" /\ j.mint = req[h].mint /\ j.iss = req[h].iss /\ j.mode = req[h].mode
        /\ j.preview = req[h].preview
    BY <2>1, <2>2 DEF ReqRecord
  <2> HIDE DEF j
  <2>4. req'[h] = j /\ \A g \in Request \ {h} : req'[g] = req[g]
    BY <2>1 DEF IInv, Typed
  <2>5. ~Creating(h)'
    BY <2>3, <2>4 DEF Creating, At
  <2>6. Linked(k) => Linked(k)'
    BY <2>1, <2>4, <2>5 DEF Linked, Creating, At
  <2>7. Handler(h)'
    BY <1>0, <2>1, <2>3, <2>4, <2>6 DEF Handler, Creating, Signing, Attaching, At
  <2> QED
    BY <2>1, <2>3, <2>5, <2>7, SameMints, LocalMove
<1>3. CASE RecordSignature(h) /\ ~Fails(h, "idle")
  <2> DEFINE s == req[h].link
             sigs == req[h].sigs \cup {req[h].mint}
             row == [sreq[s] EXCEPT !.sigs = sigs]
             j == [req[h] EXCEPT !.pc = "finalize"]
  <2>1. req[h] \in ReqRecord /\ Handler(h) /\ At(h, "recWrite") /\ UNCHANGED <<preview, rows, mints>>
        /\ Goto(h, "finalize")
    BY <1>3, ReqTyped DEF RecordSignature
  <2>2. s \in SignId /\ sigs \in SUBSET Nat /\ sreq' = [sreq EXCEPT ![s].sigs = sigs]
    BY <1>3, <2>1 DEF RecordSignature, WriteSignatures, ReqRecord
  <2>3. /\ j \in ReqRecord /\ req' = [req EXCEPT ![h] = j] /\ req'[h].pc = "finalize"
        /\ req'[h].iss = req[h].iss /\ req'[h].mint = req[h].mint /\ req'[h].mode = req[h].mode
        /\ \A g \in Request \ {h} : req'[g] = req[g]
    BY <2>1, Goes DEF PCs, IInv, Typed
  <2> HIDE DEF s, sigs, j
  <2>4. sreq[s] \in SignRow(Nat, {NoPayload}, Nat, Nat)
    BY <2>2, LinkRows
  <2>5. /\ row \in SignRow(Nat, {NoPayload}, Nat, Nat) /\ row.subject = sreq[s].subject
        /\ row.payload = sreq[s].payload /\ sreq' = [sreq EXCEPT ![s] = row]
    BY <2>2, <2>4 DEF SignRow, IInv, Typed
  <2> HIDE DEF row
  <2>6. MintsGrow /\ mints' \in Seq(MintRow)
    BY <2>1, SameMints
  <2>7. ~Creating(h)'
    BY <2>3 DEF Creating, At
  <2>8. Linked(k) => Linked(k)'
    BY <2>1, <2>3, <2>7 DEF Linked, Creating, At
  <2>9. Handler(h)'
    BY <1>0, <2>1, <2>3, <2>8 DEF Handler, Creating, Signing, Attaching, At
  <2>10. \A i : Linked(i) => Linked(i)'
    BY <2>1, <2>3, <2>6, <2>7, <2>9, LocalMove
  <2>11. sreq' \in [SignId -> SignRow(Nat, {NoPayload}, Nat, Nat)] /\ LinksInv'
    BY <2>2, <2>5, <2>6, <2>10, LinkWritten
  <2> QED
    BY <2>1, <2>3, <2>6, <2>7, <2>9, <2>11, LocalMove
<1> QED
  BY <1>1, <1>2, <1>3

LEMMA FinalizeStep ==
  ASSUME IInv, NEW h \in Request, Finalize(h)
  PROVE  IInv'
<1>0. PICK m : m = req[h].mint
  OBVIOUS
<1>1. /\ Signing(h) /\ m \in DOMAIN mints /\ UNCHANGED <<sreq, preview, rows>>
      /\ \/ SetMint(m, "ready") /\ (Goto(h, "memo") \/ Return(h))
         \/ UNCHANGED mints /\ Return(h)
  BY <1>0, ReqTyped DEF Finalize, Signing, Handler, At
<1>3. mints' \in Seq(MintRow) /\ MintsGrow
  BY <1>1, SameMints, MintSet
<1>4. CASE SetMint(m, "ready") /\ Goto(h, "memo")
  <2>1. Ready(m)'
    BY <1>1, <1>4, MintSet DEF Ready
  <2>2. Ready(req[h].mint)'
    <3>1. req'[h].mint = m
      BY <1>0, <1>4, Goes DEF PCs
    <3> QED
      BY <2>1, <3>1 DEF Ready
  <2> QED
    BY <1>0, <1>1, <1>3, <1>4, <2>2, GoesQuietly DEF PCs
<1>5. CASE Return(h)
  BY <1>1, <1>3, <1>5, Returns
<1> QED
  BY <1>1, <1>4, <1>5

LEMMA MemoStep ==
  ASSUME IInv, NEW h \in Request, SendMemo(h)
  PROVE  IInv'
<1>0. PICK k, m : k = req[h].iss /\ m = req[h].mint
  OBVIOUS
<1>1. /\ UNCHANGED <<sreq, preview, rows, mints>> /\ req[h] \in ReqRecord /\ Handler(h) /\ At(h, "memo")
      /\ "attach" \in PCs
  BY ReqTyped DEF SendMemo, PCs
<1>2. PICK ok \in BOOLEAN : req' = [req EXCEPT ![h].pc = "attach", ![h].memo = ok]
  BY DEF SendMemo
<1> DEFINE j == [req[h] EXCEPT !.pc = "attach", !.memo = ok]
<1>3. /\ j \in ReqRecord /\ j.pc = "attach" /\ j.mint = req[h].mint /\ j.iss = req[h].iss /\ j.mode = req[h].mode
      /\ req' = [req EXCEPT ![h] = j]
  BY <1>1, <1>2 DEF ReqRecord, IInv, Typed
<1> HIDE DEF j
<1>4. req'[h] = j /\ \A g \in Request \ {h} : req'[g] = req[g]
  BY <1>3 DEF IInv, Typed
<1>5. req[h].mode = "wallet" /\ Linked(k) /\ Ready(m)
  BY <1>0, <1>1 DEF Handler, Signing, At
<1>6. ~Creating(h)'
  BY <1>3, <1>4, <1>5 DEF Creating, At
<1>7. Linked(k)' /\ Ready(m)'
  BY <1>1, <1>4, <1>5, <1>6 DEF Linked, Creating, At, Ready
<1>8. Handler(h)'
  BY <1>0, <1>3, <1>4, <1>5, <1>7 DEF Handler, Creating, Signing, Attaching, At
<1> QED
  BY <1>1, <1>3, <1>6, <1>8, SameMints, LocalMove

LEMMA AttachSignedStep ==
  ASSUME IInv, NEW h \in Request, AttachSigned(h)
  PROVE  IInv'
<1>1. CASE Fails(h, "idle")
  BY <1>1, FailedCall
<1>2. CASE ~Fails(h, "idle")
  <2>0. PICK i, m : i = req[h].iss /\ m = req[h].mint
    OBVIOUS
  <2> DEFINE j == [req[h] EXCEPT !.pc = "complete"]
  <2>1. /\ Attach(h) /\ Goto(h, "complete") /\ UNCHANGED <<sreq, preview, mints>>
        /\ Linked(i) /\ Ready(m) /\ ~Creating(h) /\ "complete" \in PCs /\ req[h].mode = "wallet"
    BY <1>2, <2>0, ReqTyped DEF AttachSigned, Handler, Signing, Creating, At, PCs
  <2>2. /\ j \in ReqRecord /\ req' = [req EXCEPT ![h] = j] /\ req'[h].pc = "complete"
        /\ req'[h].iss = i /\ req'[h].mode = "wallet" /\ req'[h].preview = req[h].preview
        /\ j.preview = req[h].preview
    BY <2>0, <2>1, Goes, ReqTyped DEF ReqRecord
  <2> HIDE DEF j
  <2>3. ~Creating(h)' /\ \A g \in Request \ {h} : req'[g] = req[g] /\ (Creating(g)' <=> Creating(g))
    BY <2>2 DEF IInv, Typed, Creating, At
  <2>4. RowsGrow
    <3>1. rows \in Seq(IssuanceRow) /\ DOMAIN rows = 1..Len(rows) /\ rows[i] \in IssuanceRow /\ i \in DOMAIN rows
      BY <2>1, RowTypes DEF IInv, Typed, Linked
    <3>2. rows' = [rows EXCEPT ![i].market = m, ![i].accepted = IF req[h].memo THEN m ELSE @]
      BY <2>0, <2>1 DEF Attach
    <3> QED
      BY <3>1, <3>2 DEF RowsGrow, IssuanceRow
  <2>5. FreePreviewsKept
    BY <2>1, <2>3 DEF FreePreviewsKept
  <2>6. \A k : Linked(k) => Linked(k)'
    BY <2>4, <2>5, LinkedStays DEF IInv
  <2>7. Handler(h)'
    BY <2>1, <2>2, <2>6 DEF Handler, Creating, Signing, Attaching, At
  <2>8. MintsGrow /\ mints' \in Seq(MintRow)
    BY <2>1, SameMints
  <2>9. req' \in [Request -> ReqRecord] /\ (\A g \in Request : Handler(g)') /\ OneHolder'
    BY <2>1, <2>2, <2>3, <2>4, <2>5, <2>7, <2>8, OneMoves
  <2>10. rows' \in Seq(IssuanceRow) /\ RowsInv'
    <3>1. i \in DOMAIN rows /\ Linked(i)'
      BY <2>1, <2>6 DEF Linked
    <3> QED
      BY <2>0, <2>1, <2>6, <3>1, Attached
  <2>11. LinksInv'
    BY <2>1, <2>6, <2>8, SameLinks
  <2> QED
    BY <2>1, <2>8, <2>9, <2>10, <2>11 DEF IInv, Typed
<1> QED
  BY <1>1, <1>2

LEMMA CompleteStep ==
  ASSUME IInv, NEW h \in Request, CompleteSubmit(h)
  PROVE  IInv'
<1>1. CASE Fails(h, "idle")
  BY <1>1, FailedCall
<1>2. CASE ~Fails(h, "idle")
  <2> DEFINE s == req[h].link
             row == [sreq[s] EXCEPT !.status = "COMPLETED"]
  <2>1. s \in SignId /\ sreq' = [sreq EXCEPT ![s].status = "COMPLETED"] /\ Return(h) /\ UNCHANGED <<preview, rows, mints>>
    BY <1>2, ReqTyped DEF CompleteSubmit, CompleteRequest, ReqRecord
  <2> HIDE DEF s
  <2>2. sreq[s] \in SignRow(Nat, {NoPayload}, Nat, Nat)
    BY <2>1, LinkRows
  <2>3. /\ row \in SignRow(Nat, {NoPayload}, Nat, Nat) /\ row.subject = sreq[s].subject
        /\ row.payload = sreq[s].payload /\ sreq' = [sreq EXCEPT ![s] = row]
    BY <2>1, <2>2 DEF SignRow, IInv, Typed
  <2> HIDE DEF row
  <2>4. MintsGrow /\ mints' \in Seq(MintRow)
    BY <2>1, SameMints
  <2>5. \A i : Linked(i) => Linked(i)'
    <3>1. req' = [req EXCEPT ![h] = NoReq] /\ NoReq \in ReqRecord /\ req'[h] = NoReq
      BY <2>1, ReqTyped DEF Return, IInv, Typed
    <3>2. Handler(h)' /\ ~Creating(h)'
      BY <3>1, IdleHandler
    <3> QED
      BY <2>1, <2>4, <3>1, <3>2, LocalMove
  <2> QED
    BY <2>1, <2>3, <2>4, <2>5, LinkWritten, Returns
<1> QED
  BY <1>1, <1>2

-----------------------------------------------------------------------------
LEMMA StillInv ==
  ASSUME IInv, UNCHANGED <<preview, rows, mints, req>>,
         \A i : Linked(i) => Linked(i)'
  PROVE  sreq' = sreq \/ (sreq' \in [SignId -> SignRow(Nat, {NoPayload}, Nat, Nat)] /\ LinksInv') => IInv'
<1>1. \A m : Ready(m) => Ready(m)'
  BY DEF Ready
<1>2. \A h \in Request : Handler(h)'
  BY <1>1 DEF IInv, Handler, Creating, Signing, Attaching, At
<1>3. OneHolder' /\ RowsInv'
  BY <1>1 DEF IInv, OneHolder, RowsInv, Creating, At
<1>4. sreq' = sreq => LinksInv'
  BY DEF IInv, LinksInv
<1> QED
  BY <1>2, <1>3, <1>4 DEF IInv, Typed

LEMMA TimeStep ==
  ASSUME IInv, LinkTime
  PROVE  IInv'
<1>1. PICK s \in SignId : LinkExpires(s) \/ LoadExpired(s)
  BY DEF LinkTime
<1> DEFINE row == IF LinkExpires(s) THEN [sreq[s] EXCEPT !.live = FALSE] ELSE [sreq[s] EXCEPT !.status = "EXPIRED"]
<1>2. sreq[s] \in SignRow(Nat, {NoPayload}, Nat, Nat)
  BY LinkRows
<1>3. /\ row \in SignRow(Nat, {NoPayload}, Nat, Nat) /\ row.subject = sreq[s].subject
      /\ row.payload = sreq[s].payload /\ sreq' = [sreq EXCEPT ![s] = row]
  BY <1>1, <1>2 DEF SignRow, LinkExpires, LoadExpired, IInv, Typed
<1> HIDE DEF row
<1>4. UNCHANGED <<preview, rows, mints, req>>
  BY DEF LinkTime
<1>5. \A i : Linked(i) => Linked(i)'
  BY <1>4 DEF Linked, Creating, At
<1>6. MintsGrow
  BY <1>4 DEF MintsGrow
<1>7. sreq' \in [SignId -> SignRow(Nat, {NoPayload}, Nat, Nat)] /\ LinksInv'
  BY <1>3, <1>5, <1>6, LinkWritten
<1> QED
  BY <1>4, <1>5, <1>7, StillInv

LEMMA KillStep ==
  ASSUME IInv, NEW h \in Request, Kill(h)
  PROVE  IInv'
BY Returns, SameMints DEF Kill

LEMMA InvInit == Init => IInv
<1> SUFFICES ASSUME Init
             PROVE  IInv
  OBVIOUS
<1>1. (CHOOSE p \in Preview : TRUE) \in Preview /\ (CHOOSE s \in SignId : TRUE) \in SignId
  BY IssuanceAssumption
<1>2. NoReq \in ReqRecord /\ NoReq.pc = "idle"
  BY <1>1 DEF NoReq, ReqRecord, PCs, NoMint
<1>3. NoRequest \in SignRow(Nat, {NoPayload}, Nat, Nat) /\ NoRequest.subject = 0 /\ NoRequest.payload = NoPayload
  BY IssuanceAssumption DEF NoRequest, SignRow
<1>4. \A h \in Request : req[h] = NoReq
  BY DEF Init
<1>5. Typed
  BY <1>2, <1>3 DEF Init, SignInit, Typed
<1>6. /\ rows = <<>> /\ \A s \in SignId : sreq[s] = NoRequest
  BY DEF Init, SignInit
<1> QED
  BY <1>2, <1>3, <1>4, <1>5, <1>6 DEF IInv, Handler, OneHolder, LinksInv, RowsInv, Creating, Signing, Attaching, At

LEMMA InvStep == IInv /\ [Next]_vars => IInv'
<1> SUFFICES ASSUME IInv, [Next]_vars
             PROVE  IInv'
  OBVIOUS
<1>1. CASE UNCHANGED vars
  <2>1. UNCHANGED <<sreq, preview, rows, mints, req>>
    BY <1>1 DEF vars
  <2>2. \A i : Linked(i) => Linked(i)'
    BY <2>1 DEF Linked, Creating, At
  <2> QED
    BY <2>1, <2>2, StillInv
<1>2. ASSUME NEW h \in Request, Custody(h)
      PROVE  IInv'
  BY <1>2, StartCreateStep, ClaimStep, InsertStep, LinkStep, NoChainStep, CreateMarketStep, AttachCustodyStep,
     DeleteStep, ReleaseStep DEF Custody
<1>3. ASSUME NEW h \in Request, WalletFlow(h)
      PROVE  IInv'
  BY <1>3, OpenStep, BuildStep, SubmitStep, SaveBuildStep, SendStep, RecordStep, FinalizeStep,
     MemoStep, AttachSignedStep, CompleteStep DEF WalletFlow
<1> QED
  BY <1>1, <1>2, <1>3, KillStep, TimeStep DEF Next, Rest

LEMMA Inductive == Spec => []IInv
BY InvInit, InvStep, PTL DEF Spec

(* However creates race, fail, roll back and are retried, at most one      *)
(* issuance of a preview has a market.                                     *)
THEOREM OneMarket == Spec => []OneMarketPerPreview
<1>1. IInv => OneMarketPerPreview
  <2> SUFFICES ASSUME IInv, NEW i \in DOMAIN rows, NEW j \in DOMAIN rows, HasMarket(i), HasMarket(j),
                      rows[i].preview = rows[j].preview
               PROVE  i = j
    BY DEF OneMarketPerPreview
  <2>1. Linked(i) /\ Linked(j)
    BY DEF IInv, RowsInv, HasMarket
  <2>2. preview[rows[i].preview].issuance = i /\ preview[rows[j].preview].issuance = j
    BY <2>1 DEF Linked
  <2> QED
    BY <2>2
<1> QED
  BY <1>1, Inductive, PTL

(* What is shown LIVE has a mint with its allowlist, and an acceptance     *)
(* that is shown belongs to a market that exists.                          *)
THEOREM Tradable == Spec => []LiveIsTradable
<1>1. IInv => LiveIsTradable
  BY DEF IInv, RowsInv, Ready, LiveIsTradable, publicIssuanceView, HasMarket, Exists
<1> QED
  BY <1>1, Inductive, PTL


-----------------------------------------------------------------------------
(* What becomes of a used preview, and of an issuance that is served.      *)

(* A row that is worked on is alive: only the holder of its preview        *)
(* deletes it.  A handler past the attach has put a market on it.          *)
LiveHandler(h) ==
    /\ req[h].pc \in {"link", "market", "open"} \/ Attaching(h) \/ Signing(h) => rows[req[h].iss].alive
    /\ Signing(h) => sreq[req[h].link].subject = req[h].iss
    /\ At(h, "complete") => rows[req[h].iss].market # NoMint

LiveLink(s) ==
    /\ sreq[s].subject # 0 => rows[sreq[s].subject].alive
    /\ sreq[s].status = "none" => sreq[s].subject = 0
    /\ sreq[s].status = "COMPLETED" => sreq[s].subject # 0 /\ rows[sreq[s].subject].market # NoMint

Home(p) == preview[p].issuance # 0 => preview[p].issuance \in DOMAIN rows /\ rows[preview[p].issuance].preview = p

Held(p) == \E h \in Request : Creating(h) /\ req[h].preview = p

Served(i) == i \in DOMAIN rows /\ rows[i].alive /\ (rows[i].market # NoMint \/ \E s \in SignId : sreq[s].subject = i)

(* What is left used for nothing. *)
Gone == lost \cup stranded

Used(p) == preview[p].used /\ p \notin Gone => Held(p) \/ Served(preview[p].issuance)

JInv ==
    /\ \A h \in Request : LiveHandler(h)
    /\ \A s \in SignId : LiveLink(s)
    /\ \A p \in Preview : Home(p) /\ Used(p)

(* No row is deleted, none loses its market, no link its issuance.         *)
RowsLive ==
    \A i \in DOMAIN rows :
        /\ i \in DOMAIN rows' /\ rows'[i].preview = rows[i].preview
        /\ rows[i].alive => rows'[i].alive
        /\ rows[i].market # NoMint => rows'[i].market # NoMint

SubjectsKept == \A s \in SignId : sreq[s].subject # 0 => sreq'[s].subject = sreq[s].subject

(* The handler keeps its preview, or loses it for good.                    *)
HoldKept(h, p) ==
    Creating(h) /\ req[h].preview = p => (Creating(h)' /\ req'[h].preview = p) \/ p \in Gone'

LEMMA NoIssuanceZero ==
  ASSUME IInv
  PROVE  0 \notin DOMAIN rows /\ \A s \in SignId : sreq[s].subject # 0 => sreq[s].subject \in DOMAIN rows
<1>1. DOMAIN rows = 1..Len(rows) /\ Len(rows) \in Nat
  BY RowTypes DEF IInv
<1>2. 0 \notin DOMAIN rows
  BY <1>1
<1>3. \A s \in SignId : sreq[s].subject # 0 => sreq[s].subject \in DOMAIN rows
  BY DEF IInv, LinksInv, Linked
<1> QED
  BY <1>2, <1>3

LEMMA OthersLive ==
  ASSUME IInv, JInv, NEW h \in Request, RowsLive, SubjectsKept,
         \A g \in Request \ {h} : req'[g] = req[g], LiveHandler(h)'
  PROVE  \A g \in Request : LiveHandler(g)'
<1> SUFFICES ASSUME NEW g \in Request, g # h
             PROVE  LiveHandler(g)'
  OBVIOUS
<1>1. req'[g] = req[g] /\ Handler(g) /\ LiveHandler(g) /\ req[g].link \in SignId
  BY ReqTyped DEF JInv, ReqRecord
<1>2. (Signing(g)' <=> Signing(g)) /\ (Attaching(g)' <=> Attaching(g)) /\ (At(g, "complete")' <=> At(g, "complete"))
  BY <1>1 DEF Signing, Attaching, At
<1>3. req[g].pc \in {"link", "market", "open"} \/ Attaching(g) \/ Signing(g) =>
          req[g].iss \in DOMAIN rows /\ req[g].iss # 0
  BY <1>1, NoIssuanceZero DEF Handler, Linked
<1>4. At(g, "complete") => Signing(g)
  BY DEF Signing, At
<1> QED
  BY <1>1, <1>2, <1>3, <1>4 DEF LiveHandler, RowsLive, SubjectsKept

LEMMA LinksLive ==
  ASSUME IInv, JInv, RowsLive, sreq' = sreq
  PROVE  SubjectsKept /\ \A s \in SignId : LiveLink(s)'
BY NoIssuanceZero DEF JInv, LiveLink, RowsLive, SubjectsKept

LEMMA LinkRewritten ==
  ASSUME IInv, JInv, RowsLive, NEW s \in SignId, NEW row, sreq' = [sreq EXCEPT ![s] = row],
         row.subject = sreq[s].subject, row.status = sreq[s].status \/ row.status \in {"EXPIRED", "COMPLETED"},
         row.status = "COMPLETED" => \/ sreq[s].status = "COMPLETED"
                                     \/ sreq[s].subject # 0 /\ rows[sreq[s].subject].market # NoMint
  PROVE  SubjectsKept /\ \A t \in SignId : LiveLink(t)'
<1>1. sreq'[s] = row /\ \A t \in SignId : t # s => sreq'[t] = sreq[t]
  BY DEF IInv, Typed
<1>2. SubjectsKept
  BY <1>1 DEF SubjectsKept
<1> QED
  BY <1>1, <1>2, NoIssuanceZero DEF JInv, LiveLink, RowsLive

LEMMA PreviewLive ==
  ASSUME IInv, JInv, NEW h \in Request, RowsLive, SubjectsKept, NEW p \in Preview,
         preview'[p] = preview[p], Gone \subseteq Gone',
         \A g \in Request \ {h} : req'[g] = req[g], HoldKept(h, p)
  PROVE  Home(p)' /\ Used(p)'
<1>1. Home(p)'
  BY DEF JInv, Home, RowsLive
<1>2. \A i : Served(i) => Served(i)'
  BY NoIssuanceZero DEF Served, RowsLive, SubjectsKept
<1>3. Held(p) /\ p \notin Gone' => Held(p)'
  BY DEF Held, HoldKept, Creating, At
<1>4. Used(p)
  BY DEF JInv
<1> QED
  BY <1>1, <1>2, <1>3, <1>4 DEF Used

LEMMA Quiet ==
  ASSUME IInv, JInv, NEW h \in Request, RowsLive, SubjectsKept, preview' = preview, Gone \subseteq Gone',
         \A g \in Request \ {h} : req'[g] = req[g], \A p \in Preview : HoldKept(h, p),
         LiveHandler(h)', \A s \in SignId : LiveLink(s)'
  PROVE  JInv'
BY OthersLive, PreviewLive DEF JInv

LEMMA SameRowsLive == rows' = rows => RowsLive
BY DEF RowsLive

(* What a handler that moves is left with.                                 *)
LEMMA Moved ==
  ASSUME IInv, NEW h \in Request
  PROVE  /\ Return(h) => /\ req'[h] = NoReq /\ \A g \in Request \ {h} : req'[g] = req[g]
                         /\ LiveHandler(h)' /\ ~Creating(h)'
         /\ \A label \in PCs : Goto(h, label) =>
                /\ req'[h].pc = label /\ req'[h].preview = req[h].preview /\ req'[h].iss = req[h].iss
                /\ req'[h].mode = req[h].mode /\ req'[h].link = req[h].link
                /\ \A g \in Request \ {h} : req'[g] = req[g]
<1>1. ASSUME Return(h)
      PROVE  /\ req'[h] = NoReq /\ \A g \in Request \ {h} : req'[g] = req[g]
             /\ LiveHandler(h)' /\ ~Creating(h)'
  <2>1. req'[h] = NoReq /\ \A g \in Request \ {h} : req'[g] = req[g]
    BY <1>1 DEF Return, IInv, Typed
  <2> QED
    BY <2>1 DEF NoReq, LiveHandler, Creating, Signing, Attaching, At
<1>2. ASSUME NEW label \in PCs, Goto(h, label)
      PROVE  /\ req'[h].pc = label /\ req'[h].preview = req[h].preview /\ req'[h].iss = req[h].iss
             /\ req'[h].mode = req[h].mode /\ req'[h].link = req[h].link
             /\ \A g \in Request \ {h} : req'[g] = req[g]
  BY <1>2, Goes DEF Goto, IInv, Typed
<1> QED
  BY <1>1, <1>2

(* A handler that holds no preview, or loses it, answers.                  *)
LEMMA ReturnsLive ==
  ASSUME IInv, JInv, NEW h \in Request, Return(h), RowsLive, SubjectsKept, preview' = preview, Gone \subseteq Gone',
         ~Creating(h) \/ req[h].preview \in Gone', \A s \in SignId : LiveLink(s)'
  PROVE  JInv'
<1>1. \A p \in Preview : HoldKept(h, p)
  BY DEF HoldKept
<1> QED
  BY <1>1, Moved, Quiet

LEMMA FailsLive ==
  ASSUME IInv, JInv, NEW h \in Request, Fails(h, "idle"), ~Creating(h)
  PROVE  JInv'
BY ReturnsLive, LinksLive, SameRowsLive DEF Fails, Gone

(* The holder goes to undo what it did.                                    *)
LEMMA UndoesLive ==
  ASSUME IInv, JInv, NEW h \in Request, NEW label \in {"delete", "release"}, Goto(h, label), Creating(h),
         UNCHANGED <<sreq, preview, rows, Gone>>
  PROVE  JInv'
<1>1. /\ req'[h].pc = label /\ req'[h].preview = req[h].preview
      /\ \A g \in Request \ {h} : req'[g] = req[g]
  BY Moved DEF PCs
<1>2. LiveHandler(h)' /\ Creating(h)'
  BY <1>1 DEF LiveHandler, Creating, Signing, Attaching, At
<1>3. \A p \in Preview : HoldKept(h, p)
  BY <1>1, <1>2 DEF HoldKept
<1> QED
  BY <1>1, <1>2, <1>3, Quiet, LinksLive, SameRowsLive

-----------------------------------------------------------------------------
LEMMA StartCreateLive ==
  ASSUME IInv, JInv, NEW h \in Request, NEW p \in Preview, NEW mode \in {"custody", "wallet"}, StartCreate(h, p, mode)
  PROVE  JInv'
<1>1. /\ req' = [req EXCEPT ![h].pc = "claim", ![h].preview = p, ![h].mode = mode]
      /\ UNCHANGED <<sreq, preview, rows, Gone>> /\ At(h, "idle")
  BY DEF StartCreate, Gone
<1>2. req'[h].pc = "claim" /\ \A g \in Request \ {h} : req'[g] = req[g]
  BY <1>1, ReqTyped DEF IInv, Typed, ReqRecord
<1>3. LiveHandler(h)' /\ ~Creating(h)
  BY <1>1, <1>2 DEF LiveHandler, Creating, Signing, Attaching, At
<1>4. \A q \in Preview : HoldKept(h, q)
  BY <1>3 DEF HoldKept
<1> QED
  BY <1>1, <1>2, <1>3, <1>4, Quiet, LinksLive, SameRowsLive

LEMMA ClaimLive ==
  ASSUME IInv, JInv, NEW h \in Request, ClaimPreview(h)
  PROVE  JInv'
<1>0. PICK p \in Preview : p = req[h].preview
  BY ReqTyped DEF ReqRecord
<1>1. UNCHANGED <<sreq, rows, Gone>> /\ ~Creating(h) /\ RowsLive
  BY SameRowsLive DEF ClaimPreview, Creating, At, Gone
<1>2. CASE preview[p].used
  BY <1>0, <1>1, <1>2, ReturnsLive, LinksLive DEF ClaimPreview
<1>3. CASE ~preview[p].used
  <2>1. preview' = [preview EXCEPT ![p].used = TRUE] /\ Goto(h, "insert") /\ "insert" \in PCs
    BY <1>0, <1>3 DEF ClaimPreview, PCs
  <2>2. req'[h].pc = "insert" /\ req'[h].preview = p /\ \A g \in Request \ {h} : req'[g] = req[g]
    BY <1>0, <2>1, Moved
  <2>3. preview'[p].issuance = preview[p].issuance /\ \A q \in Preview : q # p => preview'[q] = preview[q]
    BY <2>1 DEF IInv, Typed
  <2>4. LiveHandler(h)' /\ Creating(h)'
    BY <2>2 DEF LiveHandler, Creating, Signing, Attaching, At
  <2>5. Home(p)' /\ Used(p)'
    BY <1>1, <2>2, <2>3, <2>4 DEF JInv, Home, Used, Held
  <2>6. ASSUME NEW q \in Preview, q # p
        PROVE  Home(q)' /\ Used(q)'
    <3>1. HoldKept(h, q)
      BY <1>1 DEF HoldKept
    <3> QED
      BY <1>1, <2>2, <2>3, <2>6, <3>1, LinksLive, PreviewLive
  <2>7. \A g \in Request : LiveHandler(g)'
    BY <1>1, <2>2, <2>4, LinksLive, OthersLive
  <2> QED
    BY <1>1, <2>5, <2>6, <2>7, LinksLive DEF JInv
<1> QED
  BY <1>2, <1>3

LEMMA RowAdded ==
  ASSUME IInv, NEW row \in IssuanceRow, rows' = Append(rows, row)
  PROVE  RowsLive /\ rows'[Len(rows) + 1] = row
<1>1. rows \in Seq(IssuanceRow) /\ DOMAIN rows = 1..Len(rows) /\ Len(rows) \in Nat
  BY RowTypes DEF IInv, Typed
<1>2. /\ rows' \in Seq(IssuanceRow) /\ Len(rows') = Len(rows) + 1 /\ rows'[Len(rows) + 1] = row
      /\ \A i \in 1..Len(rows) : rows'[i] = rows[i]
  BY <1>1, AppendProperties
<1>3. DOMAIN rows' = 1..(Len(rows) + 1)
  BY <1>2, LenProperties
<1> QED
  BY <1>1, <1>2, <1>3 DEF RowsLive

LEMMA InsertLive ==
  ASSUME IInv, JInv, NEW h \in Request, InsertPending(h)
  PROVE  JInv'
<1>1. At(h, "insert") /\ Creating(h) /\ UNCHANGED <<sreq, preview, Gone>>
  BY DEF InsertPending, Fails, Creating, At, Gone
<1>2. CASE Fails(h, "release")
  BY <1>1, <1>2, UndoesLive DEF Fails
<1>3. CASE ~Fails(h, "release")
  <2> DEFINE row == [preview |-> req[h].preview, alive |-> TRUE, market |-> NoMint, accepted |-> NoMint]
             n == Len(rows) + 1
  <2>1. rows' = Append(rows, row) /\ req' = [req EXCEPT ![h].pc = "link", ![h].iss = n]
    BY <1>3 DEF InsertPending
  <2>2. row.alive
    OBVIOUS
  <2>3. row \in IssuanceRow
    BY ReqTyped DEF IssuanceRow, ReqRecord, NoMint
  <2> HIDE DEF row
  <2>7. RowsLive /\ rows'[n] = row
    BY <2>1, <2>3, RowAdded
  <2> HIDE DEF n
  <2>8. /\ req'[h].pc = "link" /\ req'[h].iss = n /\ req'[h].preview = req[h].preview
        /\ \A g \in Request \ {h} : req'[g] = req[g]
    BY <2>1, ReqTyped DEF IInv, Typed, ReqRecord
  <2>9. LiveHandler(h)' /\ Creating(h)'
    BY <2>2, <2>7, <2>8 DEF LiveHandler, Creating, Signing, Attaching, At
  <2>10. \A p \in Preview : HoldKept(h, p)
    BY <2>8, <2>9 DEF HoldKept
  <2> QED
    BY <1>1, <2>7, <2>8, <2>9, <2>10, Quiet, LinksLive
<1> QED
  BY <1>2, <1>3

LEMMA LinkPreviewLive ==
  ASSUME IInv, JInv, NEW h \in Request, LinkPreview(h)
  PROVE  JInv'
<1>1. At(h, "link") /\ Creating(h) /\ UNCHANGED <<sreq, rows, Gone>> /\ RowsLive
  BY SameRowsLive DEF LinkPreview, Fails, Creating, At, Gone
<1>2. CASE Fails(h, "release")
  BY <1>1, <1>2, UndoesLive DEF Fails
<1>3. CASE ~Fails(h, "release")
  <2>0. PICK p \in Preview, i \in Nat : p = req[h].preview /\ i = req[h].iss
    BY ReqTyped DEF ReqRecord
  <2>1. PICK label \in {"open", "market"} : preview' = [preview EXCEPT ![p].issuance = i] /\ Goto(h, label)
    BY <1>3, <2>0 DEF LinkPreview
  <2>2. i \in DOMAIN rows /\ rows[i].preview = p /\ rows[i].alive
    BY <1>1, <2>0, ReqTyped DEF Handler, JInv, LiveHandler, At
  <2>3. /\ req'[h].pc = label /\ req'[h].preview = p /\ req'[h].iss = i
        /\ \A g \in Request \ {h} : req'[g] = req[g]
    BY <2>0, <2>1, Moved DEF PCs
  <2>4. preview'[p].issuance = i /\ \A q \in Preview : q # p => preview'[q] = preview[q]
    BY <2>1 DEF IInv, Typed
  <2>5. LiveHandler(h)' /\ Creating(h)'
    BY <1>1, <2>2, <2>3 DEF LiveHandler, Creating, Signing, Attaching, At
  <2>6. Home(p)' /\ Used(p)'
    BY <1>1, <2>2, <2>3, <2>4, <2>5 DEF Home, Used, Held
  <2>7. ASSUME NEW q \in Preview, q # p
        PROVE  Home(q)' /\ Used(q)'
    <3>1. HoldKept(h, q)
      BY <2>0, <2>7 DEF HoldKept
    <3> QED
      BY <1>1, <2>3, <2>4, <2>7, <3>1, LinksLive, PreviewLive
  <2>8. \A g \in Request : LiveHandler(g)'
    BY <1>1, <2>3, <2>5, LinksLive, OthersLive
  <2> QED
    BY <1>1, <2>6, <2>7, <2>8, LinksLive DEF JInv
<1> QED
  BY <1>2, <1>3

LEMMA CreateMarketLive ==
  ASSUME IInv, JInv, NEW h \in Request, CreateMarket(h)
  PROVE  JInv'
<1>1. At(h, "market") /\ Creating(h) /\ UNCHANGED <<sreq, preview, rows, Gone>> /\ req[h].mode = "custody"
  BY ReqTyped DEF CreateMarket, Creating, At, Handler, Gone
<1>2. CASE Goto(h, "delete")
  BY <1>1, <1>2, UndoesLive
<1>3. CASE ~Goto(h, "delete")
  <2>1. req' = [req EXCEPT ![h].pc = "attach", ![h].mint = Len(mints) + 1, ![h].memo = TRUE]
    BY <1>3 DEF CreateMarket
  <2>2. /\ req'[h].pc = "attach" /\ req'[h].mode = "custody" /\ req'[h].iss = req[h].iss
        /\ req'[h].preview = req[h].preview /\ \A g \in Request \ {h} : req'[g] = req[g]
    BY <1>1, <2>1, ReqTyped DEF IInv, Typed, ReqRecord
  <2>3. rows[req[h].iss].alive
    BY <1>1 DEF JInv, LiveHandler, At
  <2>4. LiveHandler(h)' /\ Creating(h)'
    BY <1>1, <2>2, <2>3 DEF LiveHandler, Creating, Signing, Attaching, At
  <2>5. \A p \in Preview : HoldKept(h, p)
    BY <2>2, <2>4 DEF HoldKept
  <2> QED
    BY <1>1, <2>2, <2>4, <2>5, Quiet, LinksLive, SameRowsLive
<1> QED
  BY <1>2, <1>3

LEMMA NoChainLive ==
  ASSUME IInv, JInv, NEW h \in Request, NoChain(h)
  PROVE  JInv'
BY LinksLive, SameRowsLive, ReturnsLive DEF NoChain, Gone

(* Attaching keeps the rows, and puts a market on the one it works on.     *)
LEMMA AttachRows ==
  ASSUME IInv, NEW h \in Request, Attach(h), NEW i \in DOMAIN rows, i = req[h].iss,
         NEW m, m = req[h].mint, Ready(m)
  PROVE  RowsLive /\ i \in DOMAIN rows' /\ rows'[i].market # NoMint /\ rows'[i].alive = rows[i].alive
<1>1. rows \in Seq(IssuanceRow) /\ rows[i] \in IssuanceRow /\ m # NoMint
  BY RowTypes DEF IInv, Typed, Ready, NoMint
<1>2. rows' = [rows EXCEPT ![i].market = m, ![i].accepted = IF req[h].memo THEN m ELSE @]
  BY DEF Attach
<1> QED
  BY <1>1, <1>2 DEF RowsLive, IssuanceRow

LEMMA AttachCustodyLive ==
  ASSUME IInv, JInv, NEW h \in Request, AttachCustody(h)
  PROVE  JInv'
<1>1. Attaching(h) /\ Creating(h) /\ UNCHANGED <<sreq, preview, Gone>> /\ Handler(h) /\ LiveHandler(h)
  BY ReqTyped DEF AttachCustody, Fails, Creating, Attaching, At, JInv, Gone
<1>2. CASE Fails(h, "delete")
  BY <1>1, <1>2, UndoesLive DEF Fails
<1>3. CASE ~Fails(h, "delete")
  <2>0. PICK p \in Preview, i \in Nat, m \in Nat : p = req[h].preview /\ i = req[h].iss /\ m = req[h].mint
    BY ReqTyped DEF ReqRecord
  <2>1. Attach(h) /\ Return(h)
    BY <1>3 DEF AttachCustody
  <2>2. i \in DOMAIN rows /\ preview[p].issuance = i /\ rows[i].alive /\ Ready(m)
    BY <1>1, <2>0 DEF Handler, LiveHandler, Attaching, At
  <2>3. RowsLive /\ i \in DOMAIN rows' /\ rows'[i].market # NoMint /\ rows'[i].alive
    BY <2>0, <2>1, <2>2, AttachRows
  <2>4. req'[h] = NoReq /\ LiveHandler(h)' /\ \A g \in Request \ {h} : req'[g] = req[g]
    BY <2>1, Moved
  <2>5. SubjectsKept /\ \A s \in SignId : LiveLink(s)'
    BY <1>1, <2>3, LinksLive
  <2>6. Home(p)' /\ Used(p)'
    <3>1. Home(p)'
      BY <1>1, <2>3 DEF JInv, Home, RowsLive
    <3> QED
      BY <1>1, <2>2, <2>3, <3>1 DEF Used, Served
  <2>7. ASSUME NEW q \in Preview, q # p
        PROVE  Home(q)' /\ Used(q)'
    <3>1. HoldKept(h, q)
      BY <2>0, <2>7 DEF HoldKept
    <3> QED
      BY <1>1, <2>3, <2>4, <2>5, <2>7, <3>1, PreviewLive
  <2> QED
    BY <2>3, <2>4, <2>5, <2>6, <2>7, OthersLive DEF JInv
<1> QED
  BY <1>2, <1>3

LEMMA RowDeleted ==
  ASSUME IInv, NEW i \in DOMAIN rows, rows' = [rows EXCEPT ![i].alive = FALSE]
  PROVE  /\ DOMAIN rows' = DOMAIN rows /\ \A k \in DOMAIN rows : k # i => rows'[k] = rows[k]
         /\ rows'[i].preview = rows[i].preview
<1>1. rows \in Seq(IssuanceRow) /\ rows[i] \in IssuanceRow
  BY RowTypes DEF IInv, Typed
<1> QED
  BY <1>1 DEF IssuanceRow

(* Only the holder of the preview works on a row that it deletes.          *)
LEMMA DeleteLive ==
  ASSUME IInv, JInv, NEW h \in Request, DeletePending(h)
  PROVE  JInv'
<1>0. PICK p \in Preview, i \in Nat : p = req[h].preview /\ i = req[h].iss
  BY ReqTyped DEF ReqRecord
<1>1. /\ At(h, "delete") /\ Creating(h) /\ UNCHANGED <<sreq, preview, Gone>>
      /\ i \in DOMAIN rows /\ rows[i].preview = p
  BY <1>0, ReqTyped DEF DeletePending, Fails, Creating, At, Handler, Gone
<1>2. CASE Fails(h, "release")
  BY <1>1, <1>2, UndoesLive DEF Fails
<1>3. CASE ~Fails(h, "release")
  <2>1. rows' = [rows EXCEPT ![i].alive = FALSE] /\ Goto(h, "release") /\ "release" \in PCs
    BY <1>0, <1>3 DEF DeletePending, PCs
  <2>2. /\ req'[h].pc = "release" /\ req'[h].preview = p
        /\ \A g \in Request \ {h} : req'[g] = req[g]
    BY <1>0, <2>1, Moved
  <2>3. /\ DOMAIN rows' = DOMAIN rows /\ \A k \in DOMAIN rows : k # i => rows'[k] = rows[k]
        /\ rows'[i].preview = rows[i].preview
    BY <1>1, <2>1, RowDeleted
  <2>4. ~Linked(i)
    BY <1>0, <1>1 DEF Linked
  <2>5. ASSUME NEW g \in Request
        PROVE  LiveHandler(g)'
    <3>1. CASE g = h
      BY <2>2, <3>1 DEF LiveHandler, Creating, Signing, Attaching, At
    <3>2. CASE g # h
      <4>1. req'[g] = req[g] /\ Handler(g) /\ LiveHandler(g)
        BY <2>2, <3>2 DEF IInv, JInv
      <4>2. Signing(g) => req[g].iss \in DOMAIN rows /\ req[g].iss # i
        BY <2>4, <4>1 DEF Handler, Linked
      <4>3. req[g].pc \in {"link", "market", "open"} \/ Attaching(g) => req[g].iss \in DOMAIN rows /\ req[g].iss # i
        <5> SUFFICES ASSUME req[g].pc \in {"link", "market", "open"} \/ Attaching(g)
                     PROVE  req[g].iss \in DOMAIN rows /\ req[g].iss # i
          OBVIOUS
        <5>1. Creating(g) /\ req[g].iss \in DOMAIN rows /\ rows[req[g].iss].preview = req[g].preview
          BY <4>1 DEF Handler, Creating, Attaching
        <5>2. req[g].preview # p
          BY <1>0, <1>1, <3>2, <5>1 DEF IInv, OneHolder
        <5> QED
          BY <1>1, <5>1, <5>2
      <4>4. At(g, "complete") => Signing(g)
        BY DEF Signing, At
      <4>5. (Signing(g)' <=> Signing(g)) /\ (Attaching(g)' <=> Attaching(g)) /\ (At(g, "complete")' <=> At(g, "complete"))
        BY <4>1 DEF Signing, Attaching, At
      <4> QED
        BY <1>1, <2>3, <4>1, <4>2, <4>3, <4>4, <4>5 DEF LiveHandler
    <3> QED
      BY <3>1, <3>2
  <2>6. ASSUME NEW s \in SignId
        PROVE  LiveLink(s)'
    <3>1. sreq[s].subject # 0 => Linked(sreq[s].subject) /\ sreq[s].subject \in DOMAIN rows
      BY NoIssuanceZero DEF IInv, LinksInv
    <3> QED
      BY <1>1, <2>3, <2>4, <3>1 DEF JInv, LiveLink
  <2>7. ASSUME NEW q \in Preview
        PROVE  Home(q)' /\ Used(q)'
    <3>1. Home(q)'
      BY <1>1, <2>3 DEF JInv, Home
    <3>2. CASE q = p
      BY <2>2, <3>1, <3>2 DEF Used, Held, Creating, At
    <3>3. CASE q # p
      <4>1. Held(q) => Held(q)'
        BY <1>0, <2>2, <3>3 DEF Held, Creating, At
      <4>2. preview[q].issuance \in DOMAIN rows => preview[q].issuance # i
        BY <1>1, <3>3, NoIssuanceZero DEF JInv, Home
      <4>3. Served(preview[q].issuance) => Served(preview[q].issuance)'
        BY <1>1, <2>3, <4>2 DEF Served
      <4> QED
        BY <1>1, <3>1, <4>1, <4>3 DEF JInv, Used
    <3> QED
      BY <3>2, <3>3
  <2> QED
    BY <2>5, <2>6, <2>7 DEF JInv
<1> QED
  BY <1>2, <1>3

LEMMA ReleaseLive ==
  ASSUME IInv, JInv, NEW h \in Request, ReleasePreview(h)
  PROVE  JInv'
<1>0. PICK p \in Preview : p = req[h].preview
  BY ReqTyped DEF ReqRecord
<1>1. UNCHANGED <<sreq, rows>> /\ Return(h) /\ RowsLive
  BY SameRowsLive DEF ReleasePreview
<1>2. CASE preview' = preview /\ Gone' = Gone \cup {p}
  BY <1>0, <1>1, <1>2, LinksLive, ReturnsLive
<1>3. CASE preview' = [preview EXCEPT ![p] = [used |-> FALSE, issuance |-> 0]] /\ Gone' = Gone
  <2>1. req'[h] = NoReq /\ LiveHandler(h)' /\ \A g \in Request \ {h} : req'[g] = req[g]
    BY <1>1, Moved
  <2>2. /\ ~preview'[p].used /\ preview'[p].issuance = 0
        /\ \A q \in Preview : q # p => preview'[q] = preview[q]
    BY <1>3 DEF IInv, Typed
  <2>3. ASSUME NEW q \in Preview, q # p
        PROVE  Home(q)' /\ Used(q)'
    <3>1. HoldKept(h, q)
      BY <1>0, <2>3 DEF HoldKept
    <3> QED
      BY <1>1, <1>3, <2>1, <2>2, <2>3, <3>1, LinksLive, PreviewLive
  <2>4. Home(p)' /\ Used(p)'
    BY <2>2 DEF Home, Used
  <2> QED
    BY <1>1, <2>1, <2>3, <2>4, LinksLive, OthersLive DEF JInv
<1> QED
  BY <1>0, <1>2, <1>3 DEF ReleasePreview, Gone

(* The issuance of the handler that opens its link is its preview's.       *)
LEMMA OpenLive ==
  ASSUME IInv, JInv, NEW h \in Request, OpenLink(h)
  PROVE  JInv'
<1>0. PICK p \in Preview, i \in Nat : p = req[h].preview /\ i = req[h].iss
  BY ReqTyped DEF ReqRecord
<1>1. /\ At(h, "open") /\ Return(h) /\ UNCHANGED <<preview, rows, mints>> /\ RowsLive
      /\ \/ CreateRequest(i, NoPayload) /\ Gone' = Gone
         \/ Gone' = Gone \cup {p} /\ sreq' = sreq
  BY <1>0, SameRowsLive DEF OpenLink, Gone
<1>2. i \in DOMAIN rows /\ i # 0 /\ preview[p].issuance = i /\ rows[i].alive
  BY <1>0, <1>1, ReqTyped, NoIssuanceZero DEF Handler, JInv, LiveHandler, At
<1>3. CASE Gone' = Gone \cup {p} /\ sreq' = sreq
  BY <1>0, <1>1, <1>3, LinksLive, ReturnsLive
<1>4. CASE CreateRequest(i, NoPayload) /\ Gone' = Gone
  <2> DEFINE new == [NoRequest EXCEPT !.status = "PENDING", !.live = TRUE, !.subject = i, !.meta = NoPayload]
  <2>1. new.subject = i /\ new.status = "PENDING"
    BY DEF NoRequest
  <2>2. PICK s \in SignId : sreq[s].status = "none" /\ sreq' = [sreq EXCEPT ![s] = new]
    BY <1>4 DEF CreateRequest
  <2> HIDE DEF new
  <2>3. sreq'[s] = new /\ \A t \in SignId : t # s => sreq'[t] = sreq[t]
    BY <2>2 DEF IInv, Typed
  <2>4. sreq[s].subject = 0
    BY <2>2 DEF JInv, LiveLink
  <2>5. SubjectsKept
    BY <2>3, <2>4 DEF SubjectsKept
  <2>6. \A t \in SignId : LiveLink(t)'
    BY <1>1, <1>2, <2>1, <2>3 DEF JInv, LiveLink
  <2>7. req'[h] = NoReq /\ LiveHandler(h)' /\ \A g \in Request \ {h} : req'[g] = req[g]
    BY <1>1, Moved
  <2>8. Home(p)' /\ Used(p)'
    <3>1. Home(p)'
      BY <1>1 DEF JInv, Home
    <3> QED
      BY <1>1, <1>2, <2>1, <2>3, <3>1 DEF Used, Served
  <2>9. ASSUME NEW q \in Preview, q # p
        PROVE  Home(q)' /\ Used(q)'
    <3>1. HoldKept(h, q)
      BY <1>0, <2>9 DEF HoldKept
    <3> QED
      BY <1>1, <1>4, <2>5, <2>7, <2>9, <3>1, PreviewLive
  <2> QED
    BY <1>1, <2>5, <2>6, <2>7, <2>8, <2>9, OthersLive DEF JInv
<1> QED
  BY <1>1, <1>3, <1>4

(* A handler of the wallet flow, which holds no preview, goes on.          *)
LEMMA WalletLive ==
  ASSUME IInv, JInv, NEW h \in Request, RowsLive, UNCHANGED <<preview, Gone>>, ~Creating(h),
         \A g \in Request \ {h} : req'[g] = req[g], LiveHandler(h)',
         SubjectsKept, \A s \in SignId : LiveLink(s)'
  PROVE  JInv'
<1>1. \A p \in Preview : HoldKept(h, p)
  BY DEF HoldKept
<1> QED
  BY <1>1, Quiet

LEMMA SigningGoes ==
  ASSUME IInv, JInv, NEW h \in Request, RowsLive, SubjectsKept, Signing(h),
         req'[h].iss = req[h].iss, req'[h].link = req[h].link,
         req'[h].pc \in {"recRead", "recWrite", "finalize", "memo", "complete"}
             \/ (req'[h].pc = "attach" /\ req'[h].mode = "wallet"),
         req'[h].pc = "complete" => rows'[req[h].iss].market # NoMint
  PROVE  LiveHandler(h)' /\ ~Creating(h)
<1>1. LiveHandler(h) /\ req[h].iss \in DOMAIN rows /\ req[h].iss # 0 /\ req[h].link \in SignId
  BY ReqTyped, NoIssuanceZero DEF JInv, Handler, Linked, ReqRecord
<1>2. rows'[req[h].iss].alive /\ sreq'[req[h].link].subject = req[h].iss
  BY <1>1 DEF LiveHandler, RowsLive, SubjectsKept
<1> QED
  BY <1>1, <1>2 DEF LiveHandler, Creating, Signing, Attaching, At

LEMMA StartSignLive ==
  ASSUME IInv, JInv, NEW h \in Request, NEW s \in SignId, NEW w \in Founder,
         StartBuild(h, s, w) \/ StartSubmit(h, s, w)
  PROVE  JInv'
<1>1. At(h, "idle") /\ ~Creating(h) /\ UNCHANGED <<sreq, preview, rows, Gone>> /\ RowsLive
  BY SameRowsLive DEF StartBuild, StartSubmit, Creating, At, Gone
<1>2. CASE StartBuild(h, s, w)
  <2>1. req'[h].pc = "buildSave" /\ \A g \in Request \ {h} : req'[g] = req[g]
    BY <1>2, ReqTyped DEF StartBuild, IInv, Typed, ReqRecord
  <2>2. LiveHandler(h)'
    BY <2>1 DEF LiveHandler, Signing, Attaching, At
  <2> QED
    BY <1>1, <2>1, <2>2, LinksLive, WalletLive
<1>3. CASE StartSubmit(h, s, w)
  <2>1. /\ req'[h].pc = "send" /\ req'[h].iss = sreq[s].subject /\ req'[h].link = s
        /\ \A g \in Request \ {h} : req'[g] = req[g]
    BY <1>3, ReqTyped DEF StartSubmit, IInv, Typed, ReqRecord
  <2>2. rows[sreq[s].subject].alive
    BY <1>3 DEF StartSubmit, Exists
  <2>3. LiveHandler(h)'
    BY <1>1, <2>1, <2>2 DEF LiveHandler, Signing, Attaching, At
  <2> QED
    BY <1>1, <2>1, <2>3, LinksLive, WalletLive
<1> QED
  BY <1>2, <1>3

LEMMA SaveBuildLive ==
  ASSUME IInv, JInv, NEW h \in Request, SaveBuild(h)
  PROVE  JInv'
<1>1. ~Creating(h)
  BY DEF SaveBuild, Creating, At
<1>2. CASE Fails(h, "idle")
  BY <1>1, <1>2, FailsLive
<1>3. CASE ~Fails(h, "idle")
  <2>0. PICK s \in SignId, w \in Founder \cup {NoFounder}, m \in Nat :
           s = req[h].link /\ w = req[h].wallet /\ m = req[h].mint
    BY ReqTyped DEF ReqRecord
  <2>1. sreq' = [sreq EXCEPT ![s].signer = w, ![s].payload = m]
    BY <1>3, <2>0 DEF SaveBuild, SavePayload
  <2>2. Return(h) /\ UNCHANGED <<preview, rows, Gone>> /\ RowsLive
    BY <1>3, SameRowsLive DEF SaveBuild, Gone
  <2> DEFINE row == [sreq[s] EXCEPT !.signer = w, !.payload = m]
  <2>3. row.subject = sreq[s].subject /\ row.status = sreq[s].status /\ sreq' = [sreq EXCEPT ![s] = row]
    BY <2>1, LinkRows DEF SignRow, IInv, Typed
  <2> HIDE DEF row
  <2> QED
    BY <1>1, <2>2, <2>3, LinkRewritten, ReturnsLive
<1> QED
  BY <1>2, <1>3

(* The steps between the wallet's broadcast and the attach.                *)
LEMMA SubmitLive ==
  ASSUME IInv, JInv, NEW h \in Request,
         SendCreate(h) \/ ReadSignatures(h) \/ Finalize(h) \/ SendMemo(h)
  PROVE  JInv'
<1>1. /\ Signing(h) /\ ~Creating(h) /\ UNCHANGED <<preview, rows, sreq, Gone>> /\ RowsLive
      /\ At(h, "memo") => req[h].mode = "wallet"
  BY ReqTyped, SameRowsLive DEF SendCreate, ReadSignatures, Finalize, SendMemo, Fails, Signing, Creating, At, Handler, Gone
<1>2. SubjectsKept /\ \A s \in SignId : LiveLink(s)'
  BY <1>1, LinksLive
<1>3. CASE Return(h)
  BY <1>1, <1>2, <1>3, ReturnsLive
<1>4. CASE ~Return(h)
  <2>1. /\ req'[h].iss = req[h].iss /\ req'[h].link = req[h].link
        /\ req'[h].pc \in {"recRead", "recWrite", "memo"} \/ (req'[h].pc = "attach" /\ req'[h].mode = "wallet")
        /\ \A g \in Request \ {h} : req'[g] = req[g]
    <3>1. CASE Goto(h, "recRead") \/ Goto(h, "memo")
      BY <3>1, Moved DEF PCs
    <3>2. CASE ReadSignatures(h) /\ ~Fails(h, "idle")
      BY <3>2, ReqTyped DEF ReadSignatures, IInv, Typed, ReqRecord
    <3>3. CASE SendMemo(h)
      <4>1. PICK ok \in BOOLEAN : req' = [req EXCEPT ![h].pc = "attach", ![h].memo = ok]
        BY <3>3 DEF SendMemo
      <4>2. req[h].mode = "wallet"
        BY <1>1, <3>3 DEF SendMemo
      <4> QED
        BY <4>1, <4>2, ReqTyped DEF IInv, Typed, ReqRecord
    <3> QED
      BY <1>4, <3>1, <3>2, <3>3 DEF SendCreate, ReadSignatures, Finalize, Fails
  <2>2. LiveHandler(h)'
    BY <1>1, <1>2, <2>1, SigningGoes
  <2> QED
    BY <1>1, <1>2, <2>1, <2>2, WalletLive
<1> QED
  BY <1>3, <1>4

LEMMA RecordLive ==
  ASSUME IInv, JInv, NEW h \in Request, RecordSignature(h)
  PROVE  JInv'
<1>1. Signing(h) /\ ~Creating(h)
  BY DEF RecordSignature, Signing, Creating, At
<1>2. CASE Fails(h, "idle")
  BY <1>1, <1>2, FailsLive
<1>3. CASE ~Fails(h, "idle")
  <2>1. PICK s \in SignId, sigs \in SUBSET Nat : sreq' = [sreq EXCEPT ![s].sigs = sigs]
    BY <1>3, ReqTyped DEF RecordSignature, WriteSignatures, ReqRecord
  <2>2. Goto(h, "finalize") /\ "finalize" \in PCs /\ UNCHANGED <<preview, rows, Gone>> /\ RowsLive
    BY <1>3, SameRowsLive DEF RecordSignature, PCs, Gone
  <2> DEFINE row == [sreq[s] EXCEPT !.sigs = sigs]
  <2>3. row.subject = sreq[s].subject /\ row.status = sreq[s].status /\ sreq' = [sreq EXCEPT ![s] = row]
    BY <2>1, LinkRows DEF SignRow, IInv, Typed
  <2> HIDE DEF row
  <2>4. SubjectsKept /\ \A t \in SignId : LiveLink(t)'
    BY <2>2, <2>3, LinkRewritten
  <2>5. /\ req'[h].pc = "finalize" /\ req'[h].iss = req[h].iss /\ req'[h].link = req[h].link
        /\ \A g \in Request \ {h} : req'[g] = req[g]
    BY <2>2, Moved
  <2>6. LiveHandler(h)'
    BY <1>1, <2>2, <2>4, <2>5, SigningGoes
  <2> QED
    BY <1>1, <2>2, <2>4, <2>5, <2>6, WalletLive
<1> QED
  BY <1>2, <1>3

LEMMA AttachSignedLive ==
  ASSUME IInv, JInv, NEW h \in Request, AttachSigned(h)
  PROVE  JInv'
<1>1. Signing(h) /\ ~Creating(h)
  BY DEF AttachSigned, Signing, Creating, At
<1>2. CASE Fails(h, "idle")
  BY <1>1, <1>2, FailsLive
<1>3. CASE ~Fails(h, "idle")
  <2>0. PICK i, m : i = req[h].iss /\ m = req[h].mint
    OBVIOUS
  <2>1. Attach(h) /\ Goto(h, "complete") /\ "complete" \in PCs /\ UNCHANGED <<sreq, preview, Gone>>
    BY <1>3 DEF AttachSigned, PCs, Gone
  <2>2. i \in DOMAIN rows /\ Ready(m)
    BY <1>1, <2>0, ReqTyped DEF AttachSigned, Handler, Linked, At
  <2>3. RowsLive /\ rows'[i].market # NoMint
    BY <2>0, <2>1, <2>2, AttachRows
  <2>4. SubjectsKept /\ \A s \in SignId : LiveLink(s)'
    BY <2>1, <2>3, LinksLive
  <2>5. /\ req'[h].pc = "complete" /\ req'[h].iss = req[h].iss /\ req'[h].link = req[h].link
        /\ \A g \in Request \ {h} : req'[g] = req[g]
    BY <2>1, Moved
  <2>6. LiveHandler(h)'
    BY <1>1, <2>0, <2>3, <2>4, <2>5, SigningGoes
  <2> QED
    BY <1>1, <2>1, <2>3, <2>4, <2>5, <2>6, WalletLive
<1> QED
  BY <1>2, <1>3

LEMMA CompleteLive ==
  ASSUME IInv, JInv, NEW h \in Request, CompleteSubmit(h)
  PROVE  JInv'
<1>1. Signing(h) /\ ~Creating(h)
  BY DEF CompleteSubmit, Signing, Creating, At
<1>2. CASE Fails(h, "idle")
  BY <1>1, <1>2, FailsLive
<1>3. CASE ~Fails(h, "idle")
  <2>0. PICK s \in SignId : s = req[h].link
    BY ReqTyped DEF ReqRecord
  <2>1. sreq' = [sreq EXCEPT ![s].status = "COMPLETED"] /\ Return(h) /\ UNCHANGED <<preview, rows, Gone>> /\ RowsLive
    BY <1>3, <2>0, SameRowsLive DEF CompleteSubmit, CompleteRequest, Gone
  <2>2. sreq[s].subject # 0 /\ rows[sreq[s].subject].market # NoMint
    BY <1>1, <2>0, ReqTyped, NoIssuanceZero DEF CompleteSubmit, Handler, Linked, JInv, LiveHandler, At
  <2> DEFINE row == [sreq[s] EXCEPT !.status = "COMPLETED"]
  <2>3. row.subject = sreq[s].subject /\ row.status = "COMPLETED" /\ sreq' = [sreq EXCEPT ![s] = row]
    BY <2>1, LinkRows DEF SignRow, IInv, Typed
  <2> HIDE DEF row
  <2> QED
    BY <1>1, <2>1, <2>2, <2>3, LinkRewritten, ReturnsLive
<1> QED
  BY <1>2, <1>3

LEMMA KillLive ==
  ASSUME IInv, JInv, NEW h \in Request, Kill(h)
  PROVE  JInv'
<1>1. /\ Return(h) /\ UNCHANGED <<sreq, preview, rows>> /\ RowsLive /\ Gone \subseteq Gone'
      /\ ~Creating(h) \/ req[h].preview \in Gone'
  BY SameRowsLive DEF Kill, Gone
<1> QED
  BY <1>1, LinksLive, ReturnsLive

(* No handler moves. *)
LEMMA StillLive ==
  ASSUME IInv, JInv, UNCHANGED <<preview, rows, req, Gone>>, SubjectsKept, \A s \in SignId : LiveLink(s)'
  PROVE  JInv'
<1>1. ASSUME NEW h \in Request
      PROVE  LiveHandler(h)'
  <2>1. Signing(h) => req[h].iss # 0 /\ req[h].link \in SignId
    BY ReqTyped, NoIssuanceZero DEF Handler, Linked, ReqRecord
  <2>2. LiveHandler(h)
    BY DEF JInv
  <2> QED
    BY <2>1, <2>2 DEF LiveHandler, SubjectsKept, Signing, Attaching, At
<1>2. ASSUME NEW p \in Preview
      PROVE  Home(p)' /\ Used(p)'
  <2>1. \A i : Served(i) => Served(i)'
    BY NoIssuanceZero DEF Served, SubjectsKept
  <2> QED
    BY <2>1 DEF JInv, Home, Used, Held, Creating, At
<1> QED
  BY <1>1, <1>2 DEF JInv

LEMMA TimeLive ==
  ASSUME IInv, JInv, LinkTime
  PROVE  JInv'
<1>1. PICK s \in SignId : LinkExpires(s) \/ LoadExpired(s)
  BY DEF LinkTime
<1> DEFINE row == IF LinkExpires(s) THEN [sreq[s] EXCEPT !.live = FALSE] ELSE [sreq[s] EXCEPT !.status = "EXPIRED"]
<1>2. sreq[s] \in SignRow(Nat, {NoPayload}, Nat, Nat)
  BY LinkRows
<1>3. /\ row.subject = sreq[s].subject /\ (row.status = sreq[s].status \/ row.status = "EXPIRED")
      /\ sreq' = [sreq EXCEPT ![s] = row]
  BY <1>1, <1>2 DEF SignRow, LinkExpires, LoadExpired, IInv, Typed
<1> HIDE DEF row
<1>4. UNCHANGED <<preview, rows, req, Gone>> /\ RowsLive
  BY SameRowsLive DEF LinkTime, Gone
<1>5. SubjectsKept /\ \A t \in SignId : LiveLink(t)'
  BY <1>3, <1>4, LinkRewritten
<1> QED
  BY <1>4, <1>5, StillLive

LEMMA LiveInit == Init => JInv
<1> SUFFICES ASSUME Init
             PROVE  JInv
  OBVIOUS
<1>1. \A h \in Request : req[h].pc = "idle"
  BY DEF Init, NoReq
<1>2. \A s \in SignId : sreq[s].subject = 0 /\ sreq[s].status = "none"
  BY DEF Init, SignInit, NoRequest
<1>3. \A p \in Preview : ~preview[p].used /\ preview[p].issuance = 0
  BY DEF Init
<1> QED
  BY <1>1, <1>2, <1>3 DEF JInv, LiveHandler, LiveLink, Home, Used, Signing, Attaching, At

LEMMA LiveStep == IInv /\ JInv /\ [Next]_vars => JInv'
<1> SUFFICES ASSUME IInv, JInv, [Next]_vars
             PROVE  JInv'
  OBVIOUS
<1>1. CASE UNCHANGED vars
  <2>1. UNCHANGED <<sreq, preview, rows, req, Gone>>
    BY <1>1 DEF vars, Gone
  <2> QED
    BY <2>1, LinksLive, SameRowsLive, StillLive
<1>2. ASSUME NEW h \in Request, Custody(h)
      PROVE  JInv'
  BY <1>2, StartCreateLive, ClaimLive, InsertLive, LinkPreviewLive, NoChainLive,
     CreateMarketLive, AttachCustodyLive,
     DeleteLive, ReleaseLive DEF Custody
<1>3. ASSUME NEW h \in Request, WalletFlow(h)
      PROVE  JInv'
  BY <1>3, OpenLive, StartSignLive, SaveBuildLive, SubmitLive, RecordLive, AttachSignedLive, CompleteLive
     DEF WalletFlow
<1> QED
  BY <1>1, <1>2, <1>3, KillLive, TimeLive DEF Next, Rest

LEMMA LiveInductive == Spec => []JInv
BY Inductive, LiveInit, LiveStep, PTL DEF Spec

-----------------------------------------------------------------------------
(* What an error without a rollback left used stays as it was left.        *)

(* Nobody holds the preview; its issuance is PENDING, without a link.      *)
StrandedAt(p, i) ==
    /\ i = preview[p].issuance /\ i \in DOMAIN rows /\ rows[i].preview = p
    /\ rows[i].alive /\ rows[i].market = NoMint
    /\ \A s \in SignId : sreq[s].subject # i

Stranded(p) == p \in Preview /\ preview[p].used /\ ~Held(p) /\ \E i \in Nat : StrandedAt(p, i)

KInv == \A p \in stranded : Stranded(p)

(* What a step of h leaves alone. *)
Spares(h, p) ==
    /\ preview'[p] = preview[p]
    /\ ~(Creating(h)' /\ req'[h].preview = p)
    /\ \A i \in Nat : StrandedAt(p, i) =>
          i \in DOMAIN rows' /\ rows'[i] = rows[i] /\ \A s \in SignId : sreq'[s].subject # i

LEMMA SparedStays ==
  ASSUME KInv, NEW h \in Request, NEW p \in stranded, Spares(h, p), \A g \in Request \ {h} : req'[g] = req[g]
  PROVE  Stranded(p)'
<1>1. Stranded(p)
  BY DEF KInv
<1>2. ~Held(p)'
  BY <1>1 DEF Stranded, Held, Spares, Creating, At
<1>3. PICK i \in Nat : StrandedAt(p, i)
  BY <1>1 DEF Stranded
<1>4. StrandedAt(p, i)'
  BY <1>3 DEF Spares, StrandedAt
<1> QED
  BY <1>1, <1>2, <1>4 DEF Stranded, Spares

LEMMA SparesAll ==
  ASSUME KInv, NEW h \in Request, stranded' = stranded, \A p \in stranded : Spares(h, p),
         \A g \in Request \ {h} : req'[g] = req[g]
  PROVE  KInv'
BY SparedStays DEF KInv

(* A stranded preview is not that of the handler, ...                      *)
LEMMA NotMine ==
  ASSUME IInv, KInv, NEW h \in Request, Creating(h), NEW p \in stranded
  PROVE  /\ req[h].preview # p
         /\ \A i \in Nat : StrandedAt(p, i) /\ req[h].iss \in DOMAIN rows
                              /\ rows[req[h].iss].preview = req[h].preview => i # req[h].iss
BY DEF KInv, Stranded, Held, StrandedAt

(* ... nor is its issuance that of a signer.                               *)
LEMMA NotSigned ==
  ASSUME IInv, JInv, KInv, NEW h \in Request, Signing(h), NEW p \in stranded, NEW i \in Nat, StrandedAt(p, i)
  PROVE  i # req[h].iss
BY ReqTyped DEF JInv, LiveHandler, StrandedAt, ReqRecord

(* The step of a handler that changes no row, and takes no preview.        *)
LEMMA IdleRows ==
  ASSUME IInv, KInv, NEW h \in Request, UNCHANGED <<preview, rows, stranded>>,
         \A s \in SignId : sreq'[s].subject = sreq[s].subject,
         Creating(h)' => Creating(h) /\ req'[h].preview = req[h].preview,
         \A g \in Request \ {h} : req'[g] = req[g]
  PROVE  KInv'
<1>1. ASSUME NEW p \in stranded
      PROVE  Spares(h, p)
  BY NotMine DEF Spares, StrandedAt
<1> QED
  BY <1>1, SparesAll

LEMMA FailsKept ==
  ASSUME IInv, KInv, NEW h \in Request, NEW label \in {"idle", "delete", "release"}, Fails(h, label),
         label # "idle" => Creating(h)
  PROVE  KInv'
<1>1. UNCHANGED <<sreq, preview, rows, stranded>>
  BY DEF Fails
<1>2. /\ Creating(h)' => Creating(h) /\ req'[h].preview = req[h].preview
      /\ \A g \in Request \ {h} : req'[g] = req[g]
  BY Moved DEF Fails, PCs
<1> QED
  BY <1>1, <1>2, IdleRows

(* The previews a step adds are let go of, PENDING and without a link.     *)
LEMMA Strands ==
  ASSUME IInv, JInv, KInv, NEW h \in Request, req[h].pc \in {"market", "open"}, Return(h),
         UNCHANGED <<sreq, preview, rows>>, stranded' = stranded \cup {req[h].preview},
         rows[req[h].iss].market = NoMint, \A s \in SignId : sreq[s].subject # req[h].iss
  PROVE  KInv'
<1>0. PICK q \in Preview, i \in Nat : q = req[h].preview /\ i = req[h].iss
  BY ReqTyped DEF ReqRecord
<1>1. Creating(h) /\ Handler(h) /\ LiveHandler(h)
  BY DEF IInv, JInv, Creating
<1>2. ~Creating(h)' /\ \A g \in Request \ {h} : req'[g] = req[g]
  BY Moved
<1>3. ASSUME NEW p \in stranded
      PROVE  Stranded(p)'
  <2>1. Spares(h, p)
    BY <1>2 DEF Spares, StrandedAt
  <2> QED
    BY <1>2, <2>1, SparedStays
<1>4. Stranded(q)'
  <2>1. ~Held(q)'
    <3>1. \A g \in Request \ {h} : ~(Creating(g) /\ req[g].preview = q)
      BY <1>0, <1>1 DEF IInv, OneHolder
    <3> QED
      BY <1>2, <3>1 DEF Held, Creating, At
  <2>2. StrandedAt(q, i)'
    BY <1>0, <1>1 DEF Handler, LiveHandler, StrandedAt
  <2> QED
    BY <1>0, <1>1, <2>1, <2>2 DEF Stranded, Handler
<1> QED
  BY <1>0, <1>3, <1>4 DEF KInv

(* The issuance of a preview in hand has neither market nor link yet.      *)
LEMMA InHand ==
  ASSUME IInv, NEW h \in Request, Creating(h), req[h].iss \in DOMAIN rows, rows[req[h].iss].preview = req[h].preview
  PROVE  rows[req[h].iss].market = NoMint /\ \A s \in SignId : sreq[s].subject # req[h].iss
<1>1. ~Linked(req[h].iss) /\ req[h].iss # 0
  BY NoIssuanceZero DEF Linked
<1> QED
  BY <1>1 DEF IInv, RowsInv, LinksInv

LEMMA CustodyKept ==
  ASSUME IInv, JInv, KInv, NEW h \in Request, Custody(h)
  PROVE  KInv'
<1>0. req[h] \in ReqRecord /\ Handler(h)
  BY ReqTyped
<1>1. ASSUME NEW p \in Preview, NEW mode \in {"custody", "wallet"}, StartCreate(h, p, mode)
      PROVE  KInv'
  <2>1. req'[h].pc = "claim" /\ \A g \in Request \ {h} : req'[g] = req[g]
    BY <1>0, <1>1 DEF StartCreate, IInv, Typed, ReqRecord
  <2>2. ~Creating(h)'
    BY <2>1 DEF Creating, At
  <2> QED
    BY <1>1, <2>1, <2>2, IdleRows DEF StartCreate
<1>2. CASE ClaimPreview(h)
  <2>1. CASE preview[req[h].preview].used
    BY <1>2, <2>1, Moved, IdleRows DEF ClaimPreview
  <2>2. CASE ~preview[req[h].preview].used
    <3>1. /\ preview' = [preview EXCEPT ![req[h].preview].used = TRUE] /\ UNCHANGED <<sreq, rows, stranded>>
          /\ req'[h].preview = req[h].preview /\ \A g \in Request \ {h} : req'[g] = req[g]
      BY <1>2, <2>2, Moved DEF ClaimPreview, PCs
    <3>2. ASSUME NEW p \in stranded
          PROVE  Spares(h, p)
      <4>1. p \in Preview /\ p # req[h].preview
        BY <2>2 DEF KInv, Stranded
      <4> QED
        BY <3>1, <4>1 DEF Spares, StrandedAt, IInv, Typed
    <3> QED
      BY <3>1, <3>2, SparesAll
  <2> QED
    BY <2>1, <2>2
<1>3. CASE InsertPending(h)
  <2>1. CASE Fails(h, "release")
    BY <1>3, <2>1, FailsKept DEF InsertPending, Creating, At
  <2>2. CASE ~Fails(h, "release")
    <3> DEFINE row == [preview |-> req[h].preview, alive |-> TRUE, market |-> NoMint, accepted |-> NoMint]
    <3>1. /\ rows' = Append(rows, row) /\ UNCHANGED <<sreq, preview, stranded>> /\ Creating(h)
          /\ req' = [req EXCEPT ![h].pc = "link", ![h].iss = Len(rows) + 1]
      BY <1>3, <2>2 DEF InsertPending, Creating, At
    <3>2. req'[h].preview = req[h].preview /\ \A g \in Request \ {h} : req'[g] = req[g]
      BY <1>0, <3>1 DEF IInv, Typed, ReqRecord
    <3>3. row \in IssuanceRow
      BY <1>0 DEF IssuanceRow, ReqRecord, NoMint
    <3> HIDE DEF row
    <3>4. \A i \in DOMAIN rows : i \in DOMAIN rows' /\ rows'[i] = rows[i]
      <4>1. rows \in Seq(IssuanceRow) /\ DOMAIN rows = 1..Len(rows) /\ Len(rows) \in Nat
        BY RowTypes DEF IInv, Typed
      <4>2. /\ rows' \in Seq(IssuanceRow) /\ Len(rows') = Len(rows) + 1
            /\ \A i \in 1..Len(rows) : rows'[i] = rows[i]
        BY <3>1, <3>3, <4>1, AppendProperties
      <4>3. DOMAIN rows' = 1..(Len(rows) + 1)
        BY <4>2, LenProperties
      <4> QED
        BY <4>1, <4>2, <4>3
    <3>5. ASSUME NEW p \in stranded
          PROVE  Spares(h, p)
      BY <3>1, <3>2, <3>4, NotMine DEF Spares, StrandedAt
    <3> QED
      BY <3>1, <3>2, <3>5, SparesAll
  <2> QED
    BY <2>1, <2>2
<1>4. CASE LinkPreview(h)
  <2>1. CASE Fails(h, "release")
    BY <1>4, <2>1, FailsKept DEF LinkPreview, Creating, At
  <2>2. CASE ~Fails(h, "release")
    <3>1. /\ preview' = [preview EXCEPT ![req[h].preview].issuance = req[h].iss]
          /\ UNCHANGED <<sreq, rows, stranded>> /\ Creating(h)
          /\ Goto(h, "open") \/ Goto(h, "market")
      BY <1>4, <2>2 DEF LinkPreview, Creating, At
    <3>2. req'[h].preview = req[h].preview /\ \A g \in Request \ {h} : req'[g] = req[g]
      BY <3>1, Moved DEF PCs
    <3>3. ASSUME NEW p \in stranded
          PROVE  Spares(h, p)
      <4>1. p # req[h].preview /\ p \in Preview
        BY <3>1, NotMine DEF KInv, Stranded
      <4> QED
        BY <3>1, <3>2, <4>1 DEF Spares, StrandedAt, IInv, Typed
    <3> QED
      BY <3>1, <3>2, <3>3, SparesAll
  <2> QED
    BY <2>1, <2>2
<1>5. CASE NoChain(h)
  BY <1>0, <1>5, InHand, Strands DEF NoChain, Handler, Creating, At
<1>6. CASE CreateMarket(h)
  <2>1. At(h, "market") /\ Creating(h) /\ UNCHANGED <<sreq, preview, rows, stranded>>
    BY <1>6 DEF CreateMarket, Creating, At
  <2>2. req'[h].preview = req[h].preview /\ \A g \in Request \ {h} : req'[g] = req[g]
    <3>1. CASE Goto(h, "delete")
      BY <3>1, Moved DEF PCs
    <3>2. CASE ~Goto(h, "delete")
      BY <1>0, <1>6, <3>2 DEF CreateMarket, IInv, Typed, ReqRecord
    <3> QED
      BY <3>1, <3>2
  <2> QED
    BY <2>1, <2>2, IdleRows
<1>7. CASE AttachCustody(h)
  <2>1. Attaching(h) /\ Creating(h)
    BY <1>7 DEF AttachCustody, Attaching, Creating, At, Fails
  <2>2. CASE Fails(h, "delete")
    BY <2>1, <2>2, FailsKept
  <2>3. CASE ~Fails(h, "delete")
    <3>1. Attach(h) /\ Return(h) /\ UNCHANGED <<sreq, preview, stranded>>
      BY <1>7, <2>3 DEF AttachCustody
    <3>2. ~Creating(h)' /\ \A g \in Request \ {h} : req'[g] = req[g]
      BY <3>1, Moved
    <3>3. req[h].iss \in DOMAIN rows /\ rows[req[h].iss].preview = req[h].preview
      BY <1>0, <2>1 DEF Handler
    <3>4. ASSUME NEW p \in stranded
          PROVE  Spares(h, p)
      <4>1. \A i \in Nat : StrandedAt(p, i) => i # req[h].iss
        BY <2>1, <3>3, NotMine
      <4>2. \A i \in DOMAIN rows : i # req[h].iss => i \in DOMAIN rows' /\ rows'[i] = rows[i]
        BY <3>1, RowTypes DEF Attach, IInv, Typed
      <4> QED
        BY <3>1, <3>2, <4>1, <4>2 DEF Spares, StrandedAt
    <3> QED
      BY <3>1, <3>2, <3>4, SparesAll
  <2> QED
    BY <2>2, <2>3
<1>8. CASE DeletePending(h)
  <2>1. At(h, "delete") /\ Creating(h)
    BY <1>8 DEF DeletePending, Creating, At, Fails
  <2>2. CASE Fails(h, "release")
    BY <2>1, <2>2, FailsKept
  <2>3. CASE ~Fails(h, "release")
    <3>1. /\ rows' = [rows EXCEPT ![req[h].iss].alive = FALSE] /\ Goto(h, "release")
          /\ UNCHANGED <<sreq, preview, stranded>>
      BY <1>8, <2>3 DEF DeletePending
    <3>2. req'[h].preview = req[h].preview /\ \A g \in Request \ {h} : req'[g] = req[g]
      BY <3>1, Moved DEF PCs
    <3>3. req[h].iss \in DOMAIN rows /\ rows[req[h].iss].preview = req[h].preview
      BY <1>0, <2>1 DEF Handler, At
    <3>4. ASSUME NEW p \in stranded
          PROVE  Spares(h, p)
      <4>1. req[h].preview # p /\ \A i \in Nat : StrandedAt(p, i) => i # req[h].iss
        BY <2>1, <3>3, NotMine
      <4>2. \A i \in DOMAIN rows : i # req[h].iss => i \in DOMAIN rows' /\ rows'[i] = rows[i]
        BY <3>1, RowTypes DEF IInv, Typed
      <4> QED
        BY <3>1, <3>2, <4>1, <4>2 DEF Spares, StrandedAt
    <3> QED
      BY <3>1, <3>2, <3>4, SparesAll
  <2> QED
    BY <2>2, <2>3
<1>9. CASE ReleasePreview(h)
  <2>1. At(h, "release") /\ Creating(h) /\ Return(h) /\ UNCHANGED <<sreq, rows, stranded>>
    BY <1>9 DEF ReleasePreview, Creating, At
  <2>2. ~Creating(h)' /\ \A g \in Request \ {h} : req'[g] = req[g]
    BY <2>1, Moved
  <2>3. ASSUME NEW p \in stranded
        PROVE  Spares(h, p)
    <3>1. p # req[h].preview /\ p \in Preview
      BY <2>1, NotMine DEF KInv, Stranded
    <3>2. preview'[p] = preview[p]
      BY <1>9, <3>1 DEF ReleasePreview, IInv, Typed
    <3> QED
      BY <2>1, <2>2, <3>2 DEF Spares, StrandedAt
  <2> QED
    BY <2>1, <2>2, <2>3, SparesAll
<1> QED
  BY <1>1, <1>2, <1>3, <1>4, <1>5, <1>6, <1>7, <1>8, <1>9 DEF Custody

LEMMA OpenKept ==
  ASSUME IInv, JInv, KInv, NEW h \in Request, OpenLink(h)
  PROVE  KInv'
<1>1. /\ At(h, "open") /\ Creating(h) /\ Return(h) /\ UNCHANGED <<preview, rows>>
      /\ req[h].iss \in DOMAIN rows /\ rows[req[h].iss].preview = req[h].preview
  BY ReqTyped DEF OpenLink, Handler, Creating, At
<1>2. CASE stranded' = stranded \cup {req[h].preview} /\ sreq' = sreq
  BY <1>1, <1>2, InHand, Strands DEF At
<1>3. CASE CreateRequest(req[h].iss, NoPayload) /\ stranded' = stranded
  <2>0. PICK i \in Nat : i = req[h].iss
    BY ReqTyped DEF ReqRecord
  <2> DEFINE new == [NoRequest EXCEPT !.status = "PENDING", !.live = TRUE, !.subject = i, !.meta = NoPayload]
  <2>1. new.subject = i
    BY DEF NoRequest
  <2>2. PICK s \in SignId : sreq' = [sreq EXCEPT ![s] = new]
    BY <1>3, <2>0 DEF CreateRequest
  <2> HIDE DEF new
  <2>3. \A t \in SignId : sreq'[t].subject \in {sreq[t].subject, i}
    BY <2>1, <2>2 DEF IInv, Typed
  <2>4. ~Creating(h)' /\ \A g \in Request \ {h} : req'[g] = req[g]
    BY <1>1, Moved
  <2>5. ASSUME NEW p \in stranded
        PROVE  Spares(h, p)
    <3>1. \A k \in Nat : StrandedAt(p, k) => k # i
      BY <1>1, <2>0, NotMine
    <3> QED
      BY <1>1, <2>3, <2>4, <3>1 DEF Spares, StrandedAt
  <2> QED
    BY <1>3, <2>4, <2>5, SparesAll
<1> QED
  BY <1>2, <1>3 DEF OpenLink

(* No link changes its issuance once it has one.                           *)
LEMMA SameSubject ==
  ASSUME IInv, NEW s \in SignId, NEW row, row.subject = sreq[s].subject, sreq' = [sreq EXCEPT ![s] = row]
  PROVE  \A t \in SignId : sreq'[t].subject = sreq[t].subject
BY DEF IInv, Typed

LEMMA SignedKept ==
  ASSUME IInv, JInv, KInv, NEW h \in Request, AttachSigned(h)
  PROVE  KInv'
<1>1. CASE Fails(h, "idle")
  BY <1>1, FailsKept
<1>2. CASE ~Fails(h, "idle")
  <2>1. Attach(h) /\ Goto(h, "complete") /\ UNCHANGED <<sreq, preview, stranded>> /\ Signing(h)
    BY <1>2 DEF AttachSigned, Signing, At
  <2>2. ~Creating(h)' /\ \A g \in Request \ {h} : req'[g] = req[g]
    BY <2>1, Moved DEF PCs, Creating, At
  <2>3. ASSUME NEW p \in stranded
        PROVE  Spares(h, p)
    <3>1. \A i \in Nat : StrandedAt(p, i) => i # req[h].iss
      BY <2>1, NotSigned
    <3>2. \A i \in DOMAIN rows : i # req[h].iss => i \in DOMAIN rows' /\ rows'[i] = rows[i]
      BY <2>1, RowTypes DEF Attach, IInv, Typed
    <3> QED
      BY <2>1, <2>2, <3>1, <3>2 DEF Spares, StrandedAt
  <2> QED
    BY <2>1, <2>2, <2>3, SparesAll
<1> QED
  BY <1>1, <1>2

LEMMA WalletKept ==
  ASSUME IInv, JInv, KInv, NEW h \in Request, WalletFlow(h)
  PROVE  KInv'
<1>0. /\ req[h] \in ReqRecord /\ req[h].link \in SignId
      /\ \A s \in SignId : sreq[s] \in SignRow(Nat, {NoPayload}, Nat, Nat)
  BY ReqTyped, LinkRows DEF ReqRecord
<1>1. ASSUME NEW s \in SignId, NEW w \in Founder, StartBuild(h, s, w) \/ StartSubmit(h, s, w)
      PROVE  KInv'
  <2>1. /\ req'[h].pc \in {"buildSave", "send"} /\ \A g \in Request \ {h} : req'[g] = req[g]
        /\ UNCHANGED <<sreq, preview, rows, stranded>>
    BY <1>0, <1>1 DEF StartBuild, StartSubmit, IInv, Typed, ReqRecord
  <2>2. ~Creating(h)'
    BY <2>1 DEF Creating, At
  <2> QED
    BY <2>1, <2>2, IdleRows
<1>2. CASE Fails(h, "idle")
  BY <1>2, FailsKept
<1>3. CASE SaveBuild(h) /\ ~Fails(h, "idle")
  <2>1. SavePayload(req[h].link, req[h].wallet, req[h].mint) /\ Return(h) /\ UNCHANGED <<preview, rows, stranded>>
    BY <1>3 DEF SaveBuild
  <2>2. \A t \in SignId : sreq'[t].subject = sreq[t].subject
    BY <1>0, <2>1 DEF SavePayload, SignRow, IInv, Typed
  <2> QED
    BY <2>1, <2>2, Moved, IdleRows
<1>4. CASE SendCreate(h) \/ Finalize(h)
  <2>1. /\ Return(h) \/ Goto(h, "recRead") \/ Goto(h, "memo")
        /\ UNCHANGED <<sreq, preview, rows, stranded>>
    BY <1>4 DEF SendCreate, Finalize
  <2>2. ~Creating(h)' /\ \A g \in Request \ {h} : req'[g] = req[g]
    BY <2>1, Moved DEF PCs, Creating, At
  <2> QED
    BY <2>1, <2>2, IdleRows
<1>5. CASE (ReadSignatures(h) /\ ~Fails(h, "idle")) \/ SendMemo(h)
  <2>1. /\ req'[h].pc = "recWrite" \/ (req'[h].pc = "attach" /\ req'[h].mode = "wallet")
        /\ \A g \in Request \ {h} : req'[g] = req[g]
        /\ UNCHANGED <<sreq, preview, rows, stranded>>
    <3>1. CASE ReadSignatures(h) /\ ~Fails(h, "idle")
      BY <1>0, <3>1 DEF ReadSignatures, IInv, Typed, ReqRecord
    <3>2. CASE SendMemo(h)
      <4>1. PICK ok \in BOOLEAN : req' = [req EXCEPT ![h].pc = "attach", ![h].memo = ok]
        BY <3>2 DEF SendMemo
      <4>2. req[h].mode = "wallet"
        BY <3>2, ReqTyped DEF SendMemo, Handler, At
      <4> QED
        BY <1>0, <3>2, <4>1, <4>2 DEF SendMemo, IInv, Typed, ReqRecord
    <3> QED
      BY <1>5, <3>1, <3>2
  <2>2. ~Creating(h)'
    BY <2>1 DEF Creating, At
  <2> QED
    BY <2>1, <2>2, IdleRows
<1>6. CASE RecordSignature(h) /\ ~Fails(h, "idle")
  <2>1. /\ WriteSignatures(req[h].link, req[h].sigs, req[h].mint) /\ Goto(h, "finalize")
        /\ UNCHANGED <<preview, rows, stranded>>
    BY <1>6 DEF RecordSignature
  <2>2. \A t \in SignId : sreq'[t].subject = sreq[t].subject
    BY <1>0, <2>1 DEF WriteSignatures, SignRow, IInv, Typed
  <2>3. ~Creating(h)' /\ \A g \in Request \ {h} : req'[g] = req[g]
    BY <2>1, Moved DEF PCs, Creating, At
  <2> QED
    BY <2>1, <2>2, <2>3, IdleRows
<1>7. CASE CompleteSubmit(h) /\ ~Fails(h, "idle")
  <2>1. CompleteRequest(req[h].link) /\ Return(h) /\ UNCHANGED <<preview, rows, stranded>>
    BY <1>7 DEF CompleteSubmit
  <2>2. \A t \in SignId : sreq'[t].subject = sreq[t].subject
    BY <1>0, <2>1 DEF CompleteRequest, SignRow, IInv, Typed
  <2> QED
    BY <2>1, <2>2, Moved, IdleRows
<1> QED
  BY <1>1, <1>2, <1>3, <1>4, <1>5, <1>6, <1>7, OpenKept, SignedKept DEF WalletFlow

(* A kill lets go of the preview, the clock touches only a link's status.  *)
LEMMA KillKept ==
  ASSUME IInv, JInv, KInv, NEW h \in Request, Kill(h)
  PROVE  KInv'
<1>1. Return(h) /\ UNCHANGED <<sreq, preview, rows, stranded>>
  BY DEF Kill
<1> QED
  BY <1>1, Moved, IdleRows

LEMMA StillKept ==
  ASSUME IInv, KInv, UNCHANGED <<preview, rows, req, stranded>>,
         \A s \in SignId : sreq'[s].subject = sreq[s].subject
  PROVE  KInv'
<1>1. \A p : Held(p)' <=> Held(p)
  BY DEF Held, Creating, At
<1>2. \A p, i : StrandedAt(p, i) => StrandedAt(p, i)'
  BY DEF StrandedAt
<1> QED
  BY <1>1, <1>2 DEF KInv, Stranded

LEMMA TimeKept ==
  ASSUME IInv, JInv, KInv, LinkTime
  PROVE  KInv'
<1>1. PICK s \in SignId : LinkExpires(s) \/ LoadExpired(s)
  BY DEF LinkTime
<1>2. \A t \in SignId : sreq'[t].subject = sreq[t].subject
  <2> DEFINE row == IF LinkExpires(s) THEN [sreq[s] EXCEPT !.live = FALSE] ELSE [sreq[s] EXCEPT !.status = "EXPIRED"]
  <2>1. sreq[s] \in SignRow(Nat, {NoPayload}, Nat, Nat)
    BY LinkRows
  <2>2. row.subject = sreq[s].subject /\ sreq' = [sreq EXCEPT ![s] = row]
    BY <1>1, <2>1 DEF SignRow, LinkExpires, LoadExpired, IInv, Typed
  <2> HIDE DEF row
  <2> QED
    BY <2>2, SameSubject
<1>3. UNCHANGED <<preview, rows, req, stranded>>
  BY DEF LinkTime
<1> QED
  BY <1>2, <1>3, StillKept

LEMMA StrandedStep == IInv /\ JInv /\ KInv /\ [Next]_vars => KInv'
<1> SUFFICES ASSUME IInv, JInv, KInv, [Next]_vars
             PROVE  KInv'
  OBVIOUS
<1>1. CASE UNCHANGED vars
  BY <1>1, StillKept DEF vars
<1> QED
  BY <1>1, CustodyKept, WalletKept, KillKept, TimeKept DEF Next, Rest

LEMMA StrandedForGood == Spec => []KInv
<1>1. Init => KInv
  BY DEF Init, KInv
<1> QED
  BY <1>1, Inductive, LiveInductive, StrandedStep, PTL DEF Spec

(* A used preview is in the hands of a handler, or belongs to an issuance  *)
(* that is alive and has its market or a sign link, unless a kill or a     *)
(* failed rollback left it used for nothing, or an error of getChain or    *)
(* openSignRequest, which nothing rolls back: then its issuance has        *)
(* neither, in every later state.                                          *)
THEOREM NothingWasted == Spec => []UsedForSomething
<1>1. ASSUME IInv, JInv, KInv, NEW p \in Preview, preview[p].used, p \notin lost
      PROVE  \/ \E h \in Request : Creating(h) /\ req[h].preview = p
             \/ /\ Exists(preview[p].issuance)
                /\ p \notin stranded <=>
                      \/ HasMarket(preview[p].issuance)
                      \/ \E s \in SignId : sreq[s].subject = preview[p].issuance
  <2>1. CASE p \in stranded
    BY <1>1, <2>1, NoIssuanceZero DEF KInv, Stranded, StrandedAt, HasMarket, Exists
  <2>2. CASE p \notin stranded
    BY <1>1, <2>2, NoIssuanceZero DEF JInv, Used, Gone, Held, Served, HasMarket, Exists
  <2> QED
    BY <2>1, <2>2
<1>2. IInv /\ JInv /\ KInv => UsedForSomething
  BY <1>1 DEF UsedForSomething
<1> QED
  BY <1>2, Inductive, LiveInductive, StrandedForGood, PTL

(* Where the sign page says "Signed and confirmed" the issuance is LIVE,   *)
(* however its link expired, was rebuilt or submitted twice meanwhile.     *)
THEOREM DoneIsLive == Spec => []CompletedIsLive
<1>1. JInv => CompletedIsLive
  BY DEF JInv, LiveLink, CompletedIsLive, SignPage, signRequestView, publicIssuanceView, HasMarket, Exists
<1> QED
  BY <1>1, LiveInductive, PTL

(* An issuance with a market is linked, so nobody holds its preview: no    *)
(* handler is left that would delete it.                                   *)
LEMMA MarketStays ==
  ASSUME IInv, Next, NEW i \in DOMAIN rows, HasMarket(i)
  PROVE  HasMarket(i)'
<1>1. i # 0 /\ Linked(i) /\ rows[i].alive /\ rows[i].market # NoMint
  BY DEF IInv, RowsInv, HasMarket, Exists
<1>2. RowsLive => HasMarket(i)'
  BY <1>1 DEF RowsLive, HasMarket, Exists
<1>3. ASSUME NEW h \in Request, InsertPending(h)
      PROVE  HasMarket(i)'
  <2> DEFINE row == [preview |-> req[h].preview, alive |-> TRUE, market |-> NoMint, accepted |-> NoMint]
  <2>1. row \in IssuanceRow
    BY ReqTyped DEF IssuanceRow, ReqRecord, NoMint
  <2>2. rows' = Append(rows, row) \/ rows' = rows
    BY <1>3 DEF InsertPending, Fails
  <2> HIDE DEF row
  <2> QED
    BY <1>2, <2>1, <2>2, RowAdded, SameRowsLive
<1>4. ASSUME NEW h \in Request, AttachCustody(h) \/ AttachSigned(h)
      PROVE  HasMarket(i)'
  <2>1. Attach(h) \/ rows' = rows
    BY <1>4 DEF AttachCustody, AttachSigned, Fails
  <2>2. req[h].iss \in DOMAIN rows /\ Ready(req[h].mint)
    BY <1>4, ReqTyped DEF AttachCustody, AttachSigned, Handler, Signing, Attaching, Linked, At
  <2> QED
    BY <1>2, <2>1, <2>2, AttachRows, SameRowsLive
<1>5. ASSUME NEW h \in Request, DeletePending(h)
      PROVE  HasMarket(i)'
  <2>1. Creating(h) /\ req[h].iss \in DOMAIN rows /\ rows[req[h].iss].preview = req[h].preview
    BY <1>5, ReqTyped DEF DeletePending, Creating, At, Handler
  <2>2. req[h].iss # i
    BY <1>1, <2>1 DEF Linked
  <2>3. rows' = [rows EXCEPT ![req[h].iss].alive = FALSE] \/ rows' = rows
    BY <1>5 DEF DeletePending, Fails
  <2>4. CASE rows' = [rows EXCEPT ![req[h].iss].alive = FALSE]
    BY <1>1, <2>1, <2>2, <2>4, RowDeleted DEF HasMarket, Exists
  <2> QED
    BY <1>2, <2>3, <2>4, SameRowsLive
<1>6. CASE rows' = rows
  BY <1>2, <1>6, SameRowsLive
<1>7. ASSUME NEW h \in Request, Custody(h)
      PROVE  HasMarket(i)'
  BY <1>3, <1>4, <1>5, <1>6, <1>7
     DEF Custody, StartCreate, ClaimPreview, LinkPreview, Fails, NoChain, CreateMarket, ReleasePreview
<1>8. ASSUME NEW h \in Request, WalletFlow(h)
      PROVE  HasMarket(i)'
  BY <1>4, <1>6, <1>8
     DEF WalletFlow, OpenLink, StartBuild, StartSubmit, SaveBuild, SendCreate, ReadSignatures, RecordSignature,
         Finalize, SendMemo, CompleteSubmit, Fails
<1> QED
  BY <1>6, <1>7, <1>8 DEF Next, Kill, LinkTime, Rest, vars

(* An issuance that went live stays live: no late rollback deletes it.     *)
THEOREM LiveForGood == Spec => LiveStays
<1>1. IInv /\ [Next]_vars => [\A i \in DOMAIN rows : HasMarket(i) => HasMarket(i)']_vars
  <2> SUFFICES ASSUME IInv, Next, NEW i \in DOMAIN rows, HasMarket(i)
               PROVE  HasMarket(i)'
    OBVIOUS
  <2> QED
    BY MarketStays
<1> QED
  BY <1>1, Inductive, PTL DEF Spec, LiveStays

=============================================================================
