---------------------------- MODULE ClaimProofs ----------------------------
(***************************************************************************)
(* Claims never overlap and zeros never fall on a claim, for any number of  *)
(* writers, any record sizes and any window, block and segment size.        *)
(* Neither is inductive: both rest on every range lying below the head, and *)
(* the second on the head lying below the filled edge, which a claimer      *)
(* about to swap has made sure of, while one claimer at a time moves it.    *)
(***************************************************************************)
EXTENDS Claim, TLAPS

Places == [pc : {"idle", "look", "lock", "fill", "swap", "claimed", "write", "roll"},
           kind : Kinds, seen : Nat, from : Nat, to : Nat, base : Nat]

\* The values the claims turn on
Shape ==
  /\ reserved \in Nat /\ filled \in Nat
  /\ records \subseteq [base : Nat, span : Nat]
  /\ writer \in [Writers -> Places]

\* Every range is below the head.
BelowHead ==
  /\ \A w \in Writers : Holding(w) => writer[w].base + writer[w].kind.span <= reserved
  /\ \A r \in records : r.base + r.span <= reserved

\* While there is more to zero, no claim has passed the edge, and no swap would.
HeadInZeros ==
  filled < Target =>
    /\ reserved <= filled
    /\ \A w \in Writers : writer[w].pc = "swap" => writer[w].seen + writer[w].kind.span <= filled

\* Whoever zeroes holds the lock alone, and starts at the edge.
FillerAlone ==
  \A w \in Writers : writer[w].pc = "fill" =>
    /\ writer[w].from = filled
    /\ filled < Target
    /\ \A v \in Writers : writer[v].pc = "fill" => v = w

ClaimInv == Shape /\ BelowHead /\ HeadInZeros /\ FillerAlone /\ ClaimsApart

-----------------------------------------------------------------------------

\* Rounding up reaches the block asked for and never falls short.
LEMMA AlignUpReaches ==
  ASSUME NEW n \in Nat, NEW k \in Nat \ {0}
  PROVE  AlignUp(n, k) \in Nat /\ AlignUp(n, k) >= n /\ (n > 0 => AlignUp(n, k) >= k)
<1> DEFINE q == (n + k - 1) \div k
<1>1. q \in Nat
  BY SMT
<1>2. n + k - 1 = q * k + ((n + k - 1) % k) /\ (n + k - 1) % k < k /\ (n + k - 1) % k \in Nat
  BY SMT
<1>3. q * k \in Nat /\ q * k >= n
  BY <1>1, <1>2, SMT
<1>4. ASSUME n > 0 PROVE q * k >= k
  <2>1. q # 0
    <3>1. SUFFICES ASSUME q = 0 PROVE FALSE
      BY Zenon
    <3>2. q * k = 0
      BY <3>1
    <3> QED BY <1>2, <3>2, <1>4
  <2> QED BY <1>1, <2>1, SMT
<1> QED BY Zenon, <1>3, <1>4 DEF AlignUp

\* An idle writer is a writer.
LEMMA IdleShape ==
  Idle \in [pc : {"idle"}, kind : Kinds, seen : Nat, from : Nat, to : Nat, base : Nat]
BY Zenon, KindsAssumption DEF Idle

\* The window a fresh segment opens with holds its header.
LEMMA OpenWindowHolds == OpenWindow \in Nat /\ HEADER <= OpenWindow
<1>1. Min2(Window, Target) \in Nat /\ Min2(Window, Target) > 0
  BY SizesAssumption DEF Min2
<1> QED BY <1>1, AlignUpReaches, SizesAssumption DEF OpenWindow

\* The invariant holds over a fresh segment.
LEMMA ClaimInit == Init => ClaimInv
<1> SUFFICES ASSUME Init PROVE ClaimInv
  BY Zenon
<1>1. \A w \in Writers : writer[w].pc = "idle"
  BY Zenon DEF Init, Idle
<1>2. Shape
  BY Zenon, IdleShape, OpenWindowHolds, SizesAssumption DEF Init, Shape, Places
<1>3. BelowHead /\ FillerAlone /\ ClaimsApart
  BY Zenon, <1>1 DEF Init, BelowHead, FillerAlone, ClaimsApart, Holding
<1>4. HeadInZeros
  BY Zenon, <1>1, OpenWindowHolds DEF Init, HeadInZeros
<1> QED BY Zenon, <1>2, <1>3, <1>4 DEF ClaimInv

-----------------------------------------------------------------------------

\* A step of one writer that leaves the head, the edge and the records alone, and
\* neither makes it hold a range nor sends it to zero or to swap.
LEMMA QuietStep ==
  ASSUME ClaimInv, NEW w \in Writers, NEW to \in [pc : {"idle", "look", "lock", "roll"},
             kind : Kinds, seen : Nat, from : Nat, to : Nat, base : Nat],
         writer' = [writer EXCEPT ![w] = to],
         UNCHANGED <<reserved, filled, records>>
  PROVE  ClaimInv'
<1>1. Shape'
  BY Zenon DEF ClaimInv, Shape, Places
<1>2. \A v \in Writers : v # w => writer'[v] = writer[v]
  BY Zenon DEF ClaimInv, Shape, Places
<1>3. writer'[w] = to /\ to.pc \notin {"fill", "swap", "claimed", "write"}
  BY Zenon DEF ClaimInv, Shape, Places
<1>4. BelowHead' /\ HeadInZeros' /\ FillerAlone'
  <2>1. BelowHead'
    BY ZenonT(60), <1>2, <1>3 DEF ClaimInv, BelowHead, Holding
  <2>2. HeadInZeros'
    BY ZenonT(60), <1>2, <1>3 DEF ClaimInv, HeadInZeros
  <2>3. FillerAlone'
    <3>1. \A v \in Writers : writer'[v].pc = "fill" => v # w /\ writer'[v] = writer[v]
      BY Zenon, <1>2, <1>3
    <3>2. filled' = filled
      BY Zenon
    <3> QED BY ZenonT(60), <3>1, <3>2 DEF ClaimInv, FillerAlone
  <2> QED BY Zenon, <2>1, <2>2, <2>3
<1>5. ClaimsApart'
  <2>1. \A v \in Writers : Holding(v)' => v # w /\ Holding(v) /\ Claimed(v)' = Claimed(v)
    BY Zenon, <1>2, <1>3 DEF Holding, Claimed
  <2> QED BY ZenonT(60), <2>1 DEF ClaimInv, ClaimsApart, Apart
<1> QED BY Zenon, <1>1, <1>4, <1>5 DEF ClaimInv

\* No step of the code breaks the invariant.
LEMMA ClaimStep == ClaimInv /\ [Next]_vars => ClaimInv'
<1> SUFFICES ASSUME ClaimInv, [Next]_vars PROVE ClaimInv'
  BY Zenon
<1> USE KindsAssumption, SizesAssumption
<1>0. \A w \in Writers : writer[w].kind \in Kinds /\ writer[w].kind.span \in Nat \ {0}
                         /\ writer[w] \in Places
  BY DEF ClaimInv, Shape, Places
<1>1. ASSUME NEW w \in Writers, Start(w) PROVE ClaimInv'
  BY Zenon, <1>1, QuietStep, IdleShape DEF Start
<1>2. ASSUME NEW w \in Writers, Look(w) PROVE ClaimInv'
  <2>1. CASE WantsFill(w, reserved)
    <3> DEFINE to == [writer[w] EXCEPT !.pc = "lock", !.seen = reserved]
    <3>1. to \in [pc : {"idle", "look", "lock", "roll"}, kind : Kinds, seen : Nat, from : Nat, to : Nat, base : Nat]
      BY Zenon, <1>0 DEF ClaimInv, Shape, Places
    <3>2. writer' = [writer EXCEPT ![w] = to]
      BY Zenon, <1>2, <2>1 DEF Look
    <3> QED BY Zenon, <1>2, <3>1, <3>2, QuietStep DEF Look
  <2>2. CASE ~ WantsFill(w, reserved)
    <3>1. writer' = [writer EXCEPT ![w].pc = "swap", ![w].seen = reserved]
      BY Zenon, <1>2, <2>2 DEF Look
    <3>2. Shape'
      <4> DEFINE to == [writer[w] EXCEPT !.pc = "swap", !.seen = reserved]
      <4>1. to \in Places
        BY Zenon, <1>0 DEF ClaimInv, Shape, Places
      <4>2. writer' = [writer EXCEPT ![w] = to]
        BY Zenon, <3>1
      <4>3. writer' \in [Writers -> Places]
        BY Zenon, <4>1, <4>2 DEF ClaimInv, Shape
      <4> QED BY Zenon, <1>2, <4>3 DEF Look, ClaimInv, Shape
    <3>3. \A v \in Writers : v # w => writer'[v] = writer[v]
      BY Zenon, <3>1 DEF ClaimInv, Shape, Places
    <3>4. writer'[w].pc = "swap" /\ writer'[w].seen = reserved /\ writer'[w].kind = writer[w].kind
      BY Zenon, <1>0, <3>1 DEF ClaimInv, Shape, Places
    <3>5. BelowHead' /\ FillerAlone'
      <4>1. BelowHead'
        BY ZenonT(60), <1>2, <3>3, <3>4 DEF Look, ClaimInv, BelowHead, Holding
      <4>2. FillerAlone'
        BY ZenonT(60), <1>2, <3>3, <3>4 DEF Look, ClaimInv, FillerAlone
      <4> QED BY Zenon, <4>1, <4>2
    <3>6. HeadInZeros'
      <4> SUFFICES ASSUME filled < Target
                   PROVE  /\ reserved <= filled
                          /\ \A v \in Writers : writer'[v].pc = "swap" => writer'[v].seen + writer'[v].kind.span <= filled
        BY Zenon, <1>2 DEF Look, HeadInZeros
      <4>1. /\ reserved <= filled
            /\ \A v \in Writers : writer[v].pc = "swap" => writer[v].seen + writer[v].kind.span <= filled
        BY Zenon DEF ClaimInv, HeadInZeros
      <4>2. reserved + writer[w].kind.span <= filled
        <5>1. reserved \in Nat /\ filled \in Nat /\ writer[w].kind.span \in Nat
          BY Zenon, <1>0 DEF ClaimInv, Shape
        <5> QED BY <2>2, <5>1 DEF WantsFill
      <4> QED BY Zenon, <3>3, <3>4, <4>1, <4>2
    <3>7. ClaimsApart'
      BY ZenonT(60), <1>2, <3>3, <3>4 DEF Look, ClaimInv, ClaimsApart, Holding, Claimed, Apart
    <3> QED BY Zenon, <3>2, <3>5, <3>6, <3>7 DEF ClaimInv
  <2> QED BY Zenon, <2>1, <2>2
<1>3. ASSUME NEW w \in Writers, FillStart(w) PROVE ClaimInv'
  <2>1. CASE ~ WantsFill(w, writer[w].seen)
    BY Zenon, <1>0, <1>3, <2>1, QuietStep DEF FillStart, ClaimInv, Shape, Places
  <2>2. CASE WantsFill(w, writer[w].seen)
    <3> DEFINE edge == AlignUp(Min2(filled + Max2(Window, writer[w].kind.span), Target), ALIGN)
    <3>1. edge \in Nat
      <4>1. Min2(filled + Max2(Window, writer[w].kind.span), Target) \in Nat
        BY <1>0 DEF ClaimInv, Shape, Min2, Max2
      <4> QED BY Zenon, <4>1, AlignUpReaches
    <3>2. writer' = [writer EXCEPT ![w].pc = "fill", ![w].from = filled, ![w].to = edge]
      BY Zenon, <1>3, <2>2 DEF FillStart
    <3> HIDE DEF edge
    <3>3. Shape'
      <4> DEFINE to == [writer[w] EXCEPT !.pc = "fill", !.from = filled, !.to = edge]
      <4>1. to \in Places
        BY Zenon, <1>0, <3>1 DEF ClaimInv, Shape, Places
      <4>2. writer' = [writer EXCEPT ![w] = to]
        BY Zenon, <3>2
      <4> QED BY Zenon, <1>3, <4>1, <4>2 DEF FillStart, ClaimInv, Shape
    <3>4. \A v \in Writers : v # w => writer'[v] = writer[v]
      BY Zenon, <3>2 DEF ClaimInv, Shape, Places
    <3>5. writer'[w].pc = "fill" /\ writer'[w].from = filled
      BY Zenon, <1>0, <3>2 DEF ClaimInv, Shape, Places
    <3>6. BelowHead' /\ HeadInZeros'
      BY Zenon, <1>3, <3>4, <3>5 DEF FillStart, ClaimInv, BelowHead, HeadInZeros, Holding
    <3>7. FillerAlone'
      BY ZenonT(60), <1>3, <2>2, <3>4, <3>5 DEF FillStart, WantsFill, ClaimInv, FillerAlone
    <3>8. ClaimsApart'
      <4>1. \A v \in Writers : Holding(v)' => v # w /\ Holding(v) /\ Claimed(v)' = Claimed(v)
        BY Zenon, <3>4, <3>5 DEF Holding, Claimed
      <4> QED BY Zenon, <1>3, <4>1 DEF FillStart, ClaimInv, ClaimsApart, Apart
    <3> QED BY Zenon, <3>3, <3>6, <3>7, <3>8 DEF ClaimInv
  <2> QED BY Zenon, <2>1, <2>2
<1>4. ASSUME NEW w \in Writers, FillEnd(w) PROVE ClaimInv'
  <2>1. writer' = [writer EXCEPT ![w].pc = "look", ![w].from = 0, ![w].to = 0]
    BY Zenon, <1>4 DEF FillEnd
  <2>2. filled' \in Nat /\ filled <= filled'
    BY <1>0, <1>4 DEF FillEnd, ClaimInv, Shape, Places, Max2
  <2>3. Shape'
    <3> DEFINE to == [writer[w] EXCEPT !.pc = "look", !.from = 0, !.to = 0]
    <3>1. to \in Places
      BY Zenon, <1>0 DEF ClaimInv, Shape, Places
    <3>2. writer' = [writer EXCEPT ![w] = to]
      BY Zenon, <2>1
    <3> QED BY <1>4, <2>2, <3>1, <3>2 DEF FillEnd, ClaimInv, Shape
  <2>4. \A v \in Writers : v # w => writer'[v] = writer[v]
    BY Zenon, <2>1 DEF ClaimInv, Shape, Places
  <2>5. writer'[w].pc = "look"
    BY Zenon, <1>0, <2>1 DEF ClaimInv, Shape, Places
  <2>6. BelowHead'
    BY Zenon, <1>4, <2>4, <2>5 DEF FillEnd, ClaimInv, BelowHead, Holding
  <2>7. HeadInZeros'
    BY <1>0, <1>4, <2>2, <2>4, <2>5 DEF FillEnd, ClaimInv, Shape, Places, HeadInZeros
  <2>8. FillerAlone'
    BY Zenon, <1>4, <2>4, <2>5 DEF FillEnd, ClaimInv, FillerAlone
  <2>9. ClaimsApart'
    BY ZenonT(60), <1>4, <2>4, <2>5 DEF FillEnd, ClaimInv, ClaimsApart, Holding, Claimed, Apart
  <2> QED BY Zenon, <2>3, <2>6, <2>7, <2>8, <2>9 DEF ClaimInv
<1>5. ASSUME NEW w \in Writers, Swap(w) PROVE ClaimInv'
  <2>1. CASE reserved # writer[w].seen
    BY Zenon, <1>0, <1>5, <2>1, QuietStep DEF Swap, ClaimInv, Shape, Places
  <2>2. CASE reserved = writer[w].seen
    <3>1. /\ writer' = [writer EXCEPT ![w].pc = "claimed", ![w].base = reserved, ![w].seen = 0]
          /\ reserved' = reserved + writer[w].kind.span
          /\ UNCHANGED <<filled, records>>
      BY Zenon, <1>5, <2>2 DEF Swap
    <3>2. Shape'
      <4> DEFINE to == [writer[w] EXCEPT !.pc = "claimed", !.base = reserved, !.seen = 0]
      <4>1. to \in Places
        BY Zenon, <1>0 DEF ClaimInv, Shape, Places
      <4>2. writer' = [writer EXCEPT ![w] = to]
        BY Zenon, <3>1
      <4> QED BY <1>0, <3>1, <4>1, <4>2 DEF ClaimInv, Shape
    <3>3. \A v \in Writers : v # w => writer'[v] = writer[v]
      BY Zenon, <3>1 DEF ClaimInv, Shape, Places
    <3>4. writer'[w].pc = "claimed" /\ writer'[w].base = reserved /\ writer'[w].kind = writer[w].kind
      BY Zenon, <1>0, <3>1 DEF ClaimInv, Shape, Places
    <3>9. reserved \in Nat /\ writer[w].kind.span \in Nat
      BY Zenon, <1>0 DEF ClaimInv, Shape
    <3>5. BelowHead'
      <4>1. \A v \in Writers : Holding(v) => writer[v].base + writer[v].kind.span <= reserved'
        <5>1. \A v \in Writers : Holding(v) => writer[v].base + writer[v].kind.span <= reserved
          BY Zenon DEF ClaimInv, BelowHead
        <5>2. \A v \in Writers : writer[v].base \in Nat /\ writer[v].kind.span \in Nat
          BY <1>0 DEF Places
        <5> QED BY <3>1, <3>9, <5>1, <5>2
      <4>2. \A r \in records : r.base + r.span <= reserved'
        <5>1. \A r \in records : r.base + r.span <= reserved /\ r.base \in Nat /\ r.span \in Nat
          BY DEF ClaimInv, BelowHead, Shape
        <5> QED BY <3>1, <3>9, <5>1
      <4>3. writer'[w].base + writer'[w].kind.span <= reserved'
        BY <3>1, <3>4, <3>9
      <4>4. \A v \in Writers : v # w => (Holding(v)' <=> Holding(v))
        BY Zenon, <3>3 DEF Holding
      <4>5. \A v \in Writers : Holding(v)' => writer'[v].base + writer'[v].kind.span <= reserved'
        BY Zenon, <3>3, <4>1, <4>3, <4>4
      <4> QED BY Zenon, <3>1, <4>2, <4>5 DEF BelowHead
    <3>6. HeadInZeros'
      <4> SUFFICES ASSUME filled < Target
                   PROVE  /\ reserved' <= filled
                          /\ \A v \in Writers : writer'[v].pc = "swap" => writer'[v].seen + writer'[v].kind.span <= filled
        BY Zenon, <3>1 DEF HeadInZeros
      <4>1. \A v \in Writers : writer[v].pc = "swap" => writer[v].seen + writer[v].kind.span <= filled
        BY Zenon DEF ClaimInv, HeadInZeros
      <4>2. writer[w].pc = "swap"
        BY Zenon, <1>5 DEF Swap
      <4>3. reserved' <= filled
        BY Zenon, <2>2, <3>1, <4>1, <4>2
      <4> QED BY Zenon, <3>3, <3>4, <4>1, <4>3
    <3>7. FillerAlone'
      <4>1. \A v \in Writers : writer'[v].pc = "fill" => v # w /\ writer'[v] = writer[v]
        BY Zenon, <3>3, <3>4
      <4> QED BY Zenon, <3>1, <4>1 DEF ClaimInv, FillerAlone
    <3>8. ClaimsApart'
      <4>1. Claimed(w)'.base = reserved
        BY Zenon, <3>4 DEF Claimed
      <4>2. \A v \in Writers : v # w => (Holding(v)' <=> Holding(v)) /\ Claimed(v)' = Claimed(v)
        BY Zenon, <3>3 DEF Holding, Claimed
      <4>3. \A v \in Writers : v # w /\ Holding(v) => Apart(Claimed(v), Claimed(w)') /\ Apart(Claimed(w)', Claimed(v))
        <5>1. \A v \in Writers : Holding(v) => Claimed(v).base + Claimed(v).span <= reserved
          BY Zenon DEF ClaimInv, BelowHead, Claimed
        <5> QED BY Zenon, <4>1, <5>1 DEF Apart
      <4>4. \A r \in records : Apart(Claimed(w)', r)
        BY Zenon, <4>1 DEF ClaimInv, BelowHead, Apart
      <4>5. \A u, v \in Writers : u # v /\ Holding(u)' /\ Holding(v)' => Apart(Claimed(u)', Claimed(v)')
        BY Zenon, <4>2, <4>3 DEF ClaimInv, ClaimsApart
      <4>6. \A v \in Writers, r \in records : Holding(v)' => Apart(Claimed(v)', r)
        BY Zenon, <4>2, <4>4 DEF ClaimInv, ClaimsApart
      <4>7. \A u, v \in Writers : u # v /\ Holding(u)' /\ Holding(v)' => Apart(Claimed(u), Claimed(v))'
        BY Zenon, <4>5 DEF Apart
      <4>8. \A v \in Writers, r \in records : Holding(v)' => Apart(Claimed(v), r)'
        BY Zenon, <4>6 DEF Apart
      <4> QED BY Zenon, <3>1, <4>7, <4>8 DEF ClaimInv, ClaimsApart, Apart
    <3> QED BY Zenon, <3>2, <3>5, <3>6, <3>7, <3>8 DEF ClaimInv
  <2> QED BY Zenon, <2>1, <2>2
<1>6. ASSUME NEW w \in Writers, Check(w) PROVE ClaimInv'
  <2>1. CASE ~ Fits(w)
    BY Zenon, <1>0, <1>6, <2>1, QuietStep, IdleShape DEF Check
  <2>2. CASE Fits(w)
    <3>1. writer' = [writer EXCEPT ![w].pc = "write"] /\ UNCHANGED <<reserved, filled, records>>
      BY Zenon, <1>6, <2>2 DEF Check
    <3>2. Shape'
      <4> DEFINE to == [writer[w] EXCEPT !.pc = "write"]
      <4>1. to \in Places
        BY Zenon, <1>0 DEF ClaimInv, Shape, Places
      <4>2. writer' = [writer EXCEPT ![w] = to]
        BY Zenon, <3>1
      <4> QED BY Zenon, <1>0, <3>1, <4>1, <4>2 DEF ClaimInv, Shape
    <3>3. \A v \in Writers : v # w => writer'[v] = writer[v]
      BY Zenon, <3>1 DEF ClaimInv, Shape, Places
    <3>4. /\ writer[w].pc = "claimed" /\ writer'[w].pc = "write"
          /\ writer'[w].base = writer[w].base /\ writer'[w].kind = writer[w].kind
      BY Zenon, <1>0, <1>6, <3>1 DEF Check, ClaimInv, Shape, Places
    <3>5. BelowHead' /\ HeadInZeros' /\ FillerAlone'
      <4>1. BelowHead'
        BY ZenonT(60), <3>1, <3>3, <3>4 DEF ClaimInv, BelowHead, Holding
      <4>2. HeadInZeros'
        BY ZenonT(60), <3>1, <3>3, <3>4 DEF ClaimInv, HeadInZeros
      <4>3. FillerAlone'
        <5>1. \A v \in Writers : writer'[v].pc = "fill" => v # w /\ writer'[v] = writer[v]
          BY Zenon, <3>3, <3>4, <1>6 DEF Check
        <5> QED BY Zenon, <3>1, <5>1 DEF ClaimInv, FillerAlone
      <4> QED BY Zenon, <4>1, <4>2, <4>3
    <3>6. ClaimsApart'
      <4>1. \A v \in Writers : (Holding(v)' <=> Holding(v)) /\ Claimed(v)' = Claimed(v)
        BY Zenon, <3>3, <3>4 DEF Holding, Claimed
      <4> QED BY ZenonT(60), <3>1, <4>1 DEF ClaimInv, ClaimsApart, Apart
    <3> QED BY Zenon, <3>2, <3>5, <3>6 DEF ClaimInv
  <2> QED BY Zenon, <2>1, <2>2
<1>7. ASSUME NEW w \in Writers, Write(w) PROVE ClaimInv'
  <2>1. writer[w].pc = "write" /\ writer' = [writer EXCEPT ![w] = Idle] /\ UNCHANGED <<reserved, filled>>
    BY Zenon, <1>7 DEF Write
  <2>2. records' = records \cup {Claimed(w)} \/ records' = records
    BY Zenon, <1>7 DEF Write, Claimed
  <2>3. Shape'
    BY <1>0, <2>1, <2>2, IdleShape DEF ClaimInv, Shape, Places, Claimed
  <2>4. \A v \in Writers : v # w => writer'[v] = writer[v]
    BY Zenon, <2>1 DEF ClaimInv, Shape, Places
  <2>5. writer'[w].pc = "idle"
    BY Zenon, <2>1 DEF ClaimInv, Shape, Places, Idle
  <2>6. BelowHead'
    BY <2>1, <2>2, <2>4, <2>5 DEF ClaimInv, BelowHead, Holding, Claimed
  <2>7. HeadInZeros' /\ FillerAlone'
    BY <2>1, <2>4, <2>5 DEF ClaimInv, HeadInZeros, FillerAlone
  <2>8. ClaimsApart'
    <3>1. Holding(w) /\ ~ Holding(w)'
      BY Zenon, <2>1, <2>5 DEF Holding
    <3>2. \A v \in Writers : Holding(v)' => v # w /\ Holding(v) /\ Claimed(v)' = Claimed(v)
      BY Zenon, <2>4, <3>1 DEF Holding, Claimed
    <3>3. \A u, v \in Writers : u # v /\ Holding(u)' /\ Holding(v)' => Apart(Claimed(u), Claimed(v))'
      BY Zenon, <3>2 DEF ClaimInv, ClaimsApart, Apart
    <3>4. \A v \in Writers, r \in records' : Holding(v)' => Apart(Claimed(v), r)'
      BY ZenonT(60), <2>2, <3>1, <3>2 DEF ClaimInv, ClaimsApart, Apart
    <3>5. \A r \in records : Apart(Claimed(w), r) /\ Apart(r, Claimed(w))
      BY Zenon, <3>1 DEF ClaimInv, ClaimsApart, Apart
    <3>6. \A r, t \in records' : r = t \/ Apart(r, t)
      BY ZenonT(60), <2>2, <3>5 DEF ClaimInv, ClaimsApart
    <3> QED BY Zenon, <3>3, <3>4, <3>6 DEF ClaimsApart, Apart
  <2> QED BY Zenon, <2>3, <2>6, <2>7, <2>8 DEF ClaimInv
<1>8. CASE RowsTake \/ RowsDown \/ RowsBack \/ RowsLost \/ UNCHANGED vars
  <2>1. UNCHANGED <<reserved, filled, records, writer>>
    BY Zenon, <1>8 DEF RowsTake, RowsDown, RowsBack, RowsLost, vars
  <2> QED BY Zenon, <2>1 DEF ClaimInv, Shape, Places, BelowHead, HeadInZeros, FillerAlone, ClaimsApart, Holding, Claimed
<1>9. CASE Roll
  <2>1. \A w \in Writers : writer'[w].pc \in {"idle", "look"}
    BY Zenon, <1>0, <1>9, IdleShape DEF Roll, IsFree, ClaimInv, Shape, Places
  <2>2. Shape'
    BY ZenonT(60), <1>0, <1>9, IdleShape, OpenWindowHolds DEF Roll, ClaimInv, Shape, Places
  <2>3. BelowHead' /\ FillerAlone' /\ ClaimsApart'
    BY ZenonT(60), <1>9, <2>1 DEF Roll, BelowHead, FillerAlone, ClaimsApart, Holding
  <2>4. HeadInZeros'
    BY Zenon, <1>9, <2>1, OpenWindowHolds DEF Roll, HeadInZeros
  <2> QED BY Zenon, <2>2, <2>3, <2>4 DEF ClaimInv
<1> QED BY Zenon, <1>1, <1>2, <1>3, <1>4, <1>5, <1>6, <1>7, <1>8, <1>9 DEF Next

\* The invariant holds throughout.
THEOREM ClaimInvariant == Spec => []ClaimInv
BY ClaimInit, ClaimStep, PTL DEF Spec

\* No two claims of a segment overlap, however claim_filled's loops interleave.
THEOREM ClaimsNeverOverlap == Spec => []ClaimsApart
<1>1. ClaimInv => ClaimsApart
  BY Zenon DEF ClaimInv
<1> QED BY ClaimInvariant, <1>1, PTL

\* The window claim_filled zeroes never holds a claimed or a written byte.
THEOREM ZerosNeverOnRecords == Spec => []ZerosMissRecords
<1>1. ClaimInv => ZerosMissRecords
  <2> SUFFICES ASSUME ClaimInv, NEW w \in Writers, writer[w].pc = "fill"
               PROVE  /\ \A v \in Writers : Holding(v) => writer[v].base + writer[v].kind.span <= writer[w].from
                      /\ \A r \in records : r.base + r.span <= writer[w].from
    BY Zenon DEF ZerosMissRecords
  <2>1. reserved <= writer[w].from
    BY Zenon DEF ClaimInv, FillerAlone, HeadInZeros
  <2> QED BY <2>1, KindsAssumption, SizesAssumption DEF ClaimInv, Shape, Places, BelowHead
<1> QED BY ClaimInvariant, <1>1, PTL

-----------------------------------------------------------------------------
(* The journal's length.                                                    *)

\* The journal's counters are whole numbers and add up.
JournalInv ==
  /\ pushed \in Nat /\ pending \in Nat /\ taken \in Nat /\ written \in Nat
  /\ lost \in BOOLEAN /\ RowsAddUp

\* A multiple of a block added to another is one again.
LEMMA BlocksLeaveNothing ==
  ASSUME NEW x \in Int, NEW m \in Int, NEW k \in Nat \ {0}, x % k = 0
  PROVE  (x + m * k) % k = 0
<1>1. x = (x \div k) * k /\ x \div k \in Int
  BY SMT
<1>2. PICK q \in Int : x = q * k
  BY Zenon, <1>1
<1>3. x + m * k = (q + m) * k
  BY <1>2, SMT
<1>4. \A y, j \in Int : y = j * k => y % k = 0
  BY SMT
<1> QED BY <1>2, <1>3, <1>4

\* No step of the journal, a failed write among them, makes the counters differ.
LEMMA JournalStep == ClaimInv /\ JournalInv /\ [Next]_vars => JournalInv'
<1> SUFFICES ASSUME ClaimInv, JournalInv, [Next]_vars PROVE JournalInv'
  BY Zenon
<1>0. AlignUp(0, Pad) = 0 /\ Pad \in Nat \ {0}
  BY SizesAssumption DEF AlignUp
<1>1. /\ pushed \in Nat /\ pending \in Nat /\ taken \in Nat /\ written \in Nat
      /\ AlignUp(taken, Pad) \in Nat /\ AlignUp(pending, Pad) \in Nat
      /\ AlignUp(taken, Pad) >= taken /\ AlignUp(pending, Pad) >= pending
  BY Zenon, <1>0, AlignUpReaches DEF JournalInv
<1>2. /\ lost \in BOOLEAN /\ written % Pad = 0
      /\ pushed >= written + AlignUp(taken, Pad) + pending
      /\ ~ lost => pushed = written + AlignUp(taken, Pad) + pending
  BY <1>1 DEF JournalInv, RowsAddUp
<1>3. ASSUME pushed' \in Nat, pending' \in Nat, taken' \in Nat, written' \in Nat,
             lost' \in BOOLEAN, written' % Pad = 0,
             pushed' >= written' + AlignUp(taken', Pad) + pending',
             ~ lost' => pushed' = written' + AlignUp(taken', Pad) + pending'
      PROVE  JournalInv'
  BY Zenon, <1>3 DEF JournalInv, RowsAddUp
<1>4. ASSUME UNCHANGED <<pushed, pending, taken, written, lost>> PROVE JournalInv'
  BY Zenon, <1>4 DEF JournalInv, RowsAddUp
<1>5. ASSUME NEW w \in Writers, Write(w) PROVE JournalInv'
  <2>1. CASE UNCHANGED <<pushed, pending>>
    BY Zenon, <1>4, <1>5, <2>1 DEF Write
  <2>2. CASE pushed' # pushed \/ pending' # pending
    <3>1. PICK n \in {writer[w].kind.row} : /\ pushed' = pushed + n /\ pending' = pending + n
                                           /\ UNCHANGED <<taken, written, lost>>
      BY Zenon, <1>5, <2>2 DEF Write
    <3>2. n \in Nat
      BY <3>1, KindsAssumption DEF ClaimInv, Shape, Places
    <3> QED BY <1>1, <1>2, <1>3, <3>1, <3>2
  <2> QED BY Zenon, <2>1, <2>2
<1>6. CASE RowsTake
  <2>1. /\ taken = 0 /\ taken' = pending /\ pending' = 0 /\ UNCHANGED <<written, lost>>
        /\ pushed' = pushed + (AlignUp(pending, Pad) - pending)
    BY Zenon, <1>6 DEF RowsTake, Padding
  <2> QED BY <1>0, <1>1, <1>2, <1>3, <2>1
<1>7. CASE RowsDown
  <2>1. taken' = 0 /\ written' = written + AlignUp(taken, Pad) /\ UNCHANGED <<pushed, pending, lost>>
    BY Zenon, <1>7 DEF RowsDown
  <2>2. PICK m \in Int : AlignUp(taken, Pad) = m * Pad
    BY <1>0, <1>1 DEF AlignUp
  <2>3. (written + m * Pad) % Pad = 0
    BY <1>0, <1>1, <1>2, BlocksLeaveNothing
  <2>4. written' % Pad = 0
    BY Zenon, <2>1, <2>2, <2>3
  <2> QED BY <1>0, <1>1, <1>2, <1>3, <2>1, <2>4
<1>8. CASE RowsBack
  <2>1. /\ taken' = 0 /\ pending' = taken + pending /\ UNCHANGED <<written, lost>>
        /\ pushed' = pushed - (AlignUp(taken, Pad) - taken)
    BY Zenon, <1>8 DEF RowsBack, Padding
  <2> QED BY <1>0, <1>1, <1>2, <1>3, <2>1
<1>9. CASE RowsLost
  <2>1. taken' = 0 /\ lost' = TRUE /\ UNCHANGED <<pushed, pending, written>>
    BY Zenon, <1>9 DEF RowsLost
  <2> QED BY <1>0, <1>1, <1>2, <1>3, <2>1
<1>10. CASE Roll
  <2>1. pushed' = 0 /\ pending' = 0 /\ taken' = 0 /\ written' = 0 /\ lost' = FALSE
    BY ZenonT(60), <1>10 DEF Roll
  <2>2. 0 % Pad = 0 /\ 0 \in Nat /\ 0 = 0 + 0 + 0 /\ 0 >= 0
    BY <1>0
  <2>3. written' % Pad = 0 /\ pushed' = written' + AlignUp(taken', Pad) + pending'
    BY Zenon, <1>0, <2>1, <2>2
  <2>4. pushed' >= written' + AlignUp(taken', Pad) + pending'
    BY Zenon, <1>0, <2>1, <2>2
  <2> QED BY Zenon, <1>3, <2>1, <2>2, <2>3, <2>4
<1>11. ASSUME NEW w \in Writers, Start(w) \/ Look(w) \/ FillStart(w) \/ FillEnd(w) \/ Swap(w) \/ Check(w)
      PROVE  JournalInv'
  BY Zenon, <1>4, <1>11 DEF Start, Look, FillStart, FillEnd, Swap, Check
<1> QED BY Zenon, <1>4, <1>5, <1>6, <1>7, <1>8, <1>9, <1>10, <1>11 DEF Next, vars

\* The room the journal takes is that of its rows, padded once, and every journal
\* write starts on a block, whatever the rows' sizes and however often one fails.
THEOREM RowsAlwaysAddUp == Spec => []RowsAddUp
<1>1. Init => JournalInv
  <2>1. AlignUp(0, Pad) = 0 /\ 0 % Pad = 0 /\ 0 \in Nat /\ 0 = 0 + 0 + 0
    BY SizesAssumption DEF AlignUp
  <2> QED BY Zenon, <2>1 DEF Init, JournalInv, RowsAddUp
<1>2. JournalInv => RowsAddUp
  BY Zenon DEF JournalInv
<1> QED BY <1>1, <1>2, JournalStep, ClaimInvariant, PTL DEF Spec
=============================================================================
