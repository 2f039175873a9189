--------------------------- MODULE TimeSeriesProofs ---------------------------
(***************************************************************************)
(* Proofs about TimeSeries for any capacity, keys, distances and bounds.     *)
(***************************************************************************)
EXTENDS TimeSeries, SeqArith, TLAPS

USE TimeSeriesAssumption

-----------------------------------------------------------------------------
(* The inductive invariant.                                                 *)

Increasing == \A e, f \in 1 .. MaxInserts : e < f => key[e] < key[f]

Base ==
  /\ key \in [1 .. MaxInserts -> Keys] /\ Increasing
  /\ total \in 0 .. MaxInserts /\ w \in {"idle", "busy", "written"}
  /\ w # "idle" => total < MaxInserts
  /\ pc \in Points \cup {"idle", "done"}
  /\ op \in {"closest", "safe", "pair", "fresh", "latest"}
  /\ target \in Keys /\ maxd \in Nat \cup {NoDistance}
  /\ t0 \in 0 .. total /\ seen \in 0 .. MaxInserts
  /\ quiet /\ pc # "idle" => w = "idle" /\ total = t0
  /\ op = "safe" /\ pc # "idle" =>
       seen # None /\ Diff(seen) <= Tolerance /\ maxd = NoDistance

Locals == [lo : Nat, hi : Nat, i : Nat, maxd : Nat \cup {NoDistance},
           best : 0 .. MaxInserts, newer : 0 .. MaxInserts, older : 0 .. MaxInserts]

\* What a call may return: no older than the elements available when it began,
\* and no newer than the one being inserted.
Good(e) == e \in 1 .. MaxInserts /\ e >= t0 - N + 1 /\ e <= total + 1

GoodOrNone(e) == e = None \/ Good(e)

\* The locals of a call at p, whatever the writer does.
Place(p, l) ==
  /\ GoodOrNone(l.best) /\ GoodOrNone(l.newer) /\ GoodOrNone(l.older)
  /\ p \in {"mid", "best", "prev", "next", "scan"} <=> op \in {"closest", "safe"}
  /\ p = "fresh" <=> op = "fresh"
  /\ p = "latest" <=> op = "latest"
  /\ p = "mid" => l.lo < l.hi /\ l.hi < avail
  /\ p \in {"best", "prev", "next"} => l.lo < avail
  /\ p = "prev" => l.lo > 0
  /\ p = "next" => l.lo + 1 < avail
  /\ p \in {"prev", "next"} => l.best # None
  /\ p \in {"scan", "pairscan"} => l.i < avail
  /\ p \in {"newest", "oldest"} => l.lo = 0 /\ l.hi = avail - 1 /\ avail >= 2
  /\ p = "pairmid" => l.lo + 1 < l.hi /\ l.hi < avail
  /\ p \in {"after", "before"} => l.hi = l.lo + 1 /\ l.hi < avail

\* The newest j elements have keys above the target, all but the newest j keys
\* below it.
Above(j) == \A e \in Window : e > total - j => key[e] > target
Below(j) == \A e \in Window : e <= total - j => key[e] < target

\* The locals of a call at p during which no insert() has run.
Exact(p, l) ==
  /\ p \in {"mid", "best", "prev", "next"} => l.maxd = maxd /\ Above(l.lo)
  /\ p = "mid" => Below(l.hi + 1)
  /\ p \in {"best", "prev", "next"} => Below(l.lo + 1)
  /\ p = "prev" => l.best = total - l.lo
  /\ p = "next" => /\ l.best \in Window
                   /\ \A f \in Window : f >= total - l.lo => Diff(l.best) <= Diff(f)
  /\ p \notin {"scan", "pairscan"}
  /\ p = "oldest" => l.newer = total
  /\ p \in {"pairmid", "after", "before"} =>
       key[total - l.hi] <= target /\ target < key[total - l.lo]
  /\ p = "before" => l.newer = total - l.lo

CallInv ==
  /\ pc \in Points =>
       /\ avail = (IF t0 < N THEN t0 ELSE N) /\ avail >= 1
       /\ loc \in Locals /\ Place(pc, loc)
       /\ quiet => Exact(pc, loc)
       /\ result = Nothing
  /\ pc = "idle" => result = Nothing
  /\ want \in 0 .. total
  /\ want # 0 => /\ pc \in Points /\ want >= t0 - Index
                 /\ quiet => want = total - Index

\* What a call may return, whatever the writer does ...
Answer(res) ==
  \/ res = Nothing
  \/ \E e \in 1 .. MaxInserts : /\ res = Just(e) /\ Good(e)
                                /\ op \in {"fresh", "latest"} => e >= t0
  \/ /\ op = "pair"
     /\ \E b, a \in 1 .. MaxInserts : \E alpha \in Keys \X Keys :
          Good(b) /\ Good(a) /\ res = [elems |-> <<b, a>>, alpha |-> alpha]

Nearest(e) == e \in Window /\ \A f \in Window : Diff(e) <= Diff(f)

\* ... and when no insert() has run.
ExactAnswer(res) ==
  /\ op \in {"closest", "safe"} =>
       \/ Window = {} /\ res = Nothing
       \/ \E e \in Window : Nearest(e) /\ res = Filtered(e, maxd)
  /\ op = "pair" =>
       IF Available < 2 \/ target > key[total] \/ target < key[total - Available + 1]
       THEN res = Nothing
       ELSE \E b \in Window :
              \/ key[b] = target /\ res.alpha[1] = 0
                 /\ res.elems \in {<<b, b>>, <<b, b + 1>>}
              \/ /\ key[b] < target /\ b + 1 \in Window /\ target < key[b + 1]
                 /\ res = Pair(b, b + 1, target - key[b], key[b + 1] - key[b])

ResultInv ==
  pc = "done" => Answer(result) /\ (quiet => ExactAnswer(result))

SeriesInv == Base /\ CallInv /\ ResultInv

-----------------------------------------------------------------------------
(* Indices and elements.                                                    *)

\* A remainder is no more than the number, and is the number if it is small.
LEMMA ModBound ==
  ASSUME NEW m \in Nat, m > 0, NEW x \in Nat
  PROVE  x % m \in 0 .. x /\ x % m < m /\ (x < m => x % m = x)
<1>1. x = m * (x \div m) + (x % m) /\ x \div m \in Int /\ x % m \in Int
  BY DivMod
<1>2. x % m \in 0 .. (m - 1) OBVIOUS
<1>3. x \div m >= 0 OBVIOUS
<1>4. m * (x \div m) >= 0 BY <1>1, <1>3
<1>5. x < m => x % m = x OBVIOUS
<1> QED BY <1>1, <1>2, <1>4, <1>5

\* The middle of an interval.
LEMMA MidRange ==
  ASSUME loc \in Locals, loc.lo < loc.hi
  PROVE  /\ Mid \in Nat /\ loc.lo <= Mid /\ Mid < loc.hi
         /\ loc.lo + 1 < loc.hi => loc.lo < Mid
<1>1. loc.lo \in Nat /\ loc.hi \in Nat BY DEF Locals
<1> QED BY <1>1 DEF Mid

\* Every index is that of an element available when the call began.
LEMMA IndexRange ==
  ASSUME SeriesInv, pc \in Points
  PROVE  /\ Index \in 0 .. avail - 1 /\ avail \in Nat
         /\ avail <= t0 /\ avail <= N /\ t0 <= total /\ total \in Nat /\ t0 \in Nat
<1>1. /\ avail = (IF t0 < N THEN t0 ELSE N) /\ avail >= 1
      /\ loc \in Locals /\ Place(pc, loc)
      /\ t0 \in 0 .. total /\ total \in 0 .. MaxInserts
  BY DEF SeriesInv, CallInv, Base
<1>2. loc.lo \in Nat /\ loc.hi \in Nat /\ loc.i \in Nat /\ avail \in Nat
  BY <1>1 DEF Locals
<1>3. CASE pc \in {"mid", "pairmid"}
  BY <1>1, <1>2, <1>3, MidRange DEF Place, Index
<1>4. CASE pc \in {"best", "prev", "next", "scan"}
  BY <1>1, <1>2, <1>4 DEF Place, Index
<1>5. CASE pc \in {"newest", "oldest", "fresh", "latest"}
  BY <1>1, <1>2, <1>5 DEF Place, Index
<1>6. CASE pc \in {"after", "before", "pairscan"}
  BY <1>1, <1>2, <1>6 DEF Place, Index
<1> QED BY <1>1, <1>2, <1>3, <1>4, <1>5, <1>6 DEF Points

\* A try_get returns an element between the one it wants and the one being
\* inserted; when no insert() has run, the one it wants.
LEMMA GotRange ==
  ASSUME SeriesInv, NEW p \in Points, NEW e \in 0 .. MaxInserts, Got(p, e)
  PROVE  /\ GoodOrNone(e)
         /\ e # None => e >= t0 - Index
         /\ quiet => e = total - Index /\ e \in Window /\ Good(e)
<1>0. pc = p /\ want # 0 /\ e \in TryGet(want) BY DEF Got
<1>1. /\ Index \in 0 .. avail - 1 /\ avail \in Nat
      /\ avail <= t0 /\ avail <= N /\ t0 <= total /\ total \in Nat /\ t0 \in Nat
  BY <1>0, IndexRange
<1>2. /\ want \in 1 .. total /\ want >= t0 - Index /\ (quiet => want = total - Index)
  BY <1>0 DEF SeriesInv, CallInv
<1>3. Finished \in {total, total + 1} BY DEF Finished
<1>4. Content(want) >= want /\ Content(want) <= total + 1 /\ Content(want) \in Nat
  <2>1. Finished - want \in Nat BY <1>1, <1>2, <1>3
  <2>2. (Finished - want) % N \in 0 .. (Finished - want) BY <2>1, ModBound
  <2> QED BY <1>1, <1>2, <1>3, <2>2 DEF Content
<1>5. e # None => e = Content(want) BY <1>0 DEF TryGet
<1>6. CASE ~quiet
  <2>1. e # None => e >= want /\ e <= total + 1 BY <1>4, <1>5
  <2> QED BY <1>1, <1>2, <1>6, <2>1 DEF GoodOrNone, Good, None
<1>7. CASE quiet
  <2>1. w = "idle" /\ total = t0
    BY <1>0, <1>7 DEF SeriesInv, Base, Points
  <2>2. want = total - Index BY <1>2, <1>7
  <2>3. ~(total >= want + N) BY <1>1, <2>2
  <2>4. e # None BY <1>0, <1>2, <1>4, <2>1, <2>3 DEF TryGet, Begun, None
  <2>5. total - want \in Nat /\ total - want < N BY <1>1, <2>2
  <2>6. (total - want) % N = total - want BY <2>5, ModBound
  <2>7. Content(want) = want BY <1>1, <1>2, <2>1, <2>6 DEF Content, Finished
  <2>8. e = total - Index BY <1>5, <2>2, <2>4, <2>7
  <2>9. avail = Available BY <1>0, <2>1 DEF SeriesInv, CallInv, Available
  <2>10. e \in Window BY <1>1, <2>8, <2>9 DEF Window
  <2>11. Good(e) BY <1>1, <2>1, <2>8 DEF Good, None
  <2> QED BY <2>1, <2>8, <2>10, <2>11 DEF GoodOrNone
<1> QED BY <1>6, <1>7

-----------------------------------------------------------------------------
(* The steps every search is made of.                                       *)

\* Only "done" and "idle" are outside a call.
LEMMA Outside ==
  ASSUME SeriesInv, pc \notin Points
  PROVE  pc \in {"idle", "done"} /\ want = 0
BY DEF SeriesInv, Base, CallInv

\* The call goes on at p with locals l.
LEMMA AtKeeps ==
  ASSUME SeriesInv, pc \in Points, NEW p \in Points, NEW l \in Locals, At(p, l),
         Place(p, l), quiet => Exact(p, l)
  PROVE  SeriesInv'
<1>0. /\ pc' = p /\ loc' = l /\ want' = 0
      /\ UNCHANGED <<key, total, w, op, target, maxd, avail, result, seen, t0, quiet>>
  BY DEF At, wvars, args, hist
<1>1. p # "idle" /\ p # "done" /\ pc # "idle" /\ pc # "done" BY DEF Points
<1>2. Base'
  BY <1>0, <1>1 DEF SeriesInv, Base, Increasing, Diff
<1>3. Place(p, l)' BY <1>0 DEF Place, GoodOrNone, Good
<1>4. quiet => Exact(p, l)'
  BY <1>0 DEF Exact, Above, Below, Window, Available, Diff
<1>5. CallInv'
  BY <1>0, <1>1, <1>3, <1>4 DEF SeriesInv, Base, CallInv
<1>6. ResultInv' BY <1>0, <1>1 DEF ResultInv
<1> QED BY <1>2, <1>5, <1>6 DEF SeriesInv

\* The call returns res.
LEMMA ReturnKeeps ==
  ASSUME SeriesInv, pc \in Points, NEW res, Return(res),
         Answer(res), quiet => ExactAnswer(res)
  PROVE  SeriesInv'
<1>0. /\ pc' = "done" /\ result' = res /\ want' = 0
      /\ UNCHANGED <<key, total, w, op, target, maxd, seen, t0, quiet>>
  BY DEF Return, wvars, args, hist
<1>1. "done" \notin Points /\ pc # "idle" BY DEF Points
<1>2. Base'
  BY <1>0, <1>1 DEF SeriesInv, Base, Increasing, Diff
<1>3. CallInv' BY <1>0, <1>1 DEF SeriesInv, Base, CallInv
<1>4. Answer(res)' BY <1>0 DEF Answer, Good
<1>5. quiet => ExactAnswer(res)'
  BY <1>0 DEF ExactAnswer, Nearest, Window, Available, Diff, Filtered
<1> QED BY <1>0, <1>2, <1>3, <1>4, <1>5 DEF SeriesInv, ResultInv

\* A step of the writer: nothing is promised any more of a call under way but
\* what holds whatever the writer does.
LEMMA WriterKeeps ==
  ASSUME SeriesInv, WriterStep
  PROVE  SeriesInv'
<1>0. /\ quiet' = FALSE /\ total' \in {total, total + 1}
      /\ UNCHANGED <<key, pc, op, target, maxd, avail, loc, want, result, seen, t0>>
  BY DEF WriterStep, InsertOdd, InsertEven, Publish, WriterMoves, args, hist
<1>1. /\ total \in 0 .. MaxInserts /\ (w # "idle" => total < MaxInserts)
      /\ t0 \in 0 .. total /\ want \in 0 .. total
  BY DEF SeriesInv, Base, CallInv
<1>2. total' \in 0 .. MaxInserts /\ w' \in {"idle", "busy", "written"}
      /\ (w' # "idle" => total' < MaxInserts)
  BY <1>1 DEF WriterStep, InsertOdd, InsertEven, Publish, WriterMoves
<1>3. t0 \in 0 .. total' /\ want \in 0 .. total' BY <1>0, <1>1
<1>4. Base'
  BY <1>0, <1>2, <1>3 DEF SeriesInv, Base, Increasing, Diff
<1>5. \A e : Good(e) => Good(e)'
  <2> SUFFICES ASSUME NEW e \in 1 .. MaxInserts, e >= t0 - N + 1, e <= total + 1
               PROVE  e >= t0' - N + 1 /\ e <= total' + 1
    BY DEF Good
  <2>1. t0' = t0 /\ (total' = total \/ total' = total + 1) BY <1>0
  <2>2. e \in Nat /\ total \in Nat /\ t0 \in Nat /\ N \in Nat BY <1>1
  <2> QED BY <2>1, <2>2
<1>6. pc \in Points => Place(pc, loc)'
  BY <1>0, <1>5 DEF SeriesInv, CallInv, Place, GoodOrNone
<1>7. Index' = Index BY <1>0 DEF Index, Mid
<1>8. CallInv' BY <1>0, <1>3, <1>6, <1>7 DEF SeriesInv, CallInv
<1>9. pc = "done" => Answer(result)'
  BY <1>0, <1>5 DEF SeriesInv, ResultInv, Answer
<1> QED BY <1>0, <1>4, <1>8, <1>9 DEF SeriesInv, ResultInv

\* total_writes is loaded.
LEMMA LocateKeeps ==
  ASSUME SeriesInv, Locate
  PROVE  SeriesInv'
<1>0. /\ want' = total - Index
      /\ UNCHANGED <<key, total, w, pc, op, target, maxd, avail, loc, result, seen, t0, quiet>>
  BY DEF Locate, wvars, args, hist
<1>1. pc \in Points BY Outside DEF Locate
<1>2. /\ Index \in 0 .. avail - 1 /\ avail \in Nat
      /\ avail <= t0 /\ t0 <= total /\ total \in Nat /\ t0 \in Nat
  BY <1>1, IndexRange
<1>3. Index' = Index BY <1>0 DEF Index, Mid
<1>4. want' \in 1 .. total /\ want' >= t0 - Index BY <1>0, <1>2
<1>5. Base' BY <1>0 DEF SeriesInv, Base, Increasing, Diff
<1>6. Place(pc, loc)' /\ (quiet => Exact(pc, loc)')
  BY <1>0, <1>1 DEF SeriesInv, CallInv, Place, GoodOrNone, Good, Exact, Above, Below, Window,
                    Available, Diff
<1>7. CallInv' BY <1>0, <1>1, <1>3, <1>4, <1>6 DEF SeriesInv, CallInv
<1>8. pc # "done" BY <1>1 DEF Points
<1> QED BY <1>0, <1>5, <1>7, <1>8 DEF SeriesInv, ResultInv

\* The caller has used the result.
LEMMA FinishKeeps ==
  ASSUME SeriesInv, Finish
  PROVE  SeriesInv'
<1>0. /\ pc = "done" /\ pc' = "idle" /\ result' = Nothing /\ t0' = 0
      /\ op' = "closest" /\ target' = 0 /\ maxd' = NoDistance
      /\ seen' = IF op # "latest" \/ result = Nothing THEN None ELSE result.elems[1]
      /\ UNCHANGED <<key, total, w, want>>
  BY DEF Finish, wvars
<1>1. pc \notin Points /\ "idle" \notin Points BY <1>0 DEF Points
<1>2. want = 0 BY <1>1, Outside
<1>3. seen' \in 0 .. MaxInserts
  <2>1. CASE op = "latest" /\ result # Nothing
    <3>1. PICK e \in 1 .. MaxInserts : result = Just(e)
      BY <1>0, <2>1 DEF SeriesInv, ResultInv, Answer
    <3>2. result.elems[1] = e BY <3>1 DEF Just
    <3> QED BY <1>0, <2>1, <3>2
  <2>2. CASE ~(op = "latest" /\ result # Nothing) BY <1>0, <2>2 DEF None
  <2> QED BY <2>1, <2>2
<1>4. 0 \in Keys /\ 0 \in 0 .. total BY DEF Keys, SeriesInv, Base
<1>5. Base' BY <1>0, <1>3, <1>4 DEF SeriesInv, Base, Increasing
<1>6. CallInv' BY <1>0, <1>1, <1>2, <1>4 DEF CallInv
<1> QED BY <1>0, <1>5, <1>6 DEF SeriesInv, ResultInv

-----------------------------------------------------------------------------
(* Calls.                                                                   *)

\* A call begins: it loads total_writes and sets up its locals l at point p.
LEMMA CallKeeps ==
  ASSUME SeriesInv,
         NEW o \in {"closest", "safe", "pair", "fresh", "latest"}, NEW t \in Keys,
         NEW d \in Nat \cup {NoDistance}, NEW least \in {1, 2},
         NEW p \in Points, NEW l, Call(o, t, d, least, p, l),
         Available >= least => l \in Locals,
         least = 2 <=> o = "pair",
         l.best = None /\ l.newer = None /\ l.older = None /\ l.lo = 0,
         o \in {"closest", "safe"} =>
           l.maxd = d /\ l.hi = Available - 1 /\ p = LoopHead(l),
         o = "pair" => p = "newest" /\ l.hi = Available - 1,
         o \in {"fresh", "latest"} => p = o,
         o = "safe" =>
           /\ seen # None /\ d = NoDistance
           /\ (IF key[seen] > t THEN key[seen] - t ELSE t - key[seen]) <= Tolerance
  PROVE  SeriesInv'
<1>0. /\ pc = "idle" /\ op' = o /\ target' = t /\ maxd' = d
      /\ t0' = total /\ quiet' = (w = "idle")
      /\ seen' = IF o = "safe" THEN seen ELSE None
      /\ UNCHANGED <<key, total, w, want, result>>
  BY DEF Call, wvars
<1>1. \/ /\ Available < least /\ pc' = "done"
      \/ /\ Available >= least /\ pc' = p /\ avail' = Available /\ loc' = l
  BY DEF Call
<1>2. /\ total \in 0 .. MaxInserts /\ total \in Nat /\ Available \in 0 .. total
      /\ Available = (IF total < N THEN total ELSE N)
  BY DEF SeriesInv, Base, Available
<1>3. "idle" \notin Points /\ "done" \notin Points /\ want = 0 /\ result = Nothing
  <2>1. "idle" \notin Points /\ "done" \notin Points BY DEF Points
  <2> QED BY <1>0, <2>1, Outside DEF SeriesInv, CallInv
<1>4. Base'
  <2>1. seen' \in 0 .. MaxInserts BY <1>0 DEF SeriesInv, Base, None
  <2>2. o = "safe" => Diff(seen)' <= Tolerance BY <1>0 DEF Diff
  <2>3. pc' \in Points \cup {"idle", "done"} BY <1>1
  <2>4. quiet' => w = "idle" BY <1>0
  <2> QED BY <1>0, <1>2, <2>1, <2>2, <2>3, <2>4 DEF SeriesInv, Base, Increasing
<1>5. CASE Available < least /\ pc' = "done"
  <2>1. CallInv' BY <1>0, <1>3, <1>5, <1>2 DEF CallInv
  <2>2. Answer(result)' BY <1>0, <1>3 DEF Answer, Nothing
  <2>3. ExactAnswer(result)'
    <3>1. Available' = Available BY <1>0 DEF Available
    <3>2. o \in {"closest", "safe"} => Window' = {}
      BY <1>0, <1>2, <1>5, <3>1 DEF Window
    <3>3. result' = Nothing' BY <1>0, <1>3 DEF Nothing
    <3>4. o = "pair" => Available' < 2 BY <1>5, <3>1
    <3> QED BY <1>0, <3>2, <3>3, <3>4 DEF ExactAnswer
  <2> QED BY <1>4, <1>5, <2>1, <2>2, <2>3 DEF SeriesInv, ResultInv
<1>6. CASE Available >= least /\ pc' = p /\ avail' = Available /\ loc' = l
  <2>0. l \in Locals /\ l.lo \in Nat /\ l.hi \in Nat BY <1>6 DEF Locals
  <2>1. o \in {"closest", "safe"} =>
          /\ p \in {"mid", "best"} /\ (p = "mid" => 0 < l.hi)
          /\ (p = "best" => Available = 1)
    BY <1>2, <1>6, <2>0 DEF LoopHead
  <2>2. Place(p, l)'
    BY <1>0, <1>2, <1>6, <2>0, <2>1 DEF Place, GoodOrNone
  <2>3. Available' = Available /\ Window' = Window /\ Window = (total - Available) + 1 .. total
    BY <1>0 DEF Available, Window
  <2>4. o \in {"closest", "safe"} => Above(l.lo)' BY <1>0, <1>2, <2>3 DEF Above
  <2>5. o \in {"closest", "safe"} /\ p = "mid" => Below(l.hi + 1)'
    BY <1>0, <1>2, <2>0, <2>3 DEF Below
  <2>6. o \in {"closest", "safe"} /\ p = "best" => Below(l.lo + 1)'
    BY <1>0, <1>2, <2>1, <2>3 DEF Below
  <2>7. Exact(p, l)' BY <1>0, <2>1, <2>4, <2>5, <2>6 DEF Exact
  <2>8. result' = Nothing' BY <1>0, <1>3 DEF Nothing
  <2>9. CallInv'
    BY <1>0, <1>2, <1>3, <1>6, <2>0, <2>2, <2>7, <2>8 DEF CallInv
  <2>10. pc' # "done" BY <1>3, <1>6
  <2> QED BY <1>4, <2>9, <2>10 DEF SeriesInv, ResultInv
<1> QED BY <1>1, <1>5, <1>6

-----------------------------------------------------------------------------
(* Keys and differences.                                                    *)

\* The elements available have numbers, and keys in the order of their numbers.
LEMMA KeyOrder ==
  ASSUME SeriesInv
  PROVE  /\ Window \subseteq 1 .. MaxInserts /\ target \in Nat
         /\ \A e \in 1 .. MaxInserts : key[e] \in Nat
         /\ \A e, f \in 1 .. MaxInserts : e <= f => key[e] <= key[f]
<1>1. \A e \in 1 .. MaxInserts : key[e] \in Nat BY DEF SeriesInv, Base, Keys
<1>2. Increasing /\ target \in Nat BY DEF SeriesInv, Base, Keys
<1>3. Window \subseteq 1 .. MaxInserts
  <2>1. total \in 0 .. MaxInserts BY DEF SeriesInv, Base
  <2> QED BY <2>1 DEF Window, Available
<1>4. ASSUME NEW e \in 1 .. MaxInserts, NEW f \in 1 .. MaxInserts, e <= f
      PROVE  key[e] <= key[f]
  <2>1. CASE e = f BY <1>1, <2>1
  <2>2. CASE e < f BY <1>1, <1>2, <2>2 DEF Increasing
  <2> QED BY <1>4, <2>1, <2>2
<1> QED BY <1>1, <1>2, <1>3, <1>4

\* Above the target older elements are closer, below it newer ones.
LEMMA DiffOrder ==
  ASSUME SeriesInv, NEW e \in 1 .. MaxInserts, NEW f \in 1 .. MaxInserts
  PROVE  /\ Diff(e) \in Nat
         /\ key[e] = target => Diff(e) = 0
         /\ e <= f /\ key[e] >= target => Diff(e) <= Diff(f)
         /\ e <= f /\ key[f] <= target => Diff(f) <= Diff(e)
<1>1. /\ key[e] \in Nat /\ key[f] \in Nat /\ target \in Nat
      /\ (e <= f => key[e] <= key[f])
  BY KeyOrder
<1> QED BY <1>1 DEF Diff

\* The filter returns an element it was given, or nothing.
LEMMA FilteredAnswer ==
  ASSUME op \in {"closest", "safe"}, NEW b, GoodOrNone(b), NEW d
  PROVE  Answer(Filtered(b, d))
<1>1. CASE Filtered(b, d) = Nothing BY <1>1 DEF Answer
<1>2. CASE Filtered(b, d) # Nothing
  <2>1. Filtered(b, d) = Just(b) /\ b # None BY <1>2 DEF Filtered
  <2>2. Good(b) BY <2>1 DEF GoodOrNone
  <2> QED BY <2>1, <2>2 DEF Answer, Good
<1> QED BY <1>1, <1>2

\* An element as near as any other one is an exact answer of find_closest().
LEMMA NearestAnswer ==
  ASSUME op \in {"closest", "safe"}, NEW b \in Window,
         \A f \in Window : Diff(b) <= Diff(f)
  PROVE  ExactAnswer(Filtered(b, maxd))
BY DEF ExactAnswer, Nearest

\* What is known at a try_get of find_closest() that has returned e.
LEMMA ClosestStep ==
  ASSUME SeriesInv, NEW p \in {"mid", "best", "prev", "next", "scan"},
         NEW e \in 0 .. MaxInserts, Got(p, e)
  PROVE  /\ pc = p /\ pc \in Points /\ op \in {"closest", "safe"}
         /\ loc \in Locals /\ Place(p, loc) /\ GoodOrNone(e)
         /\ loc.lo \in Nat /\ loc.hi \in Nat /\ avail \in Nat /\ avail >= 1
         /\ quiet => /\ Exact(p, loc) /\ e = total - Index /\ e \in Window /\ e # None
                     /\ avail = Available /\ total = t0 /\ total \in Nat /\ e \in 1 .. MaxInserts
<1>1. pc = p /\ p \in Points BY DEF Got, Points
<1>2. /\ loc \in Locals /\ Place(p, loc) /\ (quiet => Exact(p, loc))
      /\ avail = (IF t0 < N THEN t0 ELSE N) /\ avail >= 1
  BY <1>1 DEF SeriesInv, CallInv
<1>3. op \in {"closest", "safe"} BY <1>2 DEF Place
<1>4. GoodOrNone(e) /\ (quiet => e = total - Index /\ e \in Window /\ Good(e))
  BY <1>1, GotRange
<1>5. quiet => total = t0 BY <1>1 DEF SeriesInv, Base, Points
<1>6. total \in Nat /\ t0 \in Nat BY DEF SeriesInv, Base
<1>7. avail \in Nat /\ (quiet => avail = Available) BY <1>2, <1>5, <1>6 DEF Available
<1>8. quiet => e # None /\ e \in 1 .. MaxInserts BY <1>4 DEF Good, None
<1>9. loc.lo \in Nat /\ loc.hi \in Nat BY <1>2 DEF Locals
<1> QED BY <1>1, <1>2, <1>3, <1>4, <1>5, <1>6, <1>7, <1>8, <1>9

\* The linear search starts, because an element could not be read.
LEMMA LinearKeeps ==
  ASSUME SeriesInv, pc \in Points, op \in {"closest", "safe"}, ~quiet,
         NEW d \in Nat \cup {NoDistance}, Linear("scan", d)
  PROVE  SeriesInv'
<1> DEFINE l == [NoLocals EXCEPT !.maxd = d]
<1>1. l \in Locals BY DEF Locals, NoLocals, None, NoDistance
<1>2. avail \in Nat /\ avail >= 1 BY DEF SeriesInv, CallInv, Base
<1>3. Place("scan", l) BY <1>2 DEF Place, NoLocals, GoodOrNone
<1>4. "scan" \in Points /\ At("scan", l) BY DEF Points, Linear
<1> QED BY <1>1, <1>3, <1>4, AtKeeps

-----------------------------------------------------------------------------
(* find_closest().                                                          *)

\* The binary search of find_closest() compares the middle element.
LEMMA NarrowKeeps ==
  ASSUME SeriesInv, NEW e \in 0 .. MaxInserts, Narrow(e)
  PROVE  SeriesInv'
<1>0. /\ pc = "mid" /\ pc \in Points /\ op \in {"closest", "safe"}
      /\ loc \in Locals /\ Place("mid", loc) /\ GoodOrNone(e)
      /\ loc.lo \in Nat /\ loc.hi \in Nat /\ avail \in Nat /\ avail >= 1
      /\ quiet => /\ Exact("mid", loc) /\ e = total - Index /\ e \in Window /\ e # None
                  /\ avail = Available /\ total = t0 /\ total \in Nat /\ e \in 1 .. MaxInserts
  BY ClosestStep DEF Narrow
<1>1. loc.lo < loc.hi /\ loc.hi < avail BY <1>0 DEF Place
<1>2. Mid \in Nat /\ loc.lo <= Mid /\ Mid < loc.hi BY <1>0, <1>1, MidRange
<1>3. quiet => /\ e = total - Mid /\ Above(loc.lo) /\ Below(loc.hi + 1) /\ loc.maxd = maxd
  BY <1>0 DEF Exact, Index
<1>4. \A f \in Window : f \in 1 .. MaxInserts BY KeyOrder
<1>5. CASE e = None /\ Linear("scan", loc.maxd)
  <2>1. loc.maxd \in Nat \cup {NoDistance} BY <1>0 DEF Locals
  <2> QED BY <1>0, <1>5, <2>1, LinearKeeps
<1>6. CASE /\ e # None /\ key[e] > target
           /\ LET l == [loc EXCEPT !.lo = Mid + 1] IN At(LoopHead(l), l)
  <2> DEFINE l == [loc EXCEPT !.lo = Mid + 1]
  <2>1. l \in Locals /\ l.lo = Mid + 1 /\ l.hi = loc.hi /\ l.maxd = loc.maxd
        /\ l.best = loc.best /\ l.newer = loc.newer /\ l.older = loc.older
    BY <1>0, <1>2 DEF Locals
  <2> HIDE DEF l
  <2>2. LoopHead(l) \in Points BY DEF LoopHead, Points
  <2>3. Place(LoopHead(l), l) BY <1>0, <1>1, <1>2, <2>1 DEF Place, LoopHead
  <2>4. quiet => Exact(LoopHead(l), l)
    <3> SUFFICES ASSUME quiet PROVE Exact(LoopHead(l), l)
      OBVIOUS
    <3>1. ASSUME NEW f \in Window, f > total - (Mid + 1) PROVE key[f] > target
      <4>1. e <= f /\ f \in 1 .. MaxInserts BY <1>0, <1>2, <1>3, <1>4, <3>1
      <4>2. key[e] <= key[f] /\ key[e] \in Nat /\ key[f] \in Nat /\ target \in Nat
        BY <1>0, <4>1, KeyOrder
      <4> QED BY <1>6, <4>2
    <3>2. Above(l.lo) BY <2>1, <3>1 DEF Above
    <3>3. LoopHead(l) = "mid" => Below(l.hi + 1) BY <1>3, <2>1
    <3>4. LoopHead(l) = "best" => l.lo = l.hi BY <1>0, <1>2, <2>1 DEF LoopHead
    <3>5. LoopHead(l) = "best" => Below(l.lo + 1) BY <1>3, <2>1, <3>4
    <3>6. LoopHead(l) \in {"mid", "best"} BY DEF LoopHead
    <3> QED BY <1>3, <2>1, <3>2, <3>3, <3>5, <3>6 DEF Exact
  <2>5. At(LoopHead(l), l) BY <1>6 DEF l
  <2> QED BY <1>0, <2>1, <2>2, <2>3, <2>4, <2>5, AtKeeps
<1>7. CASE /\ e # None /\ key[e] < target /\ Mid # 0
           /\ LET l == [loc EXCEPT !.hi = Mid - 1] IN At(LoopHead(l), l)
  <2> DEFINE l == [loc EXCEPT !.hi = Mid - 1]
  <2>1. l \in Locals /\ l.lo = loc.lo /\ l.hi = Mid - 1 /\ l.maxd = loc.maxd
        /\ l.best = loc.best /\ l.newer = loc.newer /\ l.older = loc.older
    BY <1>0, <1>2, <1>7 DEF Locals
  <2> HIDE DEF l
  <2>2. LoopHead(l) \in Points BY DEF LoopHead, Points
  <2>3. Place(LoopHead(l), l) BY <1>0, <1>1, <1>2, <2>1 DEF Place, LoopHead
  <2>4. quiet => Exact(LoopHead(l), l)
    <3> SUFFICES ASSUME quiet PROVE Exact(LoopHead(l), l)
      OBVIOUS
    <3>1. ASSUME NEW f \in Window, f <= total - Mid PROVE key[f] < target
      <4>1. f <= e /\ f \in 1 .. MaxInserts BY <1>3, <1>4, <3>1
      <4>2. key[f] <= key[e] /\ key[e] \in Nat /\ key[f] \in Nat /\ target \in Nat
        BY <1>0, <4>1, KeyOrder
      <4> QED BY <1>7, <4>2
    <3>2. LoopHead(l) = "mid" => Below(l.hi + 1) BY <1>2, <2>1, <3>1 DEF Below
    <3>3. LoopHead(l) = "best" => Below(l.lo + 1)
      <4> SUFFICES ASSUME LoopHead(l) = "best", NEW f \in Window, f <= total - (l.lo + 1)
                   PROVE  key[f] < target
        BY DEF Below
      <4>1. l.lo >= Mid - 1 BY <1>0, <1>2, <2>1 DEF LoopHead
      <4>2. f <= total - Mid BY <1>0, <1>2, <1>4, <2>1, <4>1
      <4> QED BY <3>1, <4>2
    <3>4. LoopHead(l) \in {"mid", "best"} BY DEF LoopHead
    <3> QED BY <1>3, <2>1, <3>2, <3>3, <3>4 DEF Exact
  <2>5. At(LoopHead(l), l) BY <1>7 DEF l
  <2> QED BY <1>0, <2>1, <2>2, <2>3, <2>4, <2>5, AtKeeps
<1>8. CASE e # None /\ key[e] < target /\ Mid = 0 /\ At("best", loc)
  <2>1. loc.lo = 0 BY <1>0, <1>2, <1>8
  <2>2. Place("best", loc) BY <1>0, <2>1 DEF Place
  <2>3. quiet => Exact("best", loc)
    <3> SUFFICES ASSUME quiet, NEW f \in Window, f <= total - 1 PROVE key[f] < target
      BY <1>3, <2>1 DEF Exact, Below
    <3>1. f <= e /\ f \in 1 .. MaxInserts BY <1>0, <1>3, <1>4, <1>8
    <3>2. key[f] <= key[e] /\ key[e] \in Nat /\ key[f] \in Nat /\ target \in Nat
      BY <1>0, <3>1, KeyOrder
    <3> QED BY <1>8, <3>2
  <2>4. "best" \in Points BY DEF Points
  <2> QED BY <1>0, <1>8, <2>2, <2>3, <2>4, AtKeeps
<1>9. CASE e # None /\ key[e] = target /\ Return(Just(e))
  <2>1. e \in 1 .. MaxInserts /\ Good(e) BY <1>0, <1>9 DEF GoodOrNone, None
  <2>2. Answer(Just(e)) BY <1>0, <2>1 DEF Answer
  <2>3. quiet => ExactAnswer(Just(e))
    <3> SUFFICES ASSUME quiet PROVE ExactAnswer(Just(e))
      OBVIOUS
    <3>1. Diff(e) = 0 BY <1>9, <2>1, DiffOrder
    <3>2. \A f \in Window : Diff(f) \in Nat BY <1>4, DiffOrder
    <3>3. \A f \in Window : Diff(e) <= Diff(f) BY <3>1, <3>2
    <3>4. maxd \in Nat \cup {NoDistance} BY DEF SeriesInv, Base
    <3>5. Filtered(e, maxd) = Just(e) BY <1>9, <3>1, <3>4 DEF Filtered
    <3> QED BY <1>0, <3>3, <3>5, NearestAnswer
  <2> QED BY <1>0, <1>9, <2>2, <2>3, ReturnKeeps
<1> QED BY <1>5, <1>6, <1>7, <1>8, <1>9 DEF Narrow

\* The closest of the elements looked at so far is the closest of all, once the
\* element after lo has been looked at or there is none.
LEMMA SettledKeeps ==
  ASSUME SeriesInv, pc \in Points, op \in {"closest", "safe"}, NEW b, GoodOrNone(b),
         NEW d, Return(Filtered(b, d)),
         quiet => d = maxd /\ b \in Window /\ \A f \in Window : Diff(b) <= Diff(f)
  PROVE  SeriesInv'
<1>1. Answer(Filtered(b, d)) BY FilteredAnswer
<1>2. quiet => ExactAnswer(Filtered(b, d)) BY NearestAnswer
<1> QED BY <1>1, <1>2, ReturnKeeps

\* All elements are newer than total - (lo + 1) if lo is the last index.
LEMMA LastIndex ==
  ASSUME total \in Nat, avail = Available, NEW j \in Nat, j + 1 >= avail
  PROVE  \A f \in Window : f >= total - j
BY DEF Window, Available

\* try_get(lo) has been compared, and perhaps try_get(lo - 1): the older
\* neighbour is next, or the search is over.
LEMMA AfterPrevKeeps ==
  ASSUME SeriesInv, pc \in Points, op \in {"closest", "safe"},
         NEW l \in Locals, Good(l.best), GoodOrNone(l.newer), GoodOrNone(l.older),
         l.lo < avail, avail \in Nat,
         quiet => /\ l.maxd = maxd /\ Above(l.lo) /\ Below(l.lo + 1)
                  /\ l.best \in Window /\ avail = Available
                  /\ \A f \in Window : f >= total - l.lo => Diff(l.best) <= Diff(f),
         AfterPrev(l)
  PROVE  SeriesInv'
<1>0. l.lo \in Nat /\ total \in Nat BY DEF Locals, SeriesInv, Base
<1>1. CASE l.lo + 1 < avail /\ At("next", l)
  <2>1. Place("next", l)
    BY <1>0, <1>1 DEF Place, GoodOrNone, Good, None
  <2>2. quiet => Exact("next", l) BY DEF Exact
  <2>3. "next" \in Points BY DEF Points
  <2> QED BY <1>1, <2>1, <2>2, <2>3, AtKeeps
<1>2. CASE l.lo + 1 >= avail /\ Return(Filtered(l.best, l.maxd))
  <2>1. quiet => \A f \in Window : Diff(l.best) <= Diff(f)
    BY <1>0, <1>2, LastIndex
  <2>2. GoodOrNone(l.best) BY DEF GoodOrNone
  <2> QED BY <1>2, <2>1, <2>2, SettledKeeps
<1> QED BY <1>1, <1>2 DEF AfterPrev

\* The element where the binary search ended.
LEMMA BestKeeps ==
  ASSUME SeriesInv, NEW e \in 0 .. MaxInserts, Best(e)
  PROVE  SeriesInv'
<1>0. /\ pc = "best" /\ pc \in Points /\ op \in {"closest", "safe"}
      /\ loc \in Locals /\ Place("best", loc) /\ GoodOrNone(e)
      /\ loc.lo \in Nat /\ loc.hi \in Nat /\ avail \in Nat /\ avail >= 1
      /\ quiet => /\ Exact("best", loc) /\ e = total - Index /\ e \in Window /\ e # None
                  /\ avail = Available /\ total = t0 /\ total \in Nat /\ e \in 1 .. MaxInserts
  BY ClosestStep DEF Best
<1>1. CASE e = None /\ Linear("scan", NoDistance)
  BY <1>0, <1>1, LinearKeeps
<1>2. CASE e # None /\ AfterBest([loc EXCEPT !.best = e])
  <2> DEFINE l == [loc EXCEPT !.best = e]
  <2>1. l \in Locals /\ l.lo = loc.lo /\ l.maxd = loc.maxd
        /\ l.best = e /\ l.newer = loc.newer /\ l.older = loc.older
    BY <1>0 DEF Locals
  <2>2. AfterBest(l) BY <1>2
  <2> HIDE DEF l
  <2>3. Good(e) /\ l.lo < avail /\ GoodOrNone(l.newer) /\ GoodOrNone(l.older)
    BY <1>0, <1>2, <2>1 DEF GoodOrNone, Place
  <2>4. quiet => /\ l.maxd = maxd /\ Above(l.lo) /\ Below(l.lo + 1) /\ e = total - l.lo
    BY <1>0, <2>1 DEF Exact, Index
  <2>5. CASE l.lo > 0 /\ At("prev", l)
    <3>1. Place("prev", l)
      BY <1>0, <1>2, <2>1, <2>3, <2>5 DEF Place, GoodOrNone
    <3>2. quiet => Exact("prev", l) BY <2>1, <2>4 DEF Exact
    <3>3. "prev" \in Points BY DEF Points
    <3> QED BY <1>0, <2>1, <2>5, <3>1, <3>2, <3>3, AtKeeps
  <2>6. CASE l.lo = 0 /\ AfterPrev(l)
    <3>1. ASSUME quiet, NEW f \in Window, f >= total - l.lo PROVE Diff(e) <= Diff(f)
      <4>1. f = e BY <1>0, <2>4, <2>6, <3>1 DEF Window
      <4>2. Diff(e) \in Nat BY <1>0, <3>1, DiffOrder
      <4> QED BY <4>1, <4>2
    <3> QED BY <1>0, <2>1, <2>3, <2>4, <2>6, <3>1, AfterPrevKeeps
  <2> QED BY <2>1, <2>2, <2>5, <2>6, <1>0 DEF AfterBest, AfterPrev
<1> QED BY <1>1, <1>2 DEF Best

\* Better(e) is the closer one.
LEMMA BetterOf ==
  ASSUME SeriesInv, NEW e \in 0 .. MaxInserts, GoodOrNone(e),
         loc \in Locals, loc.best # None, GoodOrNone(loc.best)
  PROVE  /\ Good(Better(e)) /\ Better(e) \in {e, loc.best} /\ Better(e) \in 0 .. MaxInserts
         /\ Diff(Better(e)) <= Diff(loc.best)
         /\ e # None => Diff(Better(e)) <= Diff(e)
<1>1. Good(loc.best) /\ loc.best \in 1 .. MaxInserts BY DEF GoodOrNone, Good
<1>2. Diff(loc.best) \in Nat BY <1>1, DiffOrder
<1>3. e # None => Good(e) /\ e \in 1 .. MaxInserts BY DEF GoodOrNone, Good
<1>4. e # None => Diff(e) \in Nat BY <1>3, DiffOrder
<1> QED BY <1>1, <1>2, <1>3, <1>4 DEF Better

\* Its newer neighbour.
LEMMA PrevKeeps ==
  ASSUME SeriesInv, NEW e \in 0 .. MaxInserts, Prev(e)
  PROVE  SeriesInv'
<1>0. /\ pc = "prev" /\ pc \in Points /\ op \in {"closest", "safe"}
      /\ loc \in Locals /\ Place("prev", loc) /\ GoodOrNone(e)
      /\ loc.lo \in Nat /\ loc.hi \in Nat /\ avail \in Nat /\ avail >= 1
      /\ quiet => /\ Exact("prev", loc) /\ e = total - Index /\ e \in Window /\ e # None
                  /\ avail = Available /\ total = t0 /\ total \in Nat /\ e \in 1 .. MaxInserts
  BY ClosestStep DEF Prev
<1>1. loc.lo < avail /\ loc.lo > 0 /\ loc.best # None /\ GoodOrNone(loc.best)
  BY <1>0 DEF Place
<1>2. /\ Good(Better(e)) /\ Better(e) \in {e, loc.best} /\ Better(e) \in 0 .. MaxInserts
      /\ Diff(Better(e)) <= Diff(loc.best) /\ (e # None => Diff(Better(e)) <= Diff(e))
  BY <1>0, <1>1, BetterOf
<1> DEFINE l == [loc EXCEPT !.best = Better(e)]
<1>3. l \in Locals /\ l.lo = loc.lo /\ l.maxd = loc.maxd
      /\ l.best = Better(e) /\ l.newer = loc.newer /\ l.older = loc.older
  BY <1>0, <1>2 DEF Locals
<1>4. AfterPrev(l) BY DEF Prev
<1> HIDE DEF l
<1>5. ASSUME quiet
      PROVE  /\ l.maxd = maxd /\ Above(l.lo) /\ Below(l.lo + 1) /\ l.best \in Window
             /\ \A f \in Window : f >= total - l.lo => Diff(l.best) <= Diff(f)
  <2>1. /\ l.maxd = maxd /\ Above(l.lo) /\ Below(l.lo + 1)
        /\ loc.best = total - loc.lo /\ e = total - (loc.lo - 1)
    BY <1>0, <1>3, <1>5 DEF Exact, Index
  <2>2. loc.best \in Window BY <1>0, <1>1, <1>5, <2>1 DEF Window
  <2>3. ASSUME NEW f \in Window, f >= total - l.lo PROVE Diff(l.best) <= Diff(f)
    <3>1. f \in 1 .. MaxInserts /\ loc.best \in 1 .. MaxInserts BY <2>2, KeyOrder
    <3>2. Diff(f) \in Nat /\ Diff(e) \in Nat /\ Diff(loc.best) \in Nat
          /\ Diff(Better(e)) \in Nat
      BY <1>0, <1>2, <1>5, <3>1, DiffOrder
    <3>3. CASE f = loc.best BY <1>2, <1>3, <3>3
    <3>4. CASE f # loc.best
      <4>1. e <= f BY <1>0, <1>3, <1>5, <2>1, <2>3, <3>1, <3>4
      <4>2. key[e] > target BY <1>0, <1>1, <1>3, <1>5, <2>1 DEF Above
      <4>3. key[e] >= target BY <1>0, <1>5, <4>2, KeyOrder
      <4>4. Diff(e) <= Diff(f) BY <1>0, <1>5, <3>1, <4>1, <4>3, DiffOrder
      <4> QED BY <1>0, <1>2, <1>3, <1>5, <3>2, <4>4
    <3> QED BY <3>3, <3>4
  <2>4. l.best \in Window BY <1>0, <1>2, <1>3, <1>5, <2>2
  <2> QED BY <2>1, <2>3, <2>4
<1>6. GoodOrNone(l.newer) /\ GoodOrNone(l.older) BY <1>0, <1>3 DEF Place
<1> QED BY <1>0, <1>1, <1>2, <1>3, <1>4, <1>5, <1>6, AfterPrevKeeps

\* Its older neighbour, after which find_closest() returns.
LEMMA NextKeeps ==
  ASSUME SeriesInv, NEW e \in 0 .. MaxInserts, NextElem(e)
  PROVE  SeriesInv'
<1>0. /\ pc = "next" /\ pc \in Points /\ op \in {"closest", "safe"}
      /\ loc \in Locals /\ Place("next", loc) /\ GoodOrNone(e)
      /\ loc.lo \in Nat /\ loc.hi \in Nat /\ avail \in Nat /\ avail >= 1
      /\ quiet => /\ Exact("next", loc) /\ e = total - Index /\ e \in Window /\ e # None
                  /\ avail = Available /\ total = t0 /\ total \in Nat /\ e \in 1 .. MaxInserts
  BY ClosestStep DEF NextElem
<1>1. loc.best # None /\ GoodOrNone(loc.best) BY <1>0 DEF Place
<1>2. /\ Good(Better(e)) /\ Better(e) \in {e, loc.best} /\ Better(e) \in 0 .. MaxInserts
      /\ Diff(Better(e)) <= Diff(loc.best) /\ (e # None => Diff(Better(e)) <= Diff(e))
  BY <1>0, <1>1, BetterOf
<1>3. ASSUME quiet
      PROVE  /\ loc.maxd = maxd /\ Better(e) \in Window
             /\ \A f \in Window : Diff(Better(e)) <= Diff(f)
  <2>1. /\ loc.maxd = maxd /\ Below(loc.lo + 1) /\ loc.best \in Window
        /\ \A f \in Window : f >= total - loc.lo => Diff(loc.best) <= Diff(f)
        /\ e = total - (loc.lo + 1)
    BY <1>0, <1>3 DEF Exact, Index
  <2>2. ASSUME NEW f \in Window PROVE Diff(Better(e)) <= Diff(f)
    <3>1. f \in 1 .. MaxInserts /\ loc.best \in 1 .. MaxInserts BY <2>1, KeyOrder
    <3>2. Diff(f) \in Nat /\ Diff(e) \in Nat /\ Diff(loc.best) \in Nat
          /\ Diff(Better(e)) \in Nat
      BY <1>0, <1>2, <1>3, <3>1, DiffOrder
    <3>3. CASE f >= total - loc.lo
      <4>1. Diff(loc.best) <= Diff(f) BY <2>1, <3>3
      <4> QED BY <1>2, <3>2, <4>1
    <3>4. CASE f < total - loc.lo
      <4>1. f <= e BY <1>0, <1>3, <2>1, <3>1, <3>4
      <4>2. key[e] < target BY <1>0, <1>3, <2>1 DEF Below
      <4>3. key[e] <= target BY <1>0, <1>3, <4>2, KeyOrder
      <4>4. Diff(e) <= Diff(f) BY <1>0, <1>3, <3>1, <4>1, <4>3, DiffOrder
      <4> QED BY <1>0, <1>2, <1>3, <3>2, <4>4
    <3> QED BY <1>0, <1>3, <3>1, <3>3, <3>4
  <2> QED BY <1>0, <1>2, <1>3, <2>1, <2>2
<1>4. Return(Filtered(Better(e), loc.maxd)) BY DEF NextElem
<1>5. GoodOrNone(Better(e)) BY <1>2 DEF GoodOrNone
<1> QED BY <1>0, <1>3, <1>4, <1>5, SettledKeeps

\* One step of the linear search, which runs only if an insert() has.
LEMMA ScanKeeps ==
  ASSUME SeriesInv, NEW e \in 0 .. MaxInserts, Scan(e)
  PROVE  SeriesInv'
<1>0. /\ pc = "scan" /\ pc \in Points /\ op \in {"closest", "safe"}
      /\ loc \in Locals /\ Place("scan", loc) /\ GoodOrNone(e) /\ avail \in Nat
      /\ quiet => Exact("scan", loc)
  BY ClosestStep DEF Scan
<1>1. ~quiet BY <1>0 DEF Exact
<1> DEFINE b == IF e # None /\ Diff(e) < DiffOrMax(loc.best) THEN e ELSE loc.best
           l == [loc EXCEPT !.i = @ + 1, !.best = b]
<1>2. GoodOrNone(b) /\ b \in 0 .. MaxInserts
  BY <1>0 DEF Place, Locals
<1>3. CASE loc.i + 1 < avail /\ At("scan", l)
  <2>1. l \in Locals /\ l.i = loc.i + 1 /\ l.best = b /\ l.newer = loc.newer
        /\ l.older = loc.older
    <3> HIDE DEF b
    <3>1. loc.i \in Nat /\ loc.i + 1 \in Nat BY <1>0 DEF Locals
    <3> QED BY <1>0, <1>2, <3>1 DEF Locals
  <2> HIDE DEF l, b
  <2>2. Place("scan", l) BY <1>0, <1>2, <1>3, <2>1 DEF Place
  <2>3. "scan" \in Points BY DEF Points
  <2> QED BY <1>0, <1>1, <1>3, <2>1, <2>2, <2>3, AtKeeps
<1>4. CASE loc.i + 1 >= avail /\ Return(Filtered(b, loc.maxd))
  <2> HIDE DEF b
  <2> QED BY <1>0, <1>1, <1>2, <1>4, SettledKeeps
<1> QED BY <1>3, <1>4 DEF Scan

-----------------------------------------------------------------------------
(* find_interpolation_pair().                                               *)

\* What is known at a try_get of find_interpolation_pair() that has returned e.
LEMMA PairStep ==
  ASSUME SeriesInv, NEW e \in 0 .. MaxInserts,
         NEW p \in {"newest", "oldest", "pairmid", "after", "before", "pairscan"},
         Got(p, e)
  PROVE  /\ pc = p /\ pc \in Points /\ op = "pair"
         /\ loc \in Locals /\ Place(p, loc) /\ GoodOrNone(e)
         /\ loc.lo \in Nat /\ loc.hi \in Nat /\ avail \in Nat /\ avail >= 1
         /\ quiet => /\ Exact(p, loc) /\ e = total - Index /\ e \in Window /\ e # None
                     /\ avail = Available /\ total \in Nat /\ e \in 1 .. MaxInserts
<1>1. pc = p /\ p \in Points BY DEF Got, Points
<1>2. /\ loc \in Locals /\ Place(p, loc) /\ (quiet => Exact(p, loc))
      /\ avail = (IF t0 < N THEN t0 ELSE N) /\ avail >= 1
  BY <1>1 DEF SeriesInv, CallInv
<1>3. op = "pair" BY <1>2 DEF Place, SeriesInv, Base
<1>4. GoodOrNone(e) /\ (quiet => e = total - Index /\ e \in Window /\ Good(e))
  BY <1>1, GotRange
<1>5. quiet => total = t0 BY <1>1 DEF SeriesInv, Base, Points
<1>6. total \in Nat /\ t0 \in Nat BY DEF SeriesInv, Base
<1>7. avail \in Nat /\ (quiet => avail = Available) BY <1>2, <1>5, <1>6 DEF Available
<1>8. quiet => e # None /\ e \in 1 .. MaxInserts BY <1>4 DEF Good, None
<1>9. loc.lo \in Nat /\ loc.hi \in Nat BY <1>2 DEF Locals
<1> QED BY <1>1, <1>2, <1>3, <1>4, <1>6, <1>7, <1>8, <1>9

\* A pair of elements a call may return, whatever alpha is.
LEMMA PairAnswer ==
  ASSUME op = "pair", NEW b, NEW a, Good(b), Good(a), NEW num \in Int, NEW den \in Int
  PROVE  Answer(Pair(b, a, num, den))
<1>1. num % (MaxKey + 1) \in Keys /\ den % (MaxKey + 1) \in Keys BY DEF Keys
<1>2. <<num % (MaxKey + 1), den % (MaxKey + 1)>> \in Keys \X Keys BY <1>1
<1>3. b \in 1 .. MaxInserts /\ a \in 1 .. MaxInserts BY DEF Good
<1> HIDE DEF Keys
<1> QED BY <1>2, <1>3 DEF Answer, Pair

\* A pair of elements read during the call is an answer, whatever its keys.
LEMMA InterpolatedAnswer ==
  ASSUME SeriesInv, op = "pair", NEW b, NEW a, Good(b), Good(a)
  PROVE  Answer(Interpolated(b, a))
<1>1. key[b] \in Nat /\ key[a] \in Nat /\ target \in Nat BY KeyOrder DEF Good
<1>2. Answer(Pair(b, a, 0, 1)) BY PairAnswer
<1>3. Answer(Pair(b, a, target - key[b], key[a] - key[b])) BY <1>1, PairAnswer
<1> QED BY <1>2, <1>3 DEF Interpolated

\* The element and its newer neighbour that bracket the target are the answer.
LEMMA BracketAnswer ==
  ASSUME SeriesInv, op = "pair", Available >= 2, NEW b \in Window, b + 1 \in Window,
         key[b] <= target, target < key[b + 1]
  PROVE  ExactAnswer(Interpolated(b, b + 1))
<1>1. b \in 1 .. MaxInserts /\ b + 1 \in 1 .. MaxInserts /\ total \in Nat
  BY KeyOrder DEF SeriesInv, Base
<1>2. key[b] \in Nat /\ key[b + 1] \in Nat /\ target \in Nat BY <1>1, KeyOrder
<1>3. ~(Available < 2 \/ target > key[total] \/ target < key[total - Available + 1])
  <2>1. total \in Window /\ total - Available + 1 \in Window
    BY <1>1 DEF Window, Available
  <2>2. total \in 1 .. MaxInserts /\ total - Available + 1 \in 1 .. MaxInserts
    BY <2>1, KeyOrder
  <2>3. b + 1 <= total /\ total - Available + 1 <= b BY <1>1, <2>2 DEF Window, Available
  <2>4. key[b + 1] <= key[total] /\ key[total - Available + 1] <= key[b]
    BY <1>1, <2>2, <2>3, KeyOrder
  <2>5. key[total] \in Nat /\ key[total - Available + 1] \in Nat BY <2>2, KeyOrder
  <2>6. Available \in Nat BY <1>1 DEF Available
  <2> QED BY <1>2, <2>4, <2>5, <2>6
<1>4. Interpolated(b, b + 1) = Pair(b, b + 1, target - key[b], key[b + 1] - key[b])
  BY <1>2 DEF Interpolated
<1>5. CASE key[b] = target
  <2>1. (target - key[b]) % (MaxKey + 1) = 0 BY <1>2, <1>5
  <2>2. Interpolated(b, b + 1).alpha[1] = 0
        /\ Interpolated(b, b + 1).elems = <<b, b + 1>>
    BY <1>4, <2>1 DEF Pair
  <2> QED BY <1>3, <1>5, <2>2 DEF ExactAnswer
<1>6. CASE key[b] < target
  BY <1>3, <1>4, <1>6 DEF ExactAnswer
<1> QED BY <1>2, <1>5, <1>6

\* The newest element is read, and a target beyond it is refused.
LEMMA NewestKeeps ==
  ASSUME SeriesInv, NEW e \in 0 .. MaxInserts, Newest(e)
  PROVE  SeriesInv'
<1>0. /\ pc = "newest" /\ pc \in Points /\ op = "pair"
      /\ loc \in Locals /\ Place("newest", loc) /\ GoodOrNone(e)
      /\ quiet => Exact("newest", loc) /\ e = total - Index /\ total \in Nat
  BY PairStep DEF Newest
<1> DEFINE l == [loc EXCEPT !.newer = e]
<1>1. l \in Locals /\ l.lo = loc.lo /\ l.hi = loc.hi
      /\ l.best = loc.best /\ l.newer = e /\ l.older = loc.older
  BY <1>0 DEF Locals
<1>2. At("oldest", l) BY DEF Newest
<1> HIDE DEF l
<1>3. Place("oldest", l) BY <1>0, <1>1 DEF Place
<1>4. quiet => Exact("oldest", l) BY <1>0, <1>1 DEF Exact, Index
<1>5. "oldest" \in Points BY DEF Points
<1> QED BY <1>0, <1>1, <1>2, <1>3, <1>4, <1>5, AtKeeps

\* The head of the loop, with lo < hi.
LEMMA PairHeadKeeps ==
  ASSUME SeriesInv, pc \in Points, op = "pair", NEW l \in Locals, At(PairHead(l), l),
         l.lo < l.hi, l.hi < avail,
         GoodOrNone(l.best), GoodOrNone(l.newer), GoodOrNone(l.older),
         quiet => key[total - l.hi] <= target /\ target < key[total - l.lo]
  PROVE  SeriesInv'
<1>1. l.lo \in Nat /\ l.hi \in Nat BY DEF Locals
<1>2. PairHead(l) \in {"pairmid", "after"} /\ PairHead(l) \in Points
  BY DEF PairHead, Points
<1>3. Place(PairHead(l), l) BY <1>1, <1>2 DEF Place, PairHead
<1>4. quiet => Exact(PairHead(l), l) BY <1>2 DEF Exact
<1> QED BY <1>2, <1>3, <1>4, AtKeeps

\* Returning nothing.
LEMMA NothingAnswer ==
  ASSUME SeriesInv, pc \in Points, Return(Nothing), quiet => ExactAnswer(Nothing)
  PROVE  SeriesInv'
<1>1. Answer(Nothing) BY DEF Answer
<1> QED BY <1>1, ReturnKeeps

\* The ends of the range are read; an exact answer needs both.
LEMMA OldestKeeps ==
  ASSUME SeriesInv, NEW e \in 0 .. MaxInserts, Oldest(e)
  PROVE  SeriesInv'
<1>0. /\ pc = "oldest" /\ pc \in Points /\ op = "pair"
      /\ loc \in Locals /\ Place("oldest", loc) /\ GoodOrNone(e)
      /\ loc.lo \in Nat /\ loc.hi \in Nat /\ avail \in Nat /\ avail >= 1
      /\ quiet => /\ Exact("oldest", loc) /\ e = total - Index /\ e \in Window /\ e # None
                  /\ avail = Available /\ total \in Nat /\ e \in 1 .. MaxInserts
  BY PairStep DEF Oldest
<1>1. loc.lo = 0 /\ loc.hi = avail - 1 /\ avail >= 2 /\ GoodOrNone(loc.newer)
  BY <1>0 DEF Place
<1>2. ASSUME quiet
      PROVE  /\ loc.newer = total /\ e = total - Available + 1 /\ Available >= 2
             /\ total \in Window /\ total \in 1 .. MaxInserts /\ loc.newer # None
  <2>1. loc.newer = total /\ e = total - (avail - 1) BY <1>0, <1>2 DEF Exact, Index
  <2>2. total \in Window BY <1>0, <1>1, <1>2 DEF Window
  <2>3. total \in 1 .. MaxInserts BY <2>2, KeyOrder
  <2> QED BY <1>0, <1>1, <1>2, <2>1, <2>2, <2>3 DEF None
<1>3. CASE (loc.newer = None \/ e = None) /\ Return(Nothing)
  <2>1. ~quiet BY <1>0, <1>2, <1>3
  <2> QED BY <1>0, <1>3, <2>1, NothingAnswer
<1>4. CASE /\ target > key[loc.newer] \/ target < key[e]
           /\ Return(Nothing)
  <2>1. quiet => ExactAnswer(Nothing) BY <1>0, <1>2, <1>4 DEF ExactAnswer
  <2> QED BY <1>0, <1>4, <2>1, NothingAnswer
<1>5. ASSUME NEW f, f # None, GoodOrNone(f), target = key[f],
             quiet => f \in {e, total}, loc.newer # None, e # None,
             target <= key[loc.newer], target >= key[e], Return(Pair(f, f, 0, 1))
      PROVE  SeriesInv'
  <2>1. Good(f) BY <1>5 DEF GoodOrNone
  <2>2. Answer(Pair(f, f, 0, 1)) BY <1>0, <2>1, PairAnswer
  <2>3. quiet => ExactAnswer(Pair(f, f, 0, 1))
    <3> SUFFICES ASSUME quiet PROVE ExactAnswer(Pair(f, f, 0, 1))
      OBVIOUS
    <3>1. f \in Window BY <1>0, <1>2, <1>5
    <3>2. 0 % (MaxKey + 1) = 0 OBVIOUS
    <3>3. Pair(f, f, 0, 1).alpha[1] = 0 /\ Pair(f, f, 0, 1).elems = <<f, f>>
      BY <3>2 DEF Pair
    <3>4. key[total] \in Nat /\ key[e] \in Nat /\ target \in Nat
      BY <1>0, <1>2, KeyOrder
    <3>5. ~(Available < 2 \/ target > key[total] \/ target < key[total - Available + 1])
      BY <1>0, <1>2, <1>5, <3>4
    <3> QED BY <1>0, <1>5, <3>1, <3>3, <3>5 DEF ExactAnswer
  <2> QED BY <1>0, <1>5, <2>2, <2>3, ReturnKeeps
<1>6. CASE /\ loc.newer # None /\ e # None
           /\ target <= key[loc.newer] /\ target >= key[e]
           /\ target = key[loc.newer]
           /\ Return(Pair(loc.newer, loc.newer, 0, 1))
  BY <1>1, <1>2, <1>5, <1>6
<1>7. CASE /\ loc.newer # None /\ e # None
           /\ target <= key[loc.newer] /\ target >= key[e]
           /\ target = key[e]
           /\ Return(Pair(e, e, 0, 1))
  BY <1>0, <1>5, <1>7
<1>8. CASE /\ loc.newer # None /\ e # None
           /\ target <= key[loc.newer] /\ target >= key[e] /\ target # key[loc.newer]
           /\ LET l == [loc EXCEPT !.newer = None] IN At(PairHead(l), l)
  <2> DEFINE l == [loc EXCEPT !.newer = None]
  <2>1. l \in Locals /\ l.lo = loc.lo /\ l.hi = loc.hi
        /\ l.best = loc.best /\ l.newer = None /\ l.older = loc.older
    BY <1>0 DEF Locals, None
  <2>2. At(PairHead(l), l) BY <1>8
  <2> HIDE DEF l
  <2>3. quiet => key[total - l.hi] <= target /\ target < key[total - l.lo]
    <3> SUFFICES ASSUME quiet
                 PROVE  key[total - l.hi] <= target /\ target < key[total - l.lo]
      OBVIOUS
    <3>1. total - l.hi = e /\ total - l.lo = total BY <1>0, <1>1, <1>2, <2>1
    <3>2. key[total] \in Nat /\ key[e] \in Nat /\ target \in Nat
      BY <1>0, <1>2, KeyOrder
    <3> QED BY <1>2, <1>8, <3>1, <3>2
  <2>4. GoodOrNone(l.best) /\ GoodOrNone(l.newer) /\ GoodOrNone(l.older)
    BY <1>0, <2>1 DEF Place, GoodOrNone
  <2>5. l.lo < l.hi /\ l.hi < avail BY <1>0, <1>1, <2>1
  <2> QED BY <1>0, <2>1, <2>2, <2>3, <2>4, <2>5, PairHeadKeeps
<1> QED BY <1>3, <1>4, <1>6, <1>7, <1>8 DEF Oldest

\* The binary search keeps key(hi) <= target < key(lo).
LEMMA PairNarrowKeeps ==
  ASSUME SeriesInv, NEW e \in 0 .. MaxInserts, PairNarrow(e)
  PROVE  SeriesInv'
<1>0. /\ pc = "pairmid" /\ pc \in Points /\ op = "pair"
      /\ loc \in Locals /\ Place("pairmid", loc) /\ GoodOrNone(e)
      /\ loc.lo \in Nat /\ loc.hi \in Nat /\ avail \in Nat /\ avail >= 1
      /\ quiet => /\ Exact("pairmid", loc) /\ e = total - Index /\ e # None
                  /\ total \in Nat /\ e \in 1 .. MaxInserts
  BY PairStep DEF PairNarrow
<1>1. loc.lo + 1 < loc.hi /\ loc.hi < avail BY <1>0 DEF Place
<1>2. Mid \in Nat /\ loc.lo < Mid /\ Mid < loc.hi BY <1>0, <1>1, MidRange
<1>3. quiet => /\ e = total - Mid
               /\ key[total - loc.hi] <= target /\ target < key[total - loc.lo]
  BY <1>0 DEF Exact, Index
<1>4. GoodOrNone(loc.best) /\ GoodOrNone(loc.newer) /\ GoodOrNone(loc.older)
  BY <1>0 DEF Place
<1>5. CASE e = None /\ Linear("pairscan", NoDistance)
  <2> DEFINE l == [NoLocals EXCEPT !.maxd = NoDistance]
  <2>1. ~quiet BY <1>0, <1>5
  <2>2. l \in Locals BY DEF Locals, NoLocals, None, NoDistance
  <2>3. Place("pairscan", l) BY <1>0 DEF Place, NoLocals, GoodOrNone
  <2>4. "pairscan" \in Points /\ At("pairscan", l) BY <1>5 DEF Points, Linear
  <2> QED BY <1>0, <2>1, <2>2, <2>3, <2>4, AtKeeps
<1>6. CASE /\ e # None /\ key[e] > target
           /\ LET l == [loc EXCEPT !.lo = Mid] IN At(PairHead(l), l)
  <2> DEFINE l == [loc EXCEPT !.lo = Mid]
  <2>1. l \in Locals /\ l.lo = Mid /\ l.hi = loc.hi
        /\ l.best = loc.best /\ l.newer = loc.newer /\ l.older = loc.older
    BY <1>0, <1>2 DEF Locals
  <2>2. At(PairHead(l), l) BY <1>6
  <2> HIDE DEF l
  <2>3. quiet => key[e] \in Nat /\ target \in Nat BY <1>0, KeyOrder
  <2>4. quiet => key[total - l.hi] <= target /\ target < key[total - l.lo]
    BY <1>3, <1>6, <2>1, <2>3
  <2>5. l.lo < l.hi /\ l.hi < avail BY <1>1, <1>2, <2>1
  <2>6. GoodOrNone(l.best) /\ GoodOrNone(l.newer) /\ GoodOrNone(l.older)
    BY <1>4, <2>1
  <2> QED BY <1>0, <2>1, <2>2, <2>4, <2>5, <2>6, PairHeadKeeps
<1>7. CASE /\ e # None /\ key[e] <= target
           /\ LET l == [loc EXCEPT !.hi = Mid] IN At(PairHead(l), l)
  <2> DEFINE l == [loc EXCEPT !.hi = Mid]
  <2>1. l \in Locals /\ l.lo = loc.lo /\ l.hi = Mid
        /\ l.best = loc.best /\ l.newer = loc.newer /\ l.older = loc.older
    BY <1>0, <1>2 DEF Locals
  <2>2. At(PairHead(l), l) BY <1>7
  <2> HIDE DEF l
  <2>4. quiet => key[total - l.hi] <= target /\ target < key[total - l.lo]
    BY <1>3, <1>7, <2>1
  <2>5. l.lo < l.hi /\ l.hi < avail BY <1>0, <1>1, <1>2, <2>1
  <2>6. GoodOrNone(l.best) /\ GoodOrNone(l.newer) /\ GoodOrNone(l.older)
    BY <1>4, <2>1
  <2> QED BY <1>0, <2>1, <2>2, <2>4, <2>5, <2>6, PairHeadKeeps
<1> QED BY <1>5, <1>6, <1>7 DEF PairNarrow

\* The newer element of the pair is read again.
LEMMA AfterKeeps ==
  ASSUME SeriesInv, NEW e \in 0 .. MaxInserts, After(e)
  PROVE  SeriesInv'
<1>0. /\ pc = "after" /\ pc \in Points /\ op = "pair"
      /\ loc \in Locals /\ Place("after", loc) /\ GoodOrNone(e)
      /\ quiet => Exact("after", loc) /\ e = total - Index
  BY PairStep DEF After
<1> DEFINE l == [loc EXCEPT !.newer = e]
<1>1. l \in Locals /\ l.lo = loc.lo /\ l.hi = loc.hi
      /\ l.best = loc.best /\ l.newer = e /\ l.older = loc.older
  BY <1>0 DEF Locals
<1>2. At("before", l) BY DEF After
<1> HIDE DEF l
<1>3. Place("before", l) BY <1>0, <1>1 DEF Place
<1>4. quiet => Exact("before", l) BY <1>0, <1>1 DEF Exact, Index
<1>5. "before" \in Points BY DEF Points
<1> QED BY <1>0, <1>1, <1>2, <1>3, <1>4, <1>5, AtKeeps

\* The older element of the pair is read again, and the pair is returned.
LEMMA BeforeKeeps ==
  ASSUME SeriesInv, NEW e \in 0 .. MaxInserts, Before(e)
  PROVE  SeriesInv'
<1>0. /\ pc = "before" /\ pc \in Points /\ op = "pair"
      /\ loc \in Locals /\ Place("before", loc) /\ GoodOrNone(e)
      /\ loc.lo \in Nat /\ loc.hi \in Nat /\ avail \in Nat /\ avail >= 1
      /\ quiet => /\ Exact("before", loc) /\ e = total - Index /\ e \in Window /\ e # None
                  /\ avail = Available /\ total \in Nat /\ e \in 1 .. MaxInserts
  BY PairStep DEF Before
<1>1. loc.hi = loc.lo + 1 /\ loc.hi < avail /\ GoodOrNone(loc.newer) BY <1>0 DEF Place
<1>2. ASSUME quiet
      PROVE  /\ loc.newer = e + 1 /\ e + 1 \in Window /\ loc.newer # None
             /\ key[e] <= target /\ target < key[e + 1] /\ Available >= 2
  <2>1. e = total - loc.hi /\ loc.newer = total - loc.lo
        /\ key[total - loc.hi] <= target /\ target < key[total - loc.lo]
    BY <1>0, <1>2 DEF Exact, Index
  <2>2. loc.newer = e + 1 BY <1>0, <1>1, <1>2, <2>1
  <2>3. e + 1 \in Window BY <1>0, <1>1, <1>2, <2>1 DEF Window
  <2>4. Available >= 2 BY <1>0, <1>1, <1>2
  <2> QED BY <1>0, <1>2, <2>1, <2>2, <2>3, <2>4 DEF None
<1>3. CASE (loc.newer = None \/ e = None) /\ Return(Nothing)
  <2>1. ~quiet BY <1>0, <1>2, <1>3
  <2> QED BY <1>0, <1>3, <2>1, NothingAnswer
<1>4. CASE loc.newer # None /\ e # None /\ Return(Interpolated(e, loc.newer))
  <2>1. Good(e) /\ Good(loc.newer) BY <1>0, <1>1, <1>4 DEF GoodOrNone
  <2>2. Answer(Interpolated(e, loc.newer)) BY <1>0, <2>1, InterpolatedAnswer
  <2>3. quiet => ExactAnswer(Interpolated(e, loc.newer))
    BY <1>0, <1>2, BracketAnswer
  <2> QED BY <1>0, <1>4, <2>2, <2>3, ReturnKeeps
<1> QED BY <1>3, <1>4 DEF Before

\* The linear fall-back, entered only if an insert() has run.
LEMMA PairScanKeeps ==
  ASSUME SeriesInv, NEW e \in 0 .. MaxInserts, PairScan(e)
  PROVE  SeriesInv'
<1>0. /\ pc = "pairscan" /\ pc \in Points /\ op = "pair"
      /\ loc \in Locals /\ Place("pairscan", loc) /\ GoodOrNone(e) /\ avail \in Nat
      /\ quiet => Exact("pairscan", loc)
  BY PairStep DEF PairScan
<1>1. ~quiet BY <1>0 DEF Exact
<1> DEFINE o == IF e # None /\ key[e] <= target /\ Diff(e) < DiffOrMax(loc.older)
                THEN e ELSE loc.older
           n == IF e # None /\ key[e] >= target /\ Diff(e) < DiffOrMax(loc.newer)
                THEN e ELSE loc.newer
           l == [loc EXCEPT !.i = @ + 1, !.older = o, !.newer = n]
           res == IF o = None \/ n = None THEN Nothing ELSE Interpolated(o, n)
<1>2. GoodOrNone(o) /\ o \in 0 .. MaxInserts /\ GoodOrNone(n) /\ n \in 0 .. MaxInserts
  BY <1>0 DEF Place, Locals
<1>3. \/ loc.i + 1 < avail /\ At("pairscan", l)
      \/ Return(res)
  BY DEF PairScan
<1> HIDE DEF o, n
<1>4. CASE loc.i + 1 < avail /\ At("pairscan", l)
  <2>1. loc.i \in Nat /\ loc.i + 1 \in Nat BY <1>0 DEF Locals
  <2>2. l \in Locals /\ l.i = loc.i + 1 /\ l.best = loc.best /\ l.newer = n /\ l.older = o
    BY <1>0, <1>2, <2>1 DEF Locals
  <2> HIDE DEF l
  <2>3. Place("pairscan", l) BY <1>0, <1>2, <1>4, <2>2 DEF Place
  <2>4. "pairscan" \in Points BY DEF Points
  <2> QED BY <1>0, <1>1, <1>4, <2>2, <2>3, <2>4, AtKeeps
<1>5. CASE Return(res)
  <2>1. CASE o = None \/ n = None
    <3>1. res = Nothing BY <2>1
    <3> QED BY <1>0, <1>1, <1>5, <3>1, NothingAnswer
  <2>2. CASE o # None /\ n # None
    <3>1. Good(o) /\ Good(n) BY <1>2, <2>2 DEF GoodOrNone
    <3>2. Answer(res) BY <1>0, <2>2, <3>1, InterpolatedAnswer
    <3> QED BY <1>0, <1>1, <1>5, <3>2, ReturnKeeps
  <2> QED BY <2>1, <2>2
<1> QED BY <1>3, <1>4, <1>5

-----------------------------------------------------------------------------
(* get_latest_if_fresh() and get_latest().                                  *)

\* The newest element when it was read is not older than when the call began.
LEMMA NewestAnswer ==
  ASSUME SeriesInv, NEW p \in {"fresh", "latest"}, NEW e \in 0 .. MaxInserts, Got(p, e)
  PROVE  /\ pc \in Points /\ op = p
         /\ e # None => Answer(Just(e))
<1>1. pc = p /\ p \in Points BY DEF Got, Points
<1>2. Place(p, loc) BY <1>1 DEF SeriesInv, CallInv
<1>3. op = p BY <1>2 DEF Place
<1>4. GoodOrNone(e) /\ (e # None => e >= t0 - Index) BY <1>1, GotRange
<1>5. Index = 0 BY <1>1 DEF Index
<1>6. e # None => Good(e) BY <1>4 DEF GoodOrNone
<1>7. t0 \in Nat BY DEF SeriesInv, Base
<1>8. e # None => e >= t0 BY <1>4, <1>5, <1>7
<1> QED BY <1>1, <1>3, <1>6, <1>8 DEF Answer, Good

\* get_latest_if_fresh() returns.
LEMMA FreshKeeps ==
  ASSUME SeriesInv, NEW e \in 0 .. MaxInserts, Fresh(e)
  PROVE  SeriesInv'
<1> DEFINE res == IF e # None /\ key[e] >= target THEN Just(e) ELSE Nothing
<1>1. Got("fresh", e) /\ Return(res) BY DEF Fresh
<1>2. pc \in Points /\ op = "fresh" /\ (e # None => Answer(Just(e)))
  BY <1>1, NewestAnswer
<1>3. Answer(Nothing) BY DEF Answer
<1>4. Answer(res) BY <1>2, <1>3
<1>5. ExactAnswer(res) BY <1>2 DEF ExactAnswer
<1> HIDE DEF res
<1> QED BY <1>1, <1>2, <1>4, <1>5, ReturnKeeps

\* get_latest() returns.
LEMMA LatestKeeps ==
  ASSUME SeriesInv, NEW e \in 0 .. MaxInserts, Latest(e)
  PROVE  SeriesInv'
<1>1. Got("latest", e) /\ e # None /\ Return(Just(e)) BY DEF Latest
<1>2. pc \in Points /\ op = "latest" /\ Answer(Just(e)) BY <1>1, NewestAnswer
<1>3. ExactAnswer(Just(e)) BY <1>2 DEF ExactAnswer
<1> QED BY <1>1, <1>2, <1>3, ReturnKeeps

-----------------------------------------------------------------------------
(* The calls, and all steps together.                                       *)

\* The locals before a search.
LEMMA Empty ==
  /\ NoLocals \in Locals
  /\ NoLocals.best = None /\ NoLocals.newer = None /\ NoLocals.older = None
  /\ NoLocals.lo = 0
BY DEF Locals, NoLocals, None, NoDistance

\* find_closest() begins, for a plain or a sanitized key.
LEMMA ClosestKeeps ==
  ASSUME SeriesInv, NEW o \in {"closest", "safe"}, NEW t \in Keys,
         NEW d \in Nat \cup {NoDistance}, Closest(o, t, d),
         o = "safe" =>
           /\ seen # None /\ d = NoDistance
           /\ (IF key[seen] > t THEN key[seen] - t ELSE t - key[seen]) <= Tolerance
  PROVE  SeriesInv'
<1> DEFINE l == [NoLocals EXCEPT !.hi = Available - 1, !.maxd = d]
<1>1. Call(o, t, d, 1, LoopHead(l), l) BY DEF Closest
<1>2. Available >= 1 => Available - 1 \in Nat BY DEF SeriesInv, Base, Available
<1>3. Available >= 1 => l \in Locals BY <1>2, Empty DEF Locals
<1>4. /\ l.best = None /\ l.newer = None /\ l.older = None /\ l.lo = 0
      /\ l.maxd = d /\ l.hi = Available - 1
  BY Empty DEF Locals
<1> HIDE DEF l
<1>5. LoopHead(l) \in Points BY DEF LoopHead, Points
<1> QED BY <1>1, <1>3, <1>4, <1>5, CallKeeps

\* The caller begins a call or takes note of a result.
LEMMA CallerKeeps ==
  ASSUME SeriesInv, Caller
  PROVE  SeriesInv'
<1>1. CASE FindClosest
  <2>1. PICK t \in Keys, d \in Distances \cup {NoDistance} : Closest("closest", t, d)
    BY <1>1 DEF FindClosest
  <2>2. d \in Nat \cup {NoDistance} OBVIOUS
  <2> QED BY <2>1, <2>2, ClosestKeeps
<1>2. CASE FindClosestSanitized
  <2>1. PICK raw \in Keys :
          /\ seen # None
          /\ SK!Sanitize(raw, SK!AllOf({SK!MonotonicNsValidator,
                     SK!ProximityValidator(key[seen], Tolerance)})) # SK!NoKey
          /\ Closest("safe", raw, NoDistance)
    BY <1>2 DEF FindClosestSanitized
  <2>2. raw \in SK!ProximityValidator(key[seen], Tolerance)
    BY <2>1 DEF SK!Sanitize, SK!AllOf
  <2>3. (IF raw > key[seen] THEN raw - key[seen] ELSE key[seen] - raw) <= Tolerance
    BY <2>2 DEF SK!ProximityValidator
  <2>4. key[seen] \in Nat /\ raw \in Nat
    <3>1. seen \in 1 .. MaxInserts BY <2>1 DEF SeriesInv, Base, None
    <3> QED BY <3>1, KeyOrder DEF Keys
  <2>5. (IF key[seen] > raw THEN key[seen] - raw ELSE raw - key[seen]) <= Tolerance
    BY <2>3, <2>4
  <2> QED BY <2>1, <2>5, ClosestKeeps
<1>3. CASE FindInterpolationPair
  <2> DEFINE l == [NoLocals EXCEPT !.hi = Available - 1]
  <2>1. PICK t \in Keys : Call("pair", t, NoDistance, 2, "newest", l)
    BY <1>3 DEF FindInterpolationPair
  <2>2. Available >= 2 => Available - 1 \in Nat BY DEF SeriesInv, Base, Available
  <2>3. Available >= 2 => l \in Locals BY <2>2 DEF Locals, NoLocals, None, NoDistance
  <2>4. /\ l.best = None /\ l.newer = None /\ l.older = None /\ l.lo = 0
        /\ l.hi = Available - 1
    BY DEF NoLocals
  <2> HIDE DEF l
  <2>5. "newest" \in Points BY DEF Points
  <2> QED BY <2>1, <2>3, <2>4, <2>5, CallKeeps
<1> DEFINE l0 == NoLocals
<1>4. l0 \in Locals /\ l0.best = None /\ l0.newer = None /\ l0.older = None /\ l0.lo = 0
  BY Empty
<1>5. CASE GetLatestIfFresh
  <2>1. PICK t \in Keys : Call("fresh", t, NoDistance, 1, "fresh", l0)
    BY <1>5 DEF GetLatestIfFresh
  <2>2. "fresh" \in Points /\ (1 = 2 <=> "fresh" = "pair") BY DEF Points
  <2> HIDE DEF l0
  <2> QED BY <1>4, <2>1, <2>2, CallKeeps
<1>6. CASE GetLatest
  <2>1. Call("latest", 0, NoDistance, 1, "latest", l0) BY <1>6 DEF GetLatest
  <2>2. "latest" \in Points /\ 0 \in Keys /\ (1 = 2 <=> "latest" = "pair")
    BY DEF Points, Keys
  <2> HIDE DEF l0
  <2> QED BY <1>4, <2>1, <2>2, CallKeeps
<1> QED BY <1>1, <1>2, <1>3, <1>5, <1>6, FinishKeeps DEF Caller

\* A call proceeds.
LEMMA CallStepKeeps ==
  ASSUME SeriesInv, CallStep
  PROVE  SeriesInv'
<1>1. CASE Locate BY <1>1, LocateKeeps
<1>2. ASSUME NEW e \in 0 .. MaxInserts,
             Narrow(e) \/ Best(e) \/ Prev(e) \/ NextElem(e) \/ Scan(e)
      PROVE  SeriesInv'
  BY <1>2, NarrowKeeps, BestKeeps, PrevKeeps, NextKeeps, ScanKeeps
<1>3. ASSUME NEW e \in 0 .. MaxInserts,
             \/ Newest(e) \/ Oldest(e) \/ PairNarrow(e) \/ After(e) \/ Before(e)
             \/ PairScan(e)
      PROVE  SeriesInv'
  BY <1>3, NewestKeeps, OldestKeeps, PairNarrowKeeps, AfterKeeps, BeforeKeeps,
     PairScanKeeps
<1>4. ASSUME NEW e \in 0 .. MaxInserts, Fresh(e) \/ Latest(e)
      PROVE  SeriesInv'
  BY <1>4, FreshKeeps, LatestKeeps
<1> QED BY <1>1, <1>2, <1>3, <1>4 DEF CallStep

\* The initial states satisfy the invariant.
LEMMA InitSeries == Init => SeriesInv
<1> SUFFICES ASSUME Init PROVE SeriesInv
  OBVIOUS
<1>1. "idle" \notin Points BY DEF Points
<1>2. 0 \in Keys /\ total \in 0 .. MaxInserts /\ t0 \in 0 .. total
  BY DEF Keys, Init
<1>3. Base BY <1>1, <1>2 DEF Init, Base, Increasing, None
<1>4. CallInv BY <1>1, <1>2 DEF Init, CallInv
<1> QED BY <1>3, <1>4 DEF SeriesInv, ResultInv, Init

\* Stuttering steps.
LEMMA StutterKeeps ==
  ASSUME SeriesInv, UNCHANGED vars
  PROVE  SeriesInv'
<1>0. UNCHANGED <<key, total, w, pc, op, target, maxd, avail, loc, want, result, seen, t0,
                  quiet>>
  BY DEF vars, wvars, args, hist
<1>1. Base' BY <1>0 DEF SeriesInv, Base, Increasing, Diff
<1>2. Index' = Index BY <1>0 DEF Index, Mid
<1>3. pc \in Points => Place(pc, loc)'
  BY <1>0 DEF SeriesInv, CallInv, Place, GoodOrNone, Good
<1>4. pc \in Points /\ quiet => Exact(pc, loc)'
  BY <1>0 DEF SeriesInv, CallInv, Exact, Above, Below, Window, Available, Diff
<1>5. CallInv' BY <1>0, <1>2, <1>3, <1>4 DEF SeriesInv, CallInv
<1>6. pc = "done" => Answer(result)' BY <1>0 DEF SeriesInv, ResultInv, Answer, Good
<1>7. pc = "done" /\ quiet => ExactAnswer(result)'
  BY <1>0 DEF SeriesInv, ResultInv, ExactAnswer, Nearest, Window, Available, Diff, Filtered
<1> QED BY <1>0, <1>1, <1>5, <1>6, <1>7 DEF SeriesInv, ResultInv

-----------------------------------------------------------------------------
(* Theorems.                                                                *)

\* Every reachable state of the time series satisfies the invariant.
THEOREM Invariance == Spec => []SeriesInv
<1>1. SeriesInv /\ [Next]_vars => SeriesInv'
  BY WriterKeeps, CallStepKeeps, CallerKeeps, StutterKeeps DEF Next
<1> QED BY <1>1, InitSeries, PTL DEF Spec

\* For any capacity, every index the searches compute (mid, lo - 1, lo + 1,
\* mid - 1, avail - 1) is that of an element available when the call began, and
\* try_get asks for an element that has been inserted.
THEOREM Indices == Spec => []IndexInRange
<1>1. SeriesInv => IndexInRange
  <2> SUFFICES ASSUME SeriesInv PROVE IndexInRange
    OBVIOUS
  <2>1. pc \in Points => Index \in 0 .. avail - 1 /\ avail <= total
    <3>1. ASSUME pc \in Points PROVE Index \in 0 .. avail - 1 /\ avail <= total
      BY <3>1, IndexRange
    <3> QED BY <3>1
  <2>2. want # 0 => want \in 1 .. total BY DEF SeriesInv, Base, CallInv
  <2> QED BY <2>1, <2>2 DEF IndexInRange
<1> QED BY <1>1, Invariance, PTL

\* Whatever the writer does meanwhile, a search returns only elements that were
\* available when the call began or are newer, and the latest is the latest.
THEOREM Recency == Spec => []Recent
<1>1. SeriesInv => Recent
  <2> SUFFICES ASSUME SeriesInv, pc = "done", NEW e \in Elems
               PROVE  /\ e >= t0 - N + 1 /\ e > 0 /\ e <= total + 1
                      /\ op \in {"fresh", "latest"} => e >= t0
    BY DEF Recent
  <2>1. Answer(result) BY DEF SeriesInv, ResultInv
  <2>2. CASE result = Nothing
    <3>1. result.elems = << >> BY <2>2 DEF Nothing
    <3> QED BY <3>1 DEF Elems
  <2>3. CASE \E f \in 1 .. MaxInserts :
               /\ result = Just(f) /\ Good(f)
               /\ op \in {"fresh", "latest"} => f >= t0
    <3>1. PICK f \in 1 .. MaxInserts :
            /\ result = Just(f) /\ Good(f)
            /\ op \in {"fresh", "latest"} => f >= t0
      BY <2>3
    <3>2. result.elems = <<f>> BY <3>1 DEF Just
    <3>3. e = f BY <3>2 DEF Elems
    <3> QED BY <3>1, <3>3 DEF Good
  <2>4. CASE /\ op = "pair"
             /\ \E b, a \in 1 .. MaxInserts : \E alpha \in Keys \X Keys :
                  Good(b) /\ Good(a) /\ result = [elems |-> <<b, a>>, alpha |-> alpha]
    <3>1. PICK b \in 1 .. MaxInserts, a \in 1 .. MaxInserts :
            Good(b) /\ Good(a) /\ result.elems = <<b, a>>
      BY <2>4
    <3>2. e \in {a, b} BY <3>1 DEF Elems
    <3> QED BY <2>4, <3>1, <3>2 DEF Good
  <2> QED BY <2>1, <2>2, <2>3, <2>4 DEF Answer
<1> QED BY <1>1, Invariance, PTL

\* find_closest() is exact when no insert() runs during the call: it returns an
\* element of minimal distance, or nothing if that is beyond max_distance.
THEOREM ClosestIsExact == Spec => []ClosestExact
<1>1. SeriesInv => ClosestExact
  <2> SUFFICES ASSUME SeriesInv, pc = "done", quiet, op \in {"closest", "safe"}
               PROVE  LET near == {e \in Window :
                                     /\ \A f \in Window : Diff(e) <= Diff(f)
                                     /\ maxd # NoDistance => Diff(e) <= maxd}
                      IN  IF near = {} THEN result = Nothing
                          ELSE \E e \in near : result = Just(e)
    BY DEF ClosestExact
  <2> DEFINE near == {e \in Window : /\ \A f \in Window : Diff(e) <= Diff(f)
                                     /\ maxd # NoDistance => Diff(e) <= maxd}
  <2>1. ExactAnswer(result) BY DEF SeriesInv, ResultInv
  <2>2. CASE Window = {} /\ result = Nothing BY <2>2
  <2>3. CASE \E e \in Window : Nearest(e) /\ result = Filtered(e, maxd)
    <3>1. PICK e \in Window : Nearest(e) /\ result = Filtered(e, maxd) BY <2>3
    <3>2. e # None BY <3>1, KeyOrder DEF None
    <3>3. CASE maxd # NoDistance /\ Diff(e) > maxd
      <4>1. result = Nothing BY <3>1, <3>3 DEF Filtered
      <4>2. ASSUME NEW f \in near PROVE FALSE
        <5>1. Diff(e) <= Diff(f) /\ Diff(f) <= maxd BY <3>1, <3>3 DEF Nearest
        <5>2. Diff(e) \in Nat /\ Diff(f) \in Nat BY DiffOrder, KeyOrder
        <5>3. maxd \in Nat BY <3>3 DEF SeriesInv, Base
        <5> QED BY <3>3, <5>1, <5>2, <5>3
      <4> QED BY <4>1, <4>2
    <3>4. CASE ~(maxd # NoDistance /\ Diff(e) > maxd)
      <4>1. result = Just(e) BY <3>1, <3>2, <3>4 DEF Filtered
      <4>2. Diff(e) \in Nat BY DiffOrder, KeyOrder
      <4>3. maxd \in Nat \cup {NoDistance} BY DEF SeriesInv, Base
      <4>4. e \in near BY <3>1, <3>4, <4>2, <4>3 DEF Nearest
      <4> QED BY <4>1, <4>4
    <3> QED BY <3>3, <3>4
  <2> QED BY <2>1, <2>2, <2>3 DEF ExactAnswer
<1> QED BY <1>1, Invariance, PTL

\* find_interpolation_pair() is exact when no insert() runs during the call: it
\* returns the adjacent elements that bracket the target, or nothing if the
\* target is out of range.
THEOREM PairIsExact == Spec => []PairExact
<1>1. SeriesInv => PairExact
  BY DEF SeriesInv, ResultInv, ExactAnswer, PairExact
<1> QED BY <1>1, Invariance, PTL

\* A key that a ProximityValidator has accepted against the latest element finds
\* an element within the tolerance, if that element is still in the buffer and no
\* insert() runs during the search.
THEOREM SanitizedIsNear == Spec => []SanitizedKeyIsNear
<1>1. SeriesInv => SanitizedKeyIsNear
  <2> SUFFICES ASSUME SeriesInv, pc = "done", quiet, op = "safe", seen \in Window
               PROVE  \E e \in Window : result = Just(e) /\ Diff(e) <= Tolerance
    BY DEF SanitizedKeyIsNear
  <2>1. Diff(seen) <= Tolerance /\ maxd = NoDistance BY DEF SeriesInv, Base
  <2>2. ExactAnswer(result) BY DEF SeriesInv, ResultInv
  <2>3. PICK e \in Window : Nearest(e) /\ result = Filtered(e, maxd)
    BY <2>2 DEF ExactAnswer
  <2>4. e # None BY KeyOrder DEF None
  <2>5. result = Just(e) BY <2>1, <2>3, <2>4 DEF Filtered
  <2>6. Diff(e) <= Diff(seen) BY <2>3 DEF Nearest
  <2>7. Diff(e) \in Nat /\ Diff(seen) \in Nat BY DiffOrder, KeyOrder
  <2> QED BY <2>1, <2>5, <2>6, <2>7
<1> QED BY <1>1, Invariance, PTL
=============================================================================
